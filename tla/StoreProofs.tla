---------------------------- MODULE StoreProofs -----------------------------
(***************************************************************************)
(* Theorems about the operations of StoreState and about the copy-on-write *)
(* store, for every size, quota and set of requests.                       *)
(***************************************************************************)
EXTENDS Stores, WellFoundedInduction, TLAPS

\* A leaf that names no prover is tried with these, with time to spare.
USE SMTT(60), SMTT(90), SMTT(120), ZenonT(120)

-----------------------------------------------------------------------------
(* Naturals.                                                               *)

\* Every set of naturals that has an element has a least one.
LEMMA LeastNatural ==
  ASSUME NEW T, T \subseteq Nat, T # {}
  PROVE  \E n \in T : \A m \in T : n <= m
<1>1. PICK i \in T : \A j \in T : ~(<<j, i>> \in OpToRel(<, Nat))
  BY NatLessThanWellFounded, WFMin, Zenon, ZenonT(120)
<1>2. \A j \in T : ~(j < i)
  BY <1>1, Zenon, ZenonT(120) DEF OpToRel
<1> QED
  BY <1>2

-----------------------------------------------------------------------------
(* The operations of a state.                                              *)

\* The parts of a state have their types.
LEMMA StateParts ==
    ASSUME NEW s \in State
    PROVE  /\ s.generation \in Nat /\ s.next_object \in Nat
           /\ Live(s) \in SUBSET Handle
           /\ s.objects \in [Live(s) -> Object]
           /\ DOMAIN s.namespaces \in SUBSET Names
           /\ s.namespaces \in [DOMAIN s.namespaces -> Handle]
<1>1. PICK H \in SUBSET Handle : s.objects \in [H -> Object]
  BY DEF State
<1>2. PICK N \in SUBSET Names : s.namespaces \in [N -> Handle]
  BY DEF State
<1> QED
  BY <1>1, <1>2 DEF State, Live

\* Parts of the right types make a state.
LEMMA StateMade ==
    ASSUME NEW g \in Nat, NEW n \in Nat,
           NEW H \in SUBSET Handle, NEW objects \in [H -> Object],
           NEW N \in SUBSET Names, NEW names \in [N -> Handle]
    PROVE  [generation |-> g, next_object |-> n, objects |-> objects,
            namespaces |-> names] \in State
BY DEF State

\* The state of a new store is a state.
LEMMA EmptyType == Empty \in State
<1>1. [h \in {} |-> None] \in [{} -> Object] /\ [n \in {} |-> 0] \in [{} -> Handle]
  OBVIOUS
<1> QED
  BY <1>1, StateMade, 0 \in Nat, 1 \in Nat, Zenon, ZenonT(120) DEF Empty

\* Replacing an object leaves the rest of the state alone.
LEMMA WithObjectType ==
    ASSUME NEW s \in State, NEW h \in Live(s), NEW object \in Object
    PROVE  /\ WithObject(s, h, object) \in State
           /\ WithObject(s, h, object).generation = s.generation
<1> DEFINE objects == [s.objects EXCEPT ![h] = object]
<1>1. WithObject(s, h, object) =
        [generation |-> s.generation, next_object |-> s.next_object,
         objects |-> objects, namespaces |-> s.namespaces]
  BY DEF WithObject, State
<1>2. objects \in [Live(s) -> Object]
  BY StateParts
<1> HIDE DEF objects
<1>3. [generation |-> s.generation, next_object |-> s.next_object,
       objects |-> objects, namespaces |-> s.namespaces] \in State
  BY <1>2, StateParts, StateMade, Zenon, ZenonT(120)
<1> QED
  BY <1>1, <1>3

-----------------------------------------------------------------------------
(* The bytes used.                                                         *)

\* The element the sum takes out of a set next.
Picked(t) == CHOOSE h \in t : TRUE

\* sum[t] is the number of bytes the objects of t hold, taken one by one.
IsSum(sum, objects) ==
    sum = [t \in SUBSET DOMAIN objects |->
              IF t = {} THEN 0 ELSE objects[Picked(t)].len + sum[t \ {Picked(t)}]]

\* The objects of a state, as far as their lengths go.
Lengths(objects) ==
    /\ DOMAIN objects \in SUBSET Handle
    /\ \A h \in DOMAIN objects : objects[h].len \in Nat

LEMMA UsedIs ==
  ASSUME NEW s
  PROVE  used_bytes(s) = (CHOOSE sum : IsSum(sum, s.objects))[Live(s)]
BY DEF used_bytes, MapThenSumSet, MapThenFoldSet, Picked, IsSum, Live

\* The element taken next is one of the set.
LEMMA NextIn ==
  ASSUME NEW t, t # {}
  PROVE  Picked(t) \in t
BY DEF Picked

\* size counts the elements of each set of numbers up to n. It stands in for
\* Cardinality, whose theorems every obligation below would carry along.
IsSize(size, n) ==
    /\ size \in [SUBSET (1..n) -> 0..n]
    /\ \A t \in SUBSET (1..n) : \A h \in t : size[t] = size[t \ {h}] + 1

\* Sets of numbers can be counted.
LEMMA SizeExists ==
  ASSUME NEW n \in Nat
  PROVE  \E size : IsSize(size, n)
<1> DEFINE T == {m \in Nat : ~\E size : IsSize(size, m)}
<1> SUFFICES ASSUME T # {} PROVE FALSE
  BY Zenon, ZenonT(120)
<1>1. PICK m \in T : \A k \in T : m <= k
  BY LeastNatural, Zenon, ZenonT(120)
<1>2. CASE m = 0
  <2> DEFINE g == [t \in SUBSET (1..0) |-> 0]
  <2>1. IsSize(g, 0)
    BY DEF IsSize
  <2> QED
    BY <1>1, <1>2, <2>1, Zenon, ZenonT(120)
<1>3. CASE m # 0
  <2>1. m \in Nat /\ m - 1 \in Nat /\ m - 1 \notin T
    <3>1. m \in Nat
      BY <1>1
    <3> HIDE DEF T
    <3> QED
      BY <1>1, <1>3, <3>1
  <2>2. PICK g : IsSize(g, m - 1)
    BY <2>1, Zenon, ZenonT(120)
  <2> DEFINE g1(t) == g[t \ {m}] + (IF m \in t THEN 1 ELSE 0)
             h == [t \in SUBSET (1..m) |-> g1(t)]
  <2>3. ASSUME NEW t \in SUBSET (1..m) PROVE t \ {m} \in SUBSET (1..m - 1)
    BY <2>1
  <2>4. ASSUME NEW t \in SUBSET (1..m) PROVE g[t \ {m}] \in 0..m - 1
    BY <2>2, <2>3, Zenon, ZenonT(120) DEF IsSize
  <2>5. h \in [SUBSET (1..m) -> 0..m]
    <3>1. ASSUME NEW t \in SUBSET (1..m) PROVE g1(t) \in 0..m
      <4>1. g[t \ {m}] \in 0..m - 1
        BY <2>4, Zenon, ZenonT(120)
      <4>2. g[t \ {m}] + 1 \in 0..m /\ g[t \ {m}] + 0 \in 0..m
        BY <2>1, <4>1
      <4> QED
        BY <4>2, Zenon, ZenonT(120)
    <3> HIDE DEF g1
    <3> QED
      BY <3>1
  <2>6. ASSUME NEW t \in SUBSET (1..m), NEW x \in t PROVE h[t] = h[t \ {x}] + 1
    <3>1. h[t] = g1(t) /\ h[t \ {x}] = g1(t \ {x})
      OBVIOUS
    <3>2. CASE x = m
      <4>1. (t \ {x}) \ {m} = t \ {m} /\ m \in t /\ m \notin t \ {x}
        BY <3>2
      <4>2. h[t] = g[t \ {m}] + 1 /\ h[t \ {x}] = g[t \ {m}] + 0
        BY <3>1, <4>1, Zenon, ZenonT(120)
      <4>3. g[t \ {m}] \in 0..m - 1
        BY <2>4, Zenon, ZenonT(120)
      <4> HIDE DEF h
      <4> QED
        BY <2>1, <4>2, <4>3
    <3>3. CASE x # m
      <4> DEFINE u == t \ {m}
      <4>1. (t \ {x}) \ {m} = u \ {x} /\ x \in u /\ (m \in t <=> m \in t \ {x})
        BY <3>3
      <4>2. u \in SUBSET (1..m - 1) /\ g[u] \in 0..m - 1 /\ t \ {x} \in SUBSET (1..m)
        BY <2>3, <2>4
      <4>3. g[(t \ {x}) \ {m}] \in 0..m - 1
        BY <2>4, <4>2, Zenon, ZenonT(120)
      <4>4. g[u] = g[u \ {x}] + 1
        BY <2>2, <4>1, <4>2, Zenon, ZenonT(120) DEF IsSize
      <4> HIDE DEF h
      <4> QED
        BY <2>1, <3>1, <4>1, <4>2, <4>3, <4>4
    <3> QED
      BY <3>2, <3>3
  <2> HIDE DEF h
  <2>7. IsSize(h, m)
    BY <2>5, <2>6, Zenon, ZenonT(120) DEF IsSize
  <2> QED
    BY <1>1, <2>7, Zenon, ZenonT(120)
<1> QED
  BY <1>2, <1>3, Zenon, ZenonT(120)

\* The number of handles in a set of them.
Size(t) == (CHOOSE size : IsSize(size, MaxHandle))[t]

\* It is at most that of all handles, and one more than without one of them.
LEMMA SizeIs ==
  ASSUME NEW t \in SUBSET Handle
  PROVE  /\ MaxHandle \in Nat /\ Size(t) \in 0..MaxHandle
         /\ \A h \in t : Size(t) = Size(t \ {h}) + 1
<1> DEFINE size == CHOOSE size : IsSize(size, MaxHandle)
<1>1. \E size1 : IsSize(size1, MaxHandle)
  BY ConfigAssumption, SizeExists
<1>2. IsSize(size, MaxHandle)
  BY <1>1, Zenon, ZenonT(120)
<1>3. Size(t) = size[t] /\ \A h \in t : Size(t \ {h}) = size[t \ {h}]
  BY Zenon, ZenonT(120) DEF Size
<1> HIDE DEF size
<1>4. MaxHandle \in Nat /\ t \in SUBSET (1..MaxHandle)
  BY ConfigAssumption DEF Handle
<1>5. /\ size[t] \in 0..MaxHandle
      /\ \A h \in t : size[t] = size[t \ {h}] + 1
  BY <1>2, <1>4, Zenon, ZenonT(120) DEF IsSize
<1> QED
  BY <1>3, <1>4, <1>5, Zenon, ZenonT(120)

\* Sets of handles shrink.
LEMMA Smaller ==
  ASSUME NEW S \in SUBSET Handle, NEW t \in SUBSET S, NEW x \in t
  PROVE  /\ t \ {x} \in SUBSET S /\ Size(t) \in Nat /\ Size(t \ {x}) \in Nat
         /\ Size(t \ {x}) = Size(t) - 1
<1>1. t \in SUBSET Handle /\ t \ {x} \in SUBSET Handle /\ t \ {x} \in SUBSET S
  OBVIOUS
<1>2. /\ MaxHandle \in Nat /\ Size(t) \in 0..MaxHandle /\ Size(t \ {x}) \in 0..MaxHandle
      /\ Size(t) = Size(t \ {x}) + 1
  BY <1>1, SizeIs, Zenon, ZenonT(120)
<1> QED
  BY <1>1, <1>2

\* There is such a sum.
LEMMA SumExists ==
  ASSUME NEW objects, Lengths(objects)
  PROVE  \E sum : IsSum(sum, objects)
<1> DEFINE S == DOMAIN objects
           Upto(n) == {t \in SUBSET S : Size(t) <= n}
           Step(sum, t) == IF t = {} THEN 0 ELSE objects[Picked(t)].len + sum[t \ {Picked(t)}]
           Partial(sum, n) == sum = [t \in Upto(n) |-> Step(sum, t)]
           T == {n \in Nat : ~\E sum : Partial(sum, n)}
<1>1. S \in SUBSET Handle
  BY DEF Lengths
<1>2. T = {}
  <2> SUFFICES ASSUME T # {} PROVE FALSE
    BY Zenon, ZenonT(120)
  <2>1. PICK n \in T : \A m \in T : n <= m
    BY LeastNatural, Zenon, ZenonT(120)
  <2>2. CASE n = 0
    <3> DEFINE g == [t \in Upto(0) |-> 0]
    <3>1. ASSUME NEW t \in Upto(0) PROVE t = {}
      <4>1. t \in SUBSET S /\ Size(t) <= 0
        OBVIOUS
      <4>2. ASSUME NEW x \in t PROVE FALSE
        <5>1. Size(t) \in Nat /\ Size(t \ {x}) \in Nat /\ Size(t \ {x}) = Size(t) - 1
          BY <1>1, <4>1, Smaller, Zenon, ZenonT(120)
        <5> QED
          BY <4>1, <5>1
      <4> QED
        BY <4>2
    <3>2. \A t \in Upto(0) : Step(g, t) = 0
      BY <3>1
    <3> HIDE DEF Step, Upto
    <3>3. Partial(g, 0)
      BY <3>2
    <3> QED
      BY <2>1, <2>2, <3>3
  <2>3. CASE n # 0
    <3>1. n \in Nat /\ n - 1 \in Nat /\ n - 1 \notin T
      <4>1. n \in Nat
        BY <2>1
      <4> HIDE DEF T
      <4> QED
        BY <2>1, <2>3, <4>1
    <3>2. PICK g : Partial(g, n - 1)
      BY <3>1, Zenon, ZenonT(120)
    <3> DEFINE h == [t \in Upto(n) |-> Step(g, t)]
    <3>3. \A t \in Upto(n - 1) : g[t] = Step(g, t) /\ t \in Upto(n)
      <4>1. \A t \in Upto(n - 1) : t \in Upto(n)
        BY <1>1, <3>1, SizeIs
      <4> HIDE DEF Step, Upto
      <4>2. g = [t \in Upto(n - 1) |-> Step(g, t)]
        BY <3>2
      <4> QED
        BY <4>1, <4>2
    <3>4. \A t \in Upto(n - 1) : h[t] = g[t]
      <4> HIDE DEF Step, Upto
      <4> QED
        BY <3>3
    <3>5. ASSUME NEW t \in Upto(n) PROVE Step(g, t) = Step(h, t)
      <4>1. CASE t = {}
        BY <4>1
      <4>2. CASE t # {}
        <5>1. t \ {Picked(t)} \in Upto(n - 1)
          <6>1. Picked(t) \in t /\ t \in SUBSET S /\ Size(t) <= n
            BY <4>2, NextIn
          <6>2. /\ Size(t) \in Nat /\ t \ {Picked(t)} \in SUBSET S
                /\ Size(t \ {Picked(t)}) = Size(t) - 1
            BY <1>1, <6>1, Smaller, Zenon, ZenonT(120)
          <6>3. Size(t) - 1 <= n - 1
            BY <3>1, <6>1, <6>2
          <6> QED
            BY <6>2, <6>3
        <5> HIDE DEF h
        <5> QED
          BY <5>1, <3>4
      <4> QED
        BY <4>1, <4>2
    <3>6. Partial(h, n)
      <4>1. h = [t \in Upto(n) |-> Step(g, t)]
        OBVIOUS
      <4> HIDE DEF h, Step, Upto
      <4>2. [t \in Upto(n) |-> Step(g, t)] = [t \in Upto(n) |-> Step(h, t)]
        BY <3>5, Zenon, ZenonT(120)
      <4> QED
        BY <4>1, <4>2
    <3> QED
      BY <2>1, <3>6, Zenon, ZenonT(120)
  <2> QED
    BY <2>2, <2>3
<1>3. MaxHandle \in Nat
  BY ConfigAssumption
<1>4. PICK sum : Partial(sum, MaxHandle)
  BY <1>2, <1>3, Zenon, ZenonT(120)
<1>5. Upto(MaxHandle) = SUBSET S
  BY <1>1, <1>3, SizeIs
<1> QED
  BY <1>4, <1>5, Zenon, ZenonT(120) DEF IsSum

\* What a sum says: nothing of no object; of others, one length and the rest.
LEMMA SumSteps ==
  ASSUME NEW objects, NEW sum, IsSum(sum, objects), NEW t \in SUBSET DOMAIN objects
  PROVE  /\ t = {} => sum[t] = 0
         /\ t # {} => sum[t] = objects[Picked(t)].len + sum[t \ {Picked(t)}]
BY Zenon, ZenonT(120) DEF IsSum

\* A sum is a natural, and does not depend on the order objects are taken in.
LEMMA SumRemoves ==
  ASSUME NEW objects, Lengths(objects), NEW sum, IsSum(sum, objects)
  PROVE  \A t \in SUBSET DOMAIN objects :
             /\ sum[t] \in Nat
             /\ \A x \in t : sum[t] = objects[x].len + sum[t \ {x}]
<1> DEFINE S == DOMAIN objects
           Good(t) == sum[t] \in Nat /\ \A x \in t : sum[t] = objects[x].len + sum[t \ {x}]
           T == {n \in Nat : \E t \in SUBSET S : Size(t) = n /\ ~Good(t)}
<1>1. S \in SUBSET Handle /\ \A h \in S : objects[h].len \in Nat
  BY DEF Lengths
<1>2. T = {}
  <2> SUFFICES ASSUME T # {} PROVE FALSE
    OBVIOUS
  <2>1. PICK n \in T : \A m \in T : n <= m
    BY LeastNatural, Zenon, ZenonT(120)
  <2>2. PICK t \in SUBSET S : Size(t) = n /\ ~Good(t)
    BY <2>1
  <2>3. ASSUME NEW x \in t PROVE Good(t \ {x})
    <3>1. /\ t \ {x} \in SUBSET S /\ Size(t \ {x}) \in Nat
          /\ Size(t \ {x}) = n - 1 /\ n \in Nat
      BY <1>1, <2>1, <2>2, Smaller, Zenon, ZenonT(120)
    <3>2. Size(t \ {x}) \notin T
      <4> HIDE DEF T
      <4> QED
        BY <2>1, <3>1
    <3> QED
      BY <3>1, <3>2, Zenon, ZenonT(120)
  <2>4. CASE t = {}
    <3>1. sum[t] = 0
      BY <2>4, SumSteps, Zenon, ZenonT(120)
    <3>2. Good(t)
      BY <2>4, <3>1
    <3> QED
      BY <2>2, <3>2
  <2>5. CASE t # {}
    <3> DEFINE p == Picked(t)
    <3>1. p \in t /\ sum[t] = objects[p].len + sum[t \ {p}]
      BY <2>5, NextIn, SumSteps
    <3> HIDE DEF p
    <3>2. sum[t \ {p}] \in Nat /\ objects[p].len \in Nat
      BY <1>1, <2>3, <3>1
    <3>3. ASSUME NEW x \in t PROVE sum[t] = objects[x].len + sum[t \ {x}]
      <4>1. CASE x = p
        BY <3>1, <4>1
      <4>2. CASE x # p
        <5> DEFINE r == (t \ {p}) \ {x}
        <5>1. r = (t \ {x}) \ {p} /\ x \in t \ {p} /\ p \in t \ {x}
          BY <3>1, <4>2
        <5>2. sum[t \ {p}] = objects[x].len + sum[r]
          BY <2>3, <3>1, <5>1, Zenon, ZenonT(120)
        <5>3. sum[t \ {x}] = objects[p].len + sum[r]
          BY <2>3, <5>1
        <5>4. sum[r] \in Nat
          <6>1. /\ r \in SUBSET S /\ t \ {p} \in SUBSET S
                /\ Size(t \ {p}) = n - 1 /\ n \in Nat
            BY <1>1, <2>1, <2>2, <3>1, Smaller, Zenon, ZenonT(120)
          <6>2. /\ Size(r) \in Nat
                /\ Size(r) = Size(t \ {p}) - 1
            <7> DEFINE q == t \ {p}
            <7>1. q \in SUBSET S /\ x \in q /\ r = q \ {x}
              BY <5>1, <6>1
            <7> HIDE DEF q, r, S
            <7>2. Size(q \ {x}) \in Nat /\ Size(q \ {x}) = Size(q) - 1
              BY <1>1, <7>1, Smaller, Zenon, ZenonT(120)
            <7> QED
              BY <7>1, <7>2 DEF q
          <6>3. Size(r) \notin T
            <7> HIDE DEF T, r
            <7> QED
              BY <2>1, <6>1, <6>2
          <6> QED
            BY <6>1, <6>2, <6>3, Zenon, ZenonT(120)
        <5> HIDE DEF r
        <5>5. objects[x].len \in Nat /\ objects[p].len \in Nat
          BY <1>1, <3>1
        <5> QED
          BY <3>1, <5>2, <5>3, <5>4, <5>5
      <4> QED
        BY <4>1, <4>2
    <3> QED
      BY <2>2, <3>1, <3>2, <3>3
  <2> QED
    BY <2>4, <2>5
<1>3. ASSUME NEW t \in SUBSET S PROVE Good(t)
  <2>1. Size(t) \in Nat
    BY <1>1, SizeIs
  <2> QED
    BY <1>2, <2>1, Zenon, ZenonT(120)
<1> QED
  BY <1>3

\* The sum over a set depends on the objects of the set only.
LEMMA SumsAgree ==
  ASSUME NEW objects, Lengths(objects), NEW sum, IsSum(sum, objects),
         NEW others, Lengths(others), NEW total, IsSum(total, others),
         NEW u \in SUBSET (DOMAIN objects \cap DOMAIN others),
         \A h \in u : others[h].len = objects[h].len
  PROVE  total[u] = sum[u]
<1>1. /\ \A t \in SUBSET DOMAIN objects :
             t # {} => sum[t] = objects[Picked(t)].len + sum[t \ {Picked(t)}]
      /\ \A t \in SUBSET DOMAIN others :
             t # {} => total[t] = others[Picked(t)].len + total[t \ {Picked(t)}]
  BY Zenon, ZenonT(120) DEF IsSum
<1> DEFINE T == {n \in Nat : \E t \in SUBSET u : Size(t) = n /\ total[t] # sum[t]}
<1>2. u \in SUBSET Handle /\ Size(u) \in Nat
  BY SizeIs DEF Lengths
<1> SUFFICES ASSUME T # {} PROVE FALSE
  BY <1>2
<1>3. PICK n \in T : \A m \in T : n <= m
  BY LeastNatural, Zenon, ZenonT(120)
<1>4. PICK t \in SUBSET u : Size(t) = n /\ total[t] # sum[t]
  BY <1>3
<1>5. t \in SUBSET DOMAIN objects /\ t \in SUBSET DOMAIN others
  BY <1>4
<1>6. CASE t = {}
  <2>1. sum[t] = 0
    BY <1>5, <1>6, SumSteps, Zenon, ZenonT(120)
  <2>2. total[t] = 0
    BY <1>5, <1>6, SumSteps, Zenon, ZenonT(120)
  <2> QED
    BY <1>4, <2>1, <2>2
<1>7. CASE t # {}
  <2> DEFINE p == Picked(t)
  <2>1. p \in t
    BY <1>5, <1>7, NextIn, Zenon, ZenonT(120)
  <2>2. /\ sum[t] = objects[p].len + sum[t \ {p}]
        /\ total[t] = others[p].len + total[t \ {p}]
    BY <1>1, <1>5, <1>7, Zenon, ZenonT(120)
  <2> HIDE DEF p
  <2>3. /\ t \ {p} \in SUBSET u /\ Size(t \ {p}) \in Nat
        /\ Size(t \ {p}) = n - 1 /\ n \in Nat
    BY <1>2, <1>3, <1>4, <2>1, Smaller, Zenon, ZenonT(120)
  <2>4. Size(t \ {p}) \notin T
    BY <1>3, <2>3
  <2>5. total[t \ {p}] = sum[t \ {p}]
    BY <2>3, <2>4, Zenon, ZenonT(120)
  <2>6. objects[p].len = others[p].len
    BY <1>4, <2>1
  <2> QED
    BY <1>4, <2>2, <2>5, <2>6
<1> QED
  BY <1>6, <1>7

\* The lengths of the objects of a state can be added up.
LEMMA StateLengths ==
    ASSUME NEW s \in State
    PROVE  DOMAIN s.objects = Live(s) /\ Lengths(s.objects)
<1>1. Live(s) \in SUBSET Handle
  BY StateParts
<1>2. \A h \in Live(s) : s.objects[h].len \in Nat
  BY StateParts, ConfigAssumption DEF Object
<1> QED
  BY <1>1, <1>2 DEF Live, Lengths

\* The bytes used are such a sum.
LEMMA UsedSum ==
    ASSUME NEW s \in State
    PROVE  \E sum : IsSum(sum, s.objects) /\ used_bytes(s) = sum[Live(s)]
<1>1. \E sum : IsSum(sum, s.objects)
  BY StateLengths, SumExists
<1> QED
  BY <1>1, UsedIs, Zenon, ZenonT(120)

\* The bytes an object holds; none if it is not live.
BytesOf(s, h) == IF h \in Live(s) THEN s.objects[h].len ELSE 0

\* The bytes used are those of one object and those of the others.
LEMMA UsedSplit ==
    ASSUME NEW s \in State, NEW sum, IsSum(sum, s.objects), NEW h
    PROVE  /\ sum[Live(s)] = BytesOf(s, h) + sum[Live(s) \ {h}]
           /\ sum[Live(s) \ {h}] \in Nat /\ BytesOf(s, h) \in Nat
<1>1. /\ DOMAIN s.objects = Live(s) /\ Lengths(s.objects)
      /\ Live(s) \ {h} \in SUBSET Live(s)
  BY StateLengths
<1>2. \A t \in SUBSET Live(s) :
          sum[t] \in Nat /\ \A x \in t : sum[t] = s.objects[x].len + sum[t \ {x}]
  BY <1>1, SumRemoves
<1>3. BytesOf(s, h) \in Nat
  BY <1>1 DEF BytesOf, Lengths
<1>4. CASE h \in Live(s)
  BY <1>1, <1>2, <1>3, <1>4 DEF BytesOf
<1>5. CASE h \notin Live(s)
  <2>1. Live(s) \ {h} = Live(s) /\ BytesOf(s, h) = 0 /\ sum[Live(s)] \in Nat
    BY <1>2, <1>5 DEF BytesOf
  <2> QED
    BY <2>1
<1> QED
  BY <1>4, <1>5

\* A change of one object changes the bytes used by as much.
LEMMA UsedChanges ==
    ASSUME NEW s \in State, NEW t \in State, NEW h,
           Live(t) \ {h} = Live(s) \ {h},
           \A k \in Live(s) \ {h} : t.objects[k].len = s.objects[k].len
    PROVE  /\ used_bytes(s) \in Nat /\ BytesOf(s, h) \in Nat /\ BytesOf(t, h) \in Nat
           /\ used_bytes(t) = used_bytes(s) - BytesOf(s, h) + BytesOf(t, h)
<1>1. PICK sum : IsSum(sum, s.objects) /\ used_bytes(s) = sum[Live(s)]
  BY UsedSum
<1>2. PICK total : IsSum(total, t.objects) /\ used_bytes(t) = total[Live(t)]
  BY UsedSum
<1> DEFINE u == Live(s) \ {h}
<1>3. /\ sum[Live(s)] = BytesOf(s, h) + sum[u] /\ sum[u] \in Nat /\ BytesOf(s, h) \in Nat
  BY <1>1, UsedSplit
<1>4. /\ total[Live(t)] = BytesOf(t, h) + total[u] /\ BytesOf(t, h) \in Nat
  <2>1. /\ total[Live(t)] = BytesOf(t, h) + total[Live(t) \ {h}]
        /\ BytesOf(t, h) \in Nat
    BY <1>2, UsedSplit, Zenon, ZenonT(120)
  <2> QED
    BY <2>1, Zenon, ZenonT(120)
<1>5. total[u] = sum[u]
  <2>1. /\ DOMAIN s.objects = Live(s) /\ Lengths(s.objects)
        /\ DOMAIN t.objects = Live(t) /\ Lengths(t.objects)
        /\ u \in SUBSET (Live(s) \cap Live(t))
        /\ \A k \in u : t.objects[k].len = s.objects[k].len
    BY StateLengths
  <2> HIDE DEF u
  <2> QED
    BY <1>1, <1>2, <2>1, SumsAgree
<1> HIDE DEF u
<1> QED
  BY <1>1, <1>2, <1>3, <1>4, <1>5

-----------------------------------------------------------------------------
(* What the operations keep.                                               *)

\* What every state a store keeps satisfies: no handle yet to be issued is
\* live, every name resolves, nothing lies beyond an object's length, and the
\* recovery reserve is free.
Sound(s) == HandlesIssued(s) /\ NamesResolve(s) /\ ZeroTail(s) /\ ReserveKept(s)

\* t may come after s: handles are issued upwards and never again.
Extends(s, t) == s.next_object <= t.next_object /\ StaysGone(s, t)

\* The state of a new store is sound.
LEMMA EmptySound == Sound(Empty)
<1>1. Live(Empty) = {} /\ DOMAIN Empty.namespaces = {}
  BY DEF Empty, Live
<1>2. HandlesIssued(Empty) /\ NamesResolve(Empty) /\ ZeroTail(Empty)
  BY <1>1 DEF HandlesIssued, NamesResolve, ZeroTail
<1>3. used_bytes(Empty) = 0
  <2>1. PICK sum : IsSum(sum, Empty.objects) /\ used_bytes(Empty) = sum[Live(Empty)]
    BY EmptyType, UsedSum
  <2>2. {} \in SUBSET DOMAIN Empty.objects
    OBVIOUS
  <2>3. sum[{}] = 0
    BY <2>1, <2>2, SumSteps, Zenon, ZenonT(120)
  <2> QED
    BY <1>1, <2>1, <2>3
<1>4. ReserveKept(Empty)
  BY <1>3, ConfigAssumption DEF ReserveKept
<1> QED
  BY <1>2, <1>4 DEF Sound

\* What comes after what comes after comes after.
LEMMA ExtendsTransitive ==
    ASSUME NEW r \in State, NEW s \in State, NEW t \in State, Extends(r, s), Extends(s, t)
    PROVE  Extends(r, t)
BY StateParts DEF Extends, StaysGone

\* A state comes after itself.
LEMMA ExtendsReflexive ==
    ASSUME NEW s \in State
    PROVE  Extends(s, s)
BY StateParts DEF Extends, StaysGone

\* A request that issues no handle and revives none is followed.
LEMMA FewerLive ==
    ASSUME NEW s \in State, NEW t, t.next_object = s.next_object, Live(t) \subseteq Live(s)
    PROVE  Extends(s, t)
BY StateParts DEF Extends, StaysGone

\* Replacing an object by one with a zero tail keeps a state sound.
LEMMA WithObjectSound ==
    ASSUME NEW s \in State, NEW h \in Live(s), NEW object \in Object, Sound(s),
           \A i \in 1..MaxObjectBytes : i > object.len => object.data[i] = 0,
           ensure_quota(s, h, object.len)
    PROVE  Sound(WithObject(s, h, object))
<1> DEFINE t == WithObject(s, h, object)
<1>1. /\ t.objects = [s.objects EXCEPT ![h] = object]
      /\ t.namespaces = s.namespaces /\ t.next_object = s.next_object
  BY DEF WithObject, State
<1>2. Live(t) = Live(s)
  BY <1>1, StateParts DEF Live
<1>3. \A k \in Live(s) : t.objects[k] = IF k = h THEN object ELSE s.objects[k]
  BY <1>1, StateParts
<1> HIDE DEF t
<1>4. HandlesIssued(t) /\ NamesResolve(t)
  BY <1>1, <1>2 DEF Sound, HandlesIssued, NamesResolve
<1>5. ZeroTail(t)
  BY <1>2, <1>3 DEF Sound, ZeroTail
<1>6. ReserveKept(t)
  <2>1. t \in State
    BY WithObjectType DEF t
  <2>2. /\ used_bytes(s) \in Nat
        /\ used_bytes(t) = used_bytes(s) - BytesOf(s, h) + BytesOf(t, h)
    BY <1>2, <1>3, <2>1, UsedChanges
  <2>3. BytesOf(s, h) = s.objects[h].len /\ BytesOf(t, h) = object.len
    BY <1>2, <1>3 DEF BytesOf
  <2> QED
    BY <2>2, <2>3 DEF ReserveKept, ensure_quota
<1> QED
  BY <1>4, <1>5, <1>6 DEF t, Sound

\* Replacing an object issues no handle.
LEMMA WithObjectExtends ==
    ASSUME NEW s \in State, NEW h \in Live(s), NEW object
    PROVE  Extends(s, WithObject(s, h, object))
<1>1. /\ WithObject(s, h, object).objects = [s.objects EXCEPT ![h] = object]
      /\ WithObject(s, h, object).next_object = s.next_object
  BY DEF WithObject, State
<1>2. Live(WithObject(s, h, object)) = Live(s)
  BY <1>1, StateParts DEF Live
<1> QED
  BY <1>1, <1>2, FewerLive

\* create keeps a state well typed and sound, at its generation, and revives no
\* handle.
LEMMA CreateKeeps ==
    ASSUME NEW s \in State, NEW h \in Handle, CanCreate(s, h)
    PROVE  /\ Create(s, h) \in State
           /\ Create(s, h).generation = s.generation
           /\ Sound(s) => Sound(Create(s, h))
           /\ Extends(s, Create(s, h))
<1> DEFINE new == [len |-> 0, data |-> [i \in 1..MaxObjectBytes |-> 0]]
           objects == [k \in Live(s) \cup {h} |-> IF k = h THEN new ELSE s.objects[k]]
           t == Create(s, h)
<1>1. t = [[s EXCEPT !.next_object = h + 1] EXCEPT !.objects = objects]
  BY Zenon, ZenonT(120) DEF Create
<1>2. new \in Object
  BY ConfigAssumption DEF Object
<1>3. objects \in [Live(s) \cup {h} -> Object]
  BY <1>2, StateParts
<1>4. h + 1 \in Nat /\ Live(s) \cup {h} \in SUBSET Handle
  BY StateParts DEF Handle
<1>5. /\ \A k \in Live(s) : objects[k] = IF k = h THEN new ELSE s.objects[k]
      /\ objects[h] = new /\ DOMAIN objects = Live(s) \cup {h}
      /\ \A i \in 1..MaxObjectBytes : new.data[i] = 0
  OBVIOUS
<1> HIDE DEF new, objects
<1>6. t = [generation |-> s.generation, next_object |-> h + 1,
           objects |-> objects, namespaces |-> s.namespaces]
  BY <1>1, Zenon, ZenonT(120) DEF State
<1>7. [generation |-> s.generation, next_object |-> h + 1,
       objects |-> objects, namespaces |-> s.namespaces] \in State
  BY <1>3, <1>4, StateParts, StateMade, Zenon, ZenonT(120)
<1>8. ASSUME Sound(s) PROVE Sound(t)
  <2>1. /\ Live(t) = Live(s) \cup {h} /\ t.next_object = h + 1
        /\ t.objects = objects /\ t.namespaces = s.namespaces
    BY <1>5, <1>6 DEF Live
  <2> HIDE DEF t
  <2>2. HandlesIssued(t)
    BY <1>8, <2>1, StateParts DEF Sound, HandlesIssued, CanCreate, Handle
  <2>3. NamesResolve(t)
    BY <1>8, <2>1 DEF Sound, NamesResolve
  <2>4. ZeroTail(t)
    BY <1>5, <1>8, <2>1 DEF Sound, ZeroTail
  <2>5. ReserveKept(t)
    <3>1. h \notin Live(s)
      BY <1>8 DEF Sound, HandlesIssued, CanCreate, Handle
    <3>2. /\ used_bytes(s) \in Nat
          /\ used_bytes(t) = used_bytes(s) - BytesOf(s, h) + BytesOf(t, h)
      BY <1>5, <1>6, <1>7, <2>1, <3>1, UsedChanges
    <3>3. BytesOf(s, h) = 0 /\ BytesOf(t, h) = 0
      BY <1>5, <2>1, <3>1 DEF BytesOf, new
    <3> QED
      BY <1>8, <3>2, <3>3 DEF Sound, ReserveKept
  <2> QED
    BY <2>2, <2>3, <2>4, <2>5 DEF Sound
<1>9. Extends(s, t)
  <2>1. Live(t) = Live(s) \cup {h} /\ t.next_object = h + 1 /\ h = s.next_object
    BY <1>5, <1>6 DEF Live, CanCreate
  <2> HIDE DEF t
  <2> QED
    BY <2>1 DEF Extends, StaysGone, Handle
<1> QED
  BY <1>6, <1>7, <1>8, <1>9

\* write keeps a state well typed and sound, at its generation, and revives no
\* handle.
LEMMA WriteKeeps ==
    ASSUME NEW s \in State, NEW h \in Handle, NEW offset \in Nat,
           NEW n \in Nat, NEW input \in [1..n -> Bytes],
           CanWrite(s, h, offset, input)
    PROVE  /\ Write(s, h, offset, input) \in State
           /\ Write(s, h, offset, input).generation = s.generation
           /\ Sound(s) => Sound(Write(s, h, offset, input))
           /\ Extends(s, Write(s, h, offset, input))
<1> DEFINE old == s.objects[h]
           end == offset + Len(input)
           object == [len  |-> MaxOf(old.len, end),
                      data |-> [i \in 1..MaxObjectBytes |->
                                  IF i > offset /\ i <= end THEN input[i - offset]
                                                            ELSE old.data[i]]]
<1>1. h \in Live(s) /\ end <= MaxObjectBytes
  BY DEF CanWrite
<1>2. old \in Object
  BY <1>1, StateParts
<1>3. Len(input) = n
  OBVIOUS
<1>4. MaxOf(old.len, end) \in 0..MaxObjectBytes
  BY <1>1, <1>2, <1>3, ConfigAssumption DEF MaxOf, Object
<1>5. \A i \in 1..MaxObjectBytes :
        (IF i > offset /\ i <= end THEN input[i - offset] ELSE old.data[i]) \in Bytes
  <2> TAKE i \in 1..MaxObjectBytes
  <2>1. i \in Int
    OBVIOUS
  <2>2. ASSUME i > offset, i <= end PROVE i - offset \in 1..n
    BY <1>3, <2>1, <2>2
  <2> HIDE DEF old, end
  <2>3. old.data[i] \in Bytes
    BY <1>2, Zenon, ZenonT(120) DEF Object
  <2> QED
    BY <2>2, <2>3
<1>6. object \in Object
  BY <1>4, <1>5 DEF Object
<1>7. Write(s, h, offset, input) = WithObject(s, h, object)
  BY DEF Write
<1>8. ASSUME Sound(s)
      PROVE  \A i \in 1..MaxObjectBytes : i > object.len => object.data[i] = 0
  <2> TAKE i \in 1..MaxObjectBytes
  <2> HAVE i > object.len
  <2>1. i \in Int /\ old.len \in Int /\ end \in Int
    BY <1>2, <1>3, ConfigAssumption DEF Object
  <2>2. object.len = MaxOf(old.len, end)
    BY Zenon, ZenonT(120)
  <2> HIDE DEF end
  <2>3. i > old.len /\ ~(i <= end)
    BY <2>1, <2>2 DEF MaxOf
  <2>4. old.data[i] = 0
    BY <1>1, <1>8, <2>3 DEF Sound, ZeroTail
  <2> QED
    BY <2>3, <2>4
<1>9. ensure_quota(s, h, object.len)
  BY Zenon, ZenonT(120) DEF CanWrite
<1> HIDE DEF object
<1> QED
  BY <1>1, <1>6, <1>7, <1>8, <1>9, WithObjectType, WithObjectSound, WithObjectExtends

\* truncate keeps a state well typed and sound, at its generation, and revives no
\* handle.
LEMMA TruncateKeeps ==
    ASSUME NEW s \in State, NEW h \in Handle, NEW len \in 0..MaxObjectBytes,
           CanTruncate(s, h, len)
    PROVE  /\ Truncate(s, h, len) \in State
           /\ Truncate(s, h, len).generation = s.generation
           /\ Sound(s) => Sound(Truncate(s, h, len))
           /\ Extends(s, Truncate(s, h, len))
<1> DEFINE old == s.objects[h]
           object == [len  |-> len,
                      data |-> [i \in 1..MaxObjectBytes |->
                                  IF (i > len /\ i <= old.len) \/ (i > old.len /\ i <= len)
                                  THEN 0 ELSE old.data[i]]]
<1>1. h \in Live(s)
  BY DEF CanTruncate
<1>2. old \in Object
  BY <1>1, StateParts
<1>3. object \in Object
  BY <1>2, ConfigAssumption DEF Object
<1>4. Truncate(s, h, len) = WithObject(s, h, object)
  BY DEF Truncate
<1>5. ASSUME Sound(s)
      PROVE  \A i \in 1..MaxObjectBytes : i > object.len => object.data[i] = 0
  BY <1>1, <1>2, <1>5, ConfigAssumption DEF Sound, ZeroTail, Object
<1>6. ensure_quota(s, h, object.len)
  BY Zenon, ZenonT(120) DEF CanTruncate
<1> HIDE DEF object
<1> QED
  BY <1>1, <1>3, <1>4, <1>5, <1>6, WithObjectType, WithObjectSound, WithObjectExtends

\* delete keeps a state well typed and sound, at its generation, and revives no
\* handle.
LEMMA DeleteKeeps ==
    ASSUME NEW s \in State, NEW h \in Live(s)
    PROVE  /\ Delete(s, h) \in State
           /\ Delete(s, h).generation = s.generation
           /\ Sound(s) => Sound(Delete(s, h))
           /\ Extends(s, Delete(s, h))
<1> DEFINE kept == {m \in DOMAIN s.namespaces : s.namespaces[m] # h}
           objects == [k \in Live(s) \ {h} |-> s.objects[k]]
           names == [n \in kept |-> s.namespaces[n]]
           t == Delete(s, h)
<1>1. t = [[s EXCEPT !.objects = objects] EXCEPT !.namespaces = names]
  BY Zenon, ZenonT(120) DEF Delete
<1>2. /\ objects \in [Live(s) \ {h} -> Object] /\ Live(s) \ {h} \in SUBSET Handle
      /\ names \in [kept -> Handle] /\ kept \in SUBSET Names
  BY StateParts
<1>3. /\ \A k \in Live(s) \ {h} : objects[k] = s.objects[k]
      /\ \A n \in kept : names[n] = s.namespaces[n] /\ names[n] # h
      /\ DOMAIN objects = Live(s) \ {h}
      /\ DOMAIN names = kept /\ kept \subseteq DOMAIN s.namespaces
  OBVIOUS
<1> HIDE DEF kept, objects, names
<1>4. t = [generation |-> s.generation, next_object |-> s.next_object,
           objects |-> objects, namespaces |-> names]
  BY <1>1, Zenon, ZenonT(120) DEF State
<1>5. [generation |-> s.generation, next_object |-> s.next_object,
       objects |-> objects, namespaces |-> names] \in State
  BY <1>2, StateParts, StateMade, Zenon, ZenonT(120)
<1>6. /\ Live(t) = Live(s) \ {h} /\ t.next_object = s.next_object
      /\ t.objects = objects /\ t.namespaces = names /\ t \in State
  BY <1>3, <1>4, <1>5 DEF Live
<1>7. ASSUME Sound(s) PROVE Sound(t)
  <2> HIDE DEF t
  <2>1. HandlesIssued(t) /\ NamesResolve(t) /\ ZeroTail(t)
    BY <1>3, <1>6, <1>7 DEF Sound, HandlesIssued, NamesResolve, ZeroTail
  <2>2. /\ used_bytes(s) \in Nat /\ BytesOf(s, h) \in Nat
        /\ used_bytes(t) = used_bytes(s) - BytesOf(s, h) + BytesOf(t, h)
    BY <1>3, <1>6, UsedChanges
  <2>3. BytesOf(t, h) = 0
    BY <1>6 DEF BytesOf
  <2>4. ReserveKept(t)
    BY <1>7, <2>2, <2>3, ConfigAssumption DEF Sound, ReserveKept
  <2> QED
    BY <2>1, <2>4 DEF Sound
<1>8. Extends(s, t)
  BY <1>6, FewerLive
<1> QED
  BY <1>4, <1>6, <1>7, <1>8

\* bind keeps a state well typed and sound, at its generation, and revives no
\* handle.
LEMMA BindKeeps ==
    ASSUME NEW s \in State, NEW n \in Names, NEW h \in Handle, CanBind(s, n, h)
    PROVE  /\ Bind(s, n, h) \in State
           /\ Bind(s, n, h).generation = s.generation
           /\ Sound(s) => Sound(Bind(s, n, h))
           /\ Extends(s, Bind(s, n, h))
<1> DEFINE bound == DOMAIN s.namespaces \cup {n}
           names == [m \in bound |-> IF m = n THEN h ELSE s.namespaces[m]]
           t == Bind(s, n, h)
<1>1. t = [s EXCEPT !.namespaces = names]
  BY Zenon, ZenonT(120) DEF Bind
<1>2. names \in [bound -> Handle] /\ bound \in SUBSET Names
  BY StateParts
<1>3. /\ DOMAIN names = bound /\ h \in Live(s)
      /\ \A m \in bound : names[m] = h \/ (m \in DOMAIN s.namespaces /\ names[m] = s.namespaces[m])
  BY DEF CanBind
<1> HIDE DEF bound, names
<1>4. t = [generation |-> s.generation, next_object |-> s.next_object,
           objects |-> s.objects, namespaces |-> names]
  BY <1>1 DEF State
<1>5. [generation |-> s.generation, next_object |-> s.next_object,
       objects |-> s.objects, namespaces |-> names] \in State
  BY <1>2, StateParts, StateMade, Zenon, ZenonT(120)
<1>6. /\ Live(t) = Live(s) /\ t.next_object = s.next_object
      /\ t.objects = s.objects /\ t.namespaces = names
  BY <1>4 DEF Live
<1>7. ASSUME Sound(s) PROVE Sound(t)
  <2> HIDE DEF t
  <2>1. HandlesIssued(t) /\ NamesResolve(t) /\ ZeroTail(t)
    BY <1>3, <1>6, <1>7 DEF Sound, HandlesIssued, NamesResolve, ZeroTail
  <2>2. ReserveKept(t)
    BY <1>6, <1>7 DEF Sound, ReserveKept, used_bytes
  <2> QED
    BY <2>1, <2>2 DEF Sound
<1>8. Extends(s, t)
  BY <1>6, FewerLive
<1> QED
  BY <1>4, <1>5, <1>7, <1>8

\* Whatever a request does, it keeps a state well typed and sound, leaves the
\* generation to the commit and revives no handle.
LEMMA ApplyKeeps ==
    ASSUME NEW s \in State, NEW o \in Requests, CanApply(s, o)
    PROVE  /\ Apply(s, o) \in State
           /\ Apply(s, o).generation = s.generation
           /\ Sound(s) => Sound(Apply(s, o))
           /\ Extends(s, Apply(s, o))
<1>1. o \in Operation
  BY RequestsAssumption
<1>2. CASE o.op = "create"
  <2>1. o.handle \in Handle
    BY <1>1 DEF Operation
  <2> QED
    BY <1>2, <2>1, CreateKeeps DEF CanApply, Apply
<1>3. CASE o.op = "write"
  <2>1. /\ o.handle \in Handle /\ o.offset \in 0..MaxObjectBytes
        /\ \E n \in 0..MaxIoBytes : o.input \in [1..n -> Bytes]
    BY <1>1, <1>3 DEF Operation
  <2>2. o.offset \in Nat /\ \E n \in Nat : o.input \in [1..n -> Bytes]
    BY <2>1, ConfigAssumption
  <2> QED
    BY <1>3, <2>1, <2>2, WriteKeeps DEF CanApply, Apply
<1>4. CASE o.op = "truncate"
  <2>1. o.handle \in Handle /\ o.len \in 0..MaxObjectBytes
    BY <1>1, <1>4 DEF Operation
  <2> QED
    BY <1>4, <2>1, TruncateKeeps DEF CanApply, Apply
<1>5. CASE o.op = "delete"
  BY <1>5, DeleteKeeps DEF CanApply, Apply
<1>6. CASE o.op = "bind"
  <2>1. o.handle \in Handle /\ o.name \in Names
    BY <1>1, <1>6 DEF Operation
  <2> QED
    BY <1>6, <2>1, BindKeeps DEF CanApply, Apply
<1> QED
  BY <1>1, <1>2, <1>3, <1>4, <1>5, <1>6 DEF Operation

-----------------------------------------------------------------------------
(* Snapshots.                                                              *)

SnapshotType == [nonce: Nat, state: State]

SnapshotSet ==
    [slots: [1..MaxSnapshots -> SnapshotType \cup {None}], next_nonce: Nat \ {0}]

\* The counter is ahead of every nonce given out.
Numbered(set) ==
    \A i \in 1..MaxSnapshots :
        set.slots[i] # None => set.slots[i].nonce < set.next_nonce

\* A new store has no snapshot.
LEMMA NoneCaptured ==
    /\ NoSnapshots \in SnapshotSet /\ Numbered(NoSnapshots)
    /\ Captured(NoSnapshots) = {}
BY DEF NoSnapshots, SnapshotSet, Numbered, Captured

\* What a set of snapshots holds.
LEMMA CapturedAre ==
    ASSUME NEW set \in SnapshotSet
    PROVE  \A c \in Captured(set) : c \in SnapshotType /\ c.state \in State
BY Zenon, ZenonT(120) DEF Captured, SnapshotSet, SnapshotType

\* capture adds a snapshot under a nonce of its own and leaves the others alone.
LEMMA CaptureAdds ==
    ASSUME NEW set \in SnapshotSet, Numbered(set), NEW s \in State, CanCapture(set)
    PROVE  /\ Capture(set, s) \in SnapshotSet /\ Numbered(Capture(set, s))
           /\ Captured(Capture(set, s)) = Captured(set) \cup {[nonce |-> set.next_nonce, state |-> s]}
           /\ set.next_nonce \in 1..MaxNonce
           /\ \A c \in Captured(set) : c.nonce < set.next_nonce
<1> DEFINE free == FreeSlots(set)
           first == CHOOSE i \in free : \A j \in free : i <= j
           new == [nonce |-> set.next_nonce, state |-> s]
           t == Capture(set, s)
<1>1. free \subseteq Nat /\ free # {} /\ free \subseteq 1..MaxSnapshots
  BY ConfigAssumption DEF FreeSlots, CanCapture
<1>2. first \in free
  <2> HIDE DEF free
  <2> QED
    BY <1>1, LeastNatural, Zenon, ZenonT(120)
<1>3. first \in 1..MaxSnapshots /\ set.slots[first] = None
  BY <1>2 DEF FreeSlots
<1>4. /\ set.slots \in [1..MaxSnapshots -> SnapshotType \cup {None}]
      /\ set.next_nonce \in Nat \ {0} /\ set.next_nonce < MaxNonce
  BY DEF SnapshotSet, CanCapture
<1>5. new \in SnapshotType /\ new # None /\ new.nonce = set.next_nonce
  BY <1>4, NoneAssumption DEF SnapshotType
<1>6. t = [slots |-> [set.slots EXCEPT ![first] = new], next_nonce |-> set.next_nonce + 1]
  BY DEF Capture
<1> HIDE DEF first, new, t
<1>7. /\ \A i \in 1..MaxSnapshots : t.slots[i] = IF i = first THEN new ELSE set.slots[i]
      /\ t.slots \in [1..MaxSnapshots -> SnapshotType \cup {None}]
      /\ t.next_nonce = set.next_nonce + 1
  BY <1>3, <1>4, <1>5, <1>6, Zenon, ZenonT(120)
<1>8. t \in SnapshotSet
  BY <1>4, <1>6, <1>7 DEF SnapshotSet
<1>9. \A i \in 1..MaxSnapshots : set.slots[i] # None =>
          set.slots[i].nonce \in Nat /\ set.slots[i].nonce < set.next_nonce
  BY <1>4, Zenon, ZenonT(120) DEF Numbered, SnapshotType
<1>10. Numbered(t)
  BY <1>4, <1>5, <1>7, <1>9 DEF Numbered
<1>11. Captured(t) = Captured(set) \cup {new}
  BY <1>3, <1>5, <1>7 DEF Captured
<1>12. set.next_nonce \in 1..MaxNonce
  BY <1>4, ConfigAssumption
<1>13. \A c \in Captured(set) : c.nonce < set.next_nonce
  BY <1>9 DEF Captured
<1> QED
  BY <1>8, <1>10, <1>11, <1>12, <1>13 DEF new, t

\* gc drops the snapshots of older generations and leaves the others alone.
LEMMA ReclaimDrops ==
    ASSUME NEW set \in SnapshotSet, Numbered(set), NEW retain_from \in 0..MaxGeneration
    PROVE  /\ Reclaim(set, retain_from) \in SnapshotSet
           /\ Numbered(Reclaim(set, retain_from))
           /\ Captured(Reclaim(set, retain_from))
                  = {c \in Captured(set) : c.state.generation >= retain_from}
<1> DEFINE slots == [i \in 1..MaxSnapshots |->
               IF set.slots[i] # None /\ set.slots[i].state.generation < retain_from
               THEN None ELSE set.slots[i]]
           t == Reclaim(set, retain_from)
<1>1. /\ set.slots \in [1..MaxSnapshots -> SnapshotType \cup {None}]
      /\ set.next_nonce \in Nat \ {0}
  BY DEF SnapshotSet
<1>2. slots \in [1..MaxSnapshots -> SnapshotType \cup {None}]
  BY <1>1, Zenon, ZenonT(120)
<1>3. t = [set EXCEPT !.slots = slots]
  BY Zenon, ZenonT(120) DEF Reclaim
<1>4. \A i \in 1..MaxSnapshots : slots[i] =
          IF set.slots[i] # None /\ set.slots[i].state.generation < retain_from
          THEN None ELSE set.slots[i]
  OBVIOUS
<1> HIDE DEF slots, t
<1>5. t.slots = slots /\ t.next_nonce = set.next_nonce /\ t \in SnapshotSet
  BY <1>1, <1>2, <1>3 DEF SnapshotSet
<1>6. Numbered(t)
  BY <1>4, <1>5 DEF Numbered
<1>7. \A i \in 1..MaxSnapshots : set.slots[i] # None => set.slots[i].state.generation \in Nat
  BY <1>1, StateParts, Zenon, ZenonT(120) DEF SnapshotType
<1>8. retain_from \in Nat
  BY ConfigAssumption
<1>9. Captured(t) = {c \in Captured(set) : c.state.generation >= retain_from}
  BY <1>4, <1>5, <1>7, <1>8 DEF Captured
<1> QED
  BY <1>5, <1>6, <1>9 DEF t

\* A commit changes the generation and nothing else.
LEMMA CandidateKeeps ==
    ASSUME NEW s \in State
    PROVE  /\ Candidate(s) \in State /\ Candidate(s).generation = s.generation + 1
           /\ Sound(s) => Sound(Candidate(s))
           /\ Extends(s, Candidate(s))
<1> DEFINE t == Candidate(s)
<1>1. /\ t.objects = s.objects /\ t.namespaces = s.namespaces
      /\ t.next_object = s.next_object /\ t.generation = s.generation + 1
      /\ t = [generation |-> s.generation + 1, next_object |-> s.next_object,
              objects |-> s.objects, namespaces |-> s.namespaces]
  BY DEF Candidate, State
<1>2. t \in State
  <2>1. s.generation + 1 \in Nat
    BY StateParts
  <2> HIDE DEF t
  <2> QED
    BY <1>1, <2>1, StateParts, StateMade, Zenon, ZenonT(120)
<1> HIDE DEF t
<1>3. Live(t) = Live(s)
  BY <1>1 DEF Live
<1>4. Sound(s) => Sound(t)
  BY <1>1, <1>3 DEF Sound, HandlesIssued, NamesResolve, ZeroTail, ReserveKept, used_bytes
<1>5. Extends(s, t)
  BY <1>1, <1>3, FewerLive
<1> QED
  BY <1>1, <1>2, <1>4, <1>5 DEF t

-----------------------------------------------------------------------------
(* The two banks.                                                          *)

SuperblockType ==
    [generation: Nat, bank: {0, 1}, state_checksum: State, intact: BOOLEAN]

\* Every variable of the copy-on-write store has its type.
CowTypeOK ==
    /\ banks \in [Banks -> State]
    /\ superblocks \in [Banks -> SuperblockType \cup {None}]
    /\ active_bank \in Banks
    /\ cow_active \in [state: State, cancelled: BOOLEAN] \cup {None}
    /\ cow_snapshots \in SnapshotSet

\* A superblock, damaged or not, is that of its bank.
Describes(i) ==
    superblocks[i] # None =>
        /\ superblocks[i].bank = i
        /\ superblocks[i].generation = banks[i].generation
        /\ superblocks[i].state_checksum = banks[i]

\* The inductive invariant: the active bank verifies, the other one is of
\* another generation whenever it has a superblock, and a transaction is based
\* on what is committed.
CowInv ==
    /\ CowTypeOK
    /\ \A i \in Banks : Describes(i)
    /\ Verifies(active_bank)
    /\ superblocks[Inactive] # None =>
           superblocks[Inactive].generation # CowCommitted.generation
    /\ cow_active # None => cow_active.state.generation = CowCommitted.generation
    /\ Numbered(cow_snapshots)

\* The other bank is the other bank.
LEMMA InactiveIsOther ==
    ASSUME active_bank \in Banks
    PROVE  Inactive \in Banks /\ Inactive # active_bank /\ Banks = {active_bank, Inactive}
BY DEF Banks, Inactive

\* A new store satisfies the invariant.
LEMMA CowInitInv == CowInit => CowInv
<1> SUFFICES ASSUME CowInit PROVE CowInv
  OBVIOUS
<1>1. Empty \in State /\ Empty.generation = 0
  BY EmptyType DEF Empty
<1>2. /\ banks = [i \in Banks |-> Empty] /\ active_bank = 0 /\ cow_active = None
      /\ superblocks = [i \in Banks |-> IF i = 0 THEN Superblock(0, Empty) ELSE None]
      /\ cow_snapshots = NoSnapshots
  BY DEF CowInit
<1>3. Superblock(0, Empty) \in SuperblockType
  BY <1>1 DEF Superblock, SuperblockType
<1>4. NoSnapshots \in SnapshotSet /\ Numbered(NoSnapshots)
  BY NoneCaptured
<1>5. CowTypeOK
  BY <1>1, <1>2, <1>3, <1>4 DEF CowTypeOK, Banks
<1>6. superblocks[0] = Superblock(0, Empty) /\ superblocks[1] = None /\ banks[0] = Empty
  BY <1>2 DEF Banks
<1>7. superblocks[0] # None
  BY <1>3, <1>6, NoneAssumption DEF SuperblockType
<1>8. Verifies(0)
  BY <1>6, <1>7 DEF Verifies, Superblock
<1>9. \A i \in Banks : Describes(i)
  BY <1>6, <1>8 DEF Verifies, Describes, Banks
<1> QED
  BY <1>2, <1>4, <1>5, <1>6, <1>8, <1>9 DEF CowInv, Inactive

\* What commit leaves, depending on where it is interrupted.
LEMMA CommitEffect ==
    ASSUME CowInv, NEW fault \in Faults, CowCommit(fault)
    PROVE  LET candidate == Candidate(cow_active.state) IN
           /\ candidate \in State /\ cow_active \in [state: State, cancelled: BOOLEAN]
           /\ candidate.generation = CowCommitted.generation + 1
           /\ banks' \in [Banks -> State]
           /\ banks'[Inactive] = candidate /\ banks'[active_bank] = banks[active_bank]
           /\ superblocks' \in [Banks -> SuperblockType \cup {None}]
           /\ superblocks'[active_bank] = superblocks[active_bank]
           /\ fault = "before" => superblocks'[Inactive] = None
           /\ fault # "before" =>
                  /\ superblocks'[Inactive] # None
                  /\ superblocks'[Inactive].bank = Inactive
                  /\ superblocks'[Inactive].generation = candidate.generation
                  /\ superblocks'[Inactive].state_checksum = candidate
                  /\ superblocks'[Inactive].intact = (fault # "corrupt")
<1> DEFINE candidate == Candidate(cow_active.state)
           written == CASE fault = "before"  -> None
                        [] fault = "corrupt" -> [Superblock(Inactive, candidate) EXCEPT !.intact = FALSE]
                        [] OTHER             -> Superblock(Inactive, candidate)
<1>1. /\ banks' = [banks EXCEPT ![Inactive] = candidate]
      /\ superblocks' = [superblocks EXCEPT ![Inactive] = written]
      /\ cow_active # None
  BY DEF CowCommit, CowReady
<1>2. cow_active \in [state: State, cancelled: BOOLEAN]
  BY <1>1 DEF CowInv, CowTypeOK
<1>5. candidate \in State /\ candidate.generation = CowCommitted.generation + 1
  BY <1>1, <1>2, CandidateKeeps DEF CowInv
<1> HIDE DEF candidate
<1>6. Inactive \in {0, 1} /\ candidate.generation \in Nat
  BY <1>5, InactiveIsOther, StateParts DEF CowInv, CowTypeOK, Banks
<1>7. /\ fault = "before" => written = None
      /\ fault # "before" =>
             written = [generation |-> candidate.generation, bank |-> Inactive,
                        state_checksum |-> candidate, intact |-> (fault # "corrupt")]
  BY Zenon, ZenonT(120) DEF Superblock, Faults
<1> HIDE DEF written
<1>8. fault # "before" => written \in SuperblockType
  <2> DEFINE whole == (fault # "corrupt")
  <2>1. whole \in BOOLEAN
    OBVIOUS
  <2>2. fault # "before" =>
            written = [generation |-> candidate.generation, bank |-> Inactive,
                       state_checksum |-> candidate, intact |-> whole]
    BY <1>7, Zenon, ZenonT(120)
  <2> HIDE DEF whole
  <2> QED
    BY <1>5, <1>6, <2>1, <2>2 DEF SuperblockType
<1>9. fault # "before" => written # None
  BY <1>8, NoneAssumption DEF SuperblockType
<1>10. banks \in [Banks -> State] /\ superblocks \in [Banks -> SuperblockType \cup {None}]
       /\ active_bank \in Banks
  BY DEF CowInv, CowTypeOK
<1>11. /\ banks' \in [Banks -> State]
       /\ banks'[Inactive] = candidate /\ banks'[active_bank] = banks[active_bank]
  BY <1>1, <1>5, <1>10, InactiveIsOther
<1>12. /\ superblocks' \in [Banks -> SuperblockType \cup {None}]
       /\ superblocks'[active_bank] = superblocks[active_bank]
       /\ superblocks'[Inactive] = written
  BY <1>1, <1>7, <1>8, <1>10, InactiveIsOther
<1> QED
  BY <1>2, <1>5, <1>7, <1>9, <1>11, <1>12 DEF candidate

\* The bank that recover selects: the other one if it verifies and is newer.
NewerValid ==
    /\ Verifies(Inactive)
    /\ superblocks[Inactive].generation > CowCommitted.generation

\* Under the invariant recovery finds a bank and no conflict, and selects it.
LEMMA RecoverySelects ==
    ASSUME CowInv
    PROVE  /\ CowRecoverable
           /\ Selected = IF NewerValid THEN Inactive ELSE active_bank
<1>1. /\ active_bank \in Banks /\ Inactive \in Banks /\ Inactive # active_bank
      /\ Banks = {active_bank, Inactive}
  BY InactiveIsOther DEF CowInv, CowTypeOK
<1>2. Verifies(active_bank) /\ active_bank \in Valid
  BY <1>1 DEF CowInv, Valid
<1>3. superblocks[active_bank].generation = CowCommitted.generation
  BY <1>2 DEF Verifies, CowCommitted
<1>4. Inactive \in Valid => /\ superblocks[Inactive] # None
                            /\ superblocks[Inactive].generation # CowCommitted.generation
                            /\ superblocks[Inactive].generation = banks[Inactive].generation
  BY DEF Valid, Verifies, CowInv
<1>5. banks[Inactive].generation \in Nat /\ CowCommitted.generation \in Nat
  BY <1>1, StateParts DEF CowInv, CowTypeOK, CowCommitted
<1>6. ~Conflict
  <2> SUFFICES ASSUME Conflict PROVE FALSE
    OBVIOUS
  <2>1. Inactive \in Valid /\ superblocks[0].generation = superblocks[1].generation
    BY <1>1 DEF Conflict
  <2>2. superblocks[active_bank].generation = superblocks[Inactive].generation
    BY <1>1, <2>1 DEF Banks
  <2> QED
    BY <1>3, <1>4, <2>1, <2>2
<1> DEFINE best == IF NewerValid THEN Inactive ELSE active_bank
           Wins(i) == \A j \in Valid \ {i} :
               \/ superblocks[i].generation > superblocks[j].generation
               \/ superblocks[i].generation = superblocks[j].generation /\ i < j
<1>7. Valid \subseteq {active_bank, Inactive} /\ best \in Valid
  BY <1>1, <1>2 DEF Valid, NewerValid
<1>8. Wins(best) /\ \A i \in Valid : Wins(i) => i = best
  <2>1. CASE Inactive \notin Valid
    BY <1>1, <1>2, <1>7, <2>1 DEF NewerValid, Valid
  <2>2. CASE Inactive \in Valid
    BY <1>1, <1>2, <1>3, <1>4, <1>5, <1>7, <2>2 DEF NewerValid, Valid
  <2> QED
    BY <2>1, <2>2
<1>9. Selected = CHOOSE i \in Valid : Wins(i)
  BY DEF Selected
<1> HIDE DEF best, Wins
<1>10. Selected = best
  BY <1>7, <1>8, <1>9
<1> QED
  BY <1>2, <1>6, <1>10 DEF CowRecoverable, best

\* A commit, interrupted or not, keeps the invariant.
LEMMA CommitKeepsInv ==
    ASSUME CowInv, NEW fault \in Faults, CowCommit(fault)
    PROVE  CowInv'
<1> DEFINE candidate == Candidate(cow_active.state)
<1>1. /\ cow_active' = None /\ cow_snapshots' = cow_snapshots
      /\ active_bank' = IF fault = "none" THEN Inactive ELSE active_bank
  BY DEF CowCommit
<1>2. /\ active_bank \in Banks /\ Inactive \in Banks /\ Inactive # active_bank
      /\ Banks = {active_bank, Inactive}
  BY InactiveIsOther DEF CowInv, CowTypeOK
<1>3. Inactive' = IF fault = "none" THEN active_bank ELSE Inactive
  BY <1>1, <1>2 DEF Inactive, Banks
<1>4. /\ candidate.generation = CowCommitted.generation + 1
      /\ banks' \in [Banks -> State]
      /\ banks'[Inactive] = candidate /\ banks'[active_bank] = banks[active_bank]
      /\ superblocks' \in [Banks -> SuperblockType \cup {None}]
      /\ superblocks'[active_bank] = superblocks[active_bank]
  BY CommitEffect
<1>5. /\ fault = "before" => superblocks'[Inactive] = None
      /\ fault # "before" =>
             /\ superblocks'[Inactive] # None
             /\ superblocks'[Inactive].bank = Inactive
             /\ superblocks'[Inactive].generation = candidate.generation
             /\ superblocks'[Inactive].state_checksum = candidate
             /\ superblocks'[Inactive].intact = (fault # "corrupt")
  BY CommitEffect
<1> HIDE DEF candidate
<1>6. CowTypeOK'
  BY <1>1, <1>2, <1>4 DEF CowInv, CowTypeOK
<1>7. Verifies(active_bank)
  BY DEF CowInv
<1>8. /\ superblocks[active_bank] # None
      /\ superblocks[active_bank].bank = active_bank
      /\ superblocks[active_bank].generation = banks[active_bank].generation
      /\ superblocks[active_bank].state_checksum = banks[active_bank]
      /\ superblocks[active_bank].intact
  BY <1>7 DEF Verifies
<1>9. \A i \in Banks : Describes(i)'
  BY <1>2, <1>4, <1>5, <1>8 DEF Describes
<1>10. Verifies(active_bank)'
  BY <1>1, <1>4, <1>5, <1>8, Zenon, ZenonT(120) DEF Verifies
<1>11. banks[active_bank].generation \in Nat /\ CowCommitted = banks[active_bank]
  BY <1>2, StateParts, Zenon, ZenonT(120) DEF CowInv, CowTypeOK, CowCommitted
<1>12. (superblocks[Inactive] # None =>
           superblocks[Inactive].generation # CowCommitted.generation)'
  BY <1>1, <1>3, <1>4, <1>5, <1>8, <1>11 DEF CowCommitted
<1> QED
  BY <1>1, <1>6, <1>9, <1>10, <1>12, Zenon, ZenonT(120) DEF CowInv

\* What recovery leaves.
LEMMA RecoverEffect ==
    ASSUME CowInv, CowRecover
    PROVE  /\ cow_active' = None /\ cow_snapshots' = cow_snapshots
           /\ active_bank' = IF NewerValid THEN Inactive ELSE active_bank
           /\ Inactive' = IF NewerValid THEN active_bank ELSE Inactive
           /\ banks' \in [Banks -> State]
           /\ superblocks' \in [Banks -> SuperblockType \cup {None}]
           /\ \A i \in Banks : Verifies(i) =>
                  banks'[i] = banks[i] /\ superblocks'[i] = superblocks[i]
           /\ \A i \in Banks : ~Verifies(i) => superblocks'[i] = None
<1>1. CowRecoverable /\ Selected = IF NewerValid THEN Inactive ELSE active_bank
  BY RecoverySelects
<1>2. /\ active_bank \in Banks /\ Inactive \in Banks /\ Inactive # active_bank
  BY InactiveIsOther DEF CowInv, CowTypeOK
<1>3. /\ active_bank' = Selected
      /\ banks' = [i \in Banks |->
             IF ~Verifies(i) /\ banks[i].generation > banks[Selected].generation
             THEN banks[Selected] ELSE banks[i]]
      /\ superblocks' = [i \in Banks |-> IF Verifies(i) THEN superblocks[i] ELSE None]
      /\ cow_active' = None /\ cow_snapshots' = cow_snapshots
  BY <1>1 DEF CowRecover, CowRecoverable
<1>4. Selected \in Banks
  BY <1>1, <1>2
<1>5. Inactive' = IF NewerValid THEN active_bank ELSE Inactive
  BY <1>1, <1>2, <1>3 DEF Inactive, Banks
<1>6. banks \in [Banks -> State] /\ superblocks \in [Banks -> SuperblockType \cup {None}]
  BY DEF CowInv, CowTypeOK
<1>7. banks' \in [Banks -> State]
  BY <1>3, <1>4, <1>6
<1>8. superblocks' \in [Banks -> SuperblockType \cup {None}]
  BY <1>3, <1>6
<1> QED
  BY <1>1, <1>3, <1>5, <1>7, <1>8

\* Recovery keeps the invariant.
LEMMA RecoverKeepsInv ==
    ASSUME CowInv, CowRecover
    PROVE  CowInv'
<1>1. /\ active_bank \in Banks /\ Inactive \in Banks /\ Inactive # active_bank
      /\ Banks = {active_bank, Inactive}
  BY InactiveIsOther DEF CowInv, CowTypeOK
<1>2. /\ cow_active' = None /\ cow_snapshots' = cow_snapshots
      /\ active_bank' = IF NewerValid THEN Inactive ELSE active_bank
      /\ Inactive' = IF NewerValid THEN active_bank ELSE Inactive
      /\ banks' \in [Banks -> State]
      /\ superblocks' \in [Banks -> SuperblockType \cup {None}]
  BY RecoverEffect
<1>3. /\ \A i \in Banks : Verifies(i) =>
             banks'[i] = banks[i] /\ superblocks'[i] = superblocks[i]
      /\ \A i \in Banks : ~Verifies(i) => superblocks'[i] = None
  BY RecoverEffect
<1>4. CowTypeOK'
  BY <1>1, <1>2 DEF CowInv, CowTypeOK
<1>5. \A i \in Banks : Describes(i)'
  BY <1>3 DEF Verifies, Describes
<1>6. Verifies(active_bank) /\ (NewerValid => Verifies(Inactive))
  BY DEF CowInv, NewerValid
<1>7. Verifies(active_bank)'
  BY <1>1, <1>2, <1>3, <1>6 DEF Verifies
<1>8. CowCommitted.generation \in Nat /\ CowCommitted = banks[active_bank]
  BY <1>1, StateParts, Zenon, ZenonT(120) DEF CowInv, CowTypeOK, CowCommitted
<1>9. CASE NewerValid
  <2>1. /\ superblocks'[Inactive'] = superblocks[active_bank]
        /\ superblocks[active_bank].generation = CowCommitted.generation
        /\ CowCommitted' = banks[Inactive]
        /\ banks[Inactive].generation > CowCommitted.generation
    BY <1>1, <1>2, <1>3, <1>6, <1>8, <1>9, Zenon, ZenonT(120) DEF CowCommitted, Verifies, NewerValid
  <2>2. superblocks'[Inactive'].generation # CowCommitted'.generation
    BY <1>8, <2>1
  <2> QED
    BY <1>2, <1>4, <1>5, <1>7, <2>2 DEF CowInv
<1>10. CASE ~NewerValid
  <2>1. /\ Inactive' = Inactive /\ CowCommitted' = CowCommitted
        /\ superblocks'[Inactive] # None => superblocks'[Inactive] = superblocks[Inactive]
    BY <1>1, <1>2, <1>3, <1>6, <1>8, <1>10 DEF CowCommitted
  <2>2. (superblocks[Inactive] # None =>
            superblocks[Inactive].generation # CowCommitted.generation)'
    BY <1>3, <1>1, <2>1 DEF CowInv
  <2> QED
    BY <1>2, <1>4, <1>5, <1>7, <2>2 DEF CowInv
<1> QED
  BY <1>9, <1>10

\* What damage and gc do to the superblocks.
LEMMA SuperblockEffect ==
    ASSUME CowInv, CowDamage \/ \E retain_from \in 0..MaxGeneration : CowGc(retain_from)
    PROVE  /\ superblocks' \in [Banks -> SuperblockType \cup {None}]
           /\ superblocks'[active_bank] = superblocks[active_bank]
           /\ superblocks'[Inactive] # None =>
                  /\ superblocks[Inactive] # None
                  /\ superblocks'[Inactive].generation = superblocks[Inactive].generation
                  /\ superblocks'[Inactive].bank = superblocks[Inactive].bank
                  /\ superblocks'[Inactive].state_checksum = superblocks[Inactive].state_checksum
<1>1. /\ active_bank \in Banks /\ Inactive \in Banks /\ Inactive # active_bank
      /\ superblocks \in [Banks -> SuperblockType \cup {None}]
  BY InactiveIsOther DEF CowInv, CowTypeOK
<1>2. CASE CowDamage
  <2>1. /\ superblocks[Inactive] # None
        /\ superblocks' = [superblocks EXCEPT ![Inactive] = [@ EXCEPT !.intact = FALSE]]
    BY <1>2 DEF CowDamage
  <2>2. superblocks[Inactive] \in SuperblockType
    BY <1>1, <2>1
  <2>3. [superblocks[Inactive] EXCEPT !.intact = FALSE] \in SuperblockType
    BY <2>2, Zenon, ZenonT(120) DEF SuperblockType
  <2>4. /\ superblocks' \in [Banks -> SuperblockType \cup {None}]
        /\ superblocks'[active_bank] = superblocks[active_bank]
        /\ superblocks'[Inactive] = [superblocks[Inactive] EXCEPT !.intact = FALSE]
    BY <1>1, <2>1, <2>3
  <2> QED
    BY <2>1, <2>2, <2>4 DEF SuperblockType
<1>3. CASE \E retain_from \in 0..MaxGeneration : CowGc(retain_from)
  <2>1. PICK retain_from \in 0..MaxGeneration : CowGc(retain_from)
    BY <1>3
  <2>2. superblocks' = [i \in Banks |->
           IF i # active_bank /\ superblocks[i] # None
              /\ superblocks[i].generation < retain_from
           THEN None ELSE superblocks[i]]
    BY <2>1 DEF CowGc
  <2> QED
    BY <1>1, <2>2
<1> QED
  BY <1>2, <1>3

\* Damage and gc keep the invariant, whatever gc does to the snapshots.
LEMMA SuperblocksKeepInv ==
    ASSUME CowInv, CowDamage \/ \E retain_from \in 0..MaxGeneration : CowGc(retain_from),
           cow_snapshots' \in SnapshotSet, Numbered(cow_snapshots')
    PROVE  CowInv'
<1>1. UNCHANGED <<banks, active_bank, cow_active>>
  BY DEF CowDamage, CowGc
<1>2. Inactive' = Inactive /\ CowCommitted' = CowCommitted
  BY <1>1 DEF Inactive, CowCommitted
<1>3. /\ superblocks' \in [Banks -> SuperblockType \cup {None}]
      /\ superblocks'[active_bank] = superblocks[active_bank]
      /\ superblocks'[Inactive] # None =>
             /\ superblocks[Inactive] # None
             /\ superblocks'[Inactive].generation = superblocks[Inactive].generation
             /\ superblocks'[Inactive].bank = superblocks[Inactive].bank
             /\ superblocks'[Inactive].state_checksum = superblocks[Inactive].state_checksum
  BY SuperblockEffect
<1>4. CowTypeOK'
  BY <1>1, <1>3 DEF CowInv, CowTypeOK
<1>5. Banks = {active_bank, Inactive}
  BY InactiveIsOther DEF CowInv, CowTypeOK
<1>6. Describes(active_bank) /\ Describes(Inactive)
  BY <1>5 DEF CowInv
<1>7. \A i \in Banks : Describes(i)'
  BY <1>1, <1>3, <1>5, <1>6 DEF Describes
<1>8. Verifies(active_bank)'
  BY <1>1, <1>3 DEF CowInv, Verifies
<1> QED
  BY <1>1, <1>2, <1>3, <1>4, <1>7, <1>8 DEF CowInv

\* A snapshot keeps the invariant.
LEMMA SnapshotKeepsInv ==
    ASSUME CowInv, CowSnapshot
    PROVE  CowInv'
<1>1. UNCHANGED <<banks, superblocks, active_bank, cow_active>>
  BY DEF CowSnapshot
<1>2. CowCommitted \in State
  BY DEF CowInv, CowTypeOK, CowCommitted
<1>3. cow_snapshots' \in SnapshotSet /\ Numbered(cow_snapshots')
  BY <1>2, CaptureAdds DEF CowSnapshot, CowInv, CowTypeOK
<1> QED
  BY <1>1, <1>3 DEF CowInv, CowTypeOK, Describes, Verifies, Inactive, CowCommitted

\* Every step keeps the invariant.
LEMMA CowNextInv == CowInv /\ [CowNext]_cowVars => CowInv'
<1> SUFFICES ASSUME CowInv, [CowNext]_cowVars PROVE CowInv'
  OBVIOUS
<1>1. ASSUME UNCHANGED <<banks, superblocks, active_bank, cow_snapshots>>,
             cow_active' \in [state: State, cancelled: BOOLEAN] \cup {None},
             cow_active' # None => cow_active'.state.generation = CowCommitted.generation
      PROVE  CowInv'
  BY <1>1 DEF CowInv, CowTypeOK, Describes, Verifies, Inactive, CowCommitted
<1>2. CASE CowBegin
  <2>1. /\ cow_active' = [state |-> CowCommitted, cancelled |-> FALSE]
        /\ CowCommitted \in State
    BY <1>2 DEF CowBegin, CowInv, CowTypeOK, CowCommitted
  <2> QED
    BY <1>1, <1>2, <2>1 DEF CowBegin
<1>3. ASSUME NEW o \in Requests, CowOperate(o) PROVE CowInv'
  <2>1. /\ cow_active \in [state: State, cancelled: BOOLEAN]
        /\ cow_active.state.generation = CowCommitted.generation
        /\ CanApply(cow_active.state, o)
        /\ cow_active' = [cow_active EXCEPT !.state = Apply(cow_active.state, o)]
    BY <1>3 DEF CowOperate, CowReady, CowInv, CowTypeOK
  <2>2. /\ Apply(cow_active.state, o) \in State
        /\ Apply(cow_active.state, o).generation = cow_active.state.generation
    BY <2>1, ApplyKeeps
  <2>3. /\ cow_active' \in [state: State, cancelled: BOOLEAN]
        /\ cow_active'.state.generation = CowCommitted.generation
    BY <2>1, <2>2
  <2> QED
    BY <1>1, <1>3, <2>3 DEF CowOperate
<1>4. ASSUME NEW fault \in Faults, CowCommit(fault) PROVE CowInv'
  BY <1>4, CommitKeepsInv
<1>5. CASE CowAbort
  BY <1>1, <1>5 DEF CowAbort
<1>6. CASE CowCancel
  <2>1. /\ cow_active \in [state: State, cancelled: BOOLEAN]
        /\ cow_active.state.generation = CowCommitted.generation
        /\ cow_active' = [cow_active EXCEPT !.cancelled = TRUE]
    BY <1>6 DEF CowCancel, CowInv, CowTypeOK
  <2>2. /\ cow_active' \in [state: State, cancelled: BOOLEAN]
        /\ cow_active'.state = cow_active.state
    BY <2>1, Zenon, ZenonT(120)
  <2> QED
    BY <1>1, <1>6, <2>1, <2>2 DEF CowCancel
<1>7. CASE CowSnapshot
  BY <1>7, SnapshotKeepsInv
<1>8. ASSUME NEW retain_from \in 0..MaxGeneration, CowGc(retain_from) PROVE CowInv'
  <2>1. cow_snapshots' = Reclaim(cow_snapshots, retain_from)
    BY <1>8 DEF CowGc
  <2>2. cow_snapshots' \in SnapshotSet /\ Numbered(cow_snapshots')
    BY <2>1, ReclaimDrops DEF CowInv, CowTypeOK
  <2> QED
    BY <1>8, <2>2, SuperblocksKeepInv
<1>9. CASE CowDamage
  <2>1. cow_snapshots' = cow_snapshots
    BY <1>9 DEF CowDamage
  <2> QED
    BY <1>9, <2>1, SuperblocksKeepInv DEF CowInv, CowTypeOK
<1>10. CASE CowRecover
  BY <1>10, RecoverKeepsInv
<1>11. CASE UNCHANGED cowVars
  BY <1>1, <1>11, Zenon, ZenonT(120) DEF cowVars, CowInv, CowTypeOK
<1> QED
  BY <1>2, <1>3, <1>4, <1>5, <1>6, <1>7, <1>8, <1>9, <1>10, <1>11 DEF CowNext

\* Along every behaviour the invariant holds.
THEOREM CowInvariant == CowSpec => []CowInv
BY CowInitInv, CowNextInv, PTL, PTL DEF CowSpec

\* recover of the copy-on-write store never returns CorruptRecoveryMetadata,
\* wherever its commits were interrupted and whichever receipts were damaged.
THEOREM CowAlwaysRecoverable == CowSpec => []CowRecoverable
<1>1. CowInv => CowRecoverable
  BY RecoverySelects
<1> QED
  BY <1>1, CowInvariant, PTL, PTL

-----------------------------------------------------------------------------
(* The refinement.                                                         *)

\* A new store is a new transactional store.
LEMMA CowInitMaps == CowInit => CowTs!TsInit
<1> SUFFICES ASSUME CowInit PROVE CowTs!TsInit
  OBVIOUS
<1>1. CowCommitted = Empty /\ cow_active = None /\ CowPending = None
  BY DEF CowInit, CowCommitted, CowPending, Inactive, Banks
<1>2. Captured(cow_snapshots) = {}
  BY NoneCaptured DEF CowInit
<1> QED
  BY <1>1, <1>2 DEF CowTs!TsInit

\* Steps that leave the banks and superblocks alone leave what readers see and
\* what is pending.
LEMMA SameBanks ==
    ASSUME UNCHANGED <<banks, superblocks, active_bank>>
    PROVE  CowCommitted' = CowCommitted /\ CowPending' = CowPending
BY DEF CowCommitted, CowPending, Inactive

\* A commit is a commit, or one of the three interruptions.
LEMMA CommitMaps ==
    ASSUME CowInv, NEW fault \in Faults, CowCommit(fault)
    PROVE  CowTs!TsNext
<1> DEFINE candidate == Candidate(cow_active.state)
<1>1. /\ cow_active' = None /\ cow_snapshots' = cow_snapshots
      /\ active_bank' = IF fault = "none" THEN Inactive ELSE active_bank
      /\ cow_active # None /\ ~cow_active.cancelled
  BY DEF CowCommit, CowReady
<1>2. /\ active_bank \in Banks /\ Inactive \in Banks /\ Inactive # active_bank
  BY InactiveIsOther, Zenon, ZenonT(120) DEF CowInv, CowTypeOK
<1>3. Inactive' = IF fault = "none" THEN active_bank ELSE Inactive
  BY <1>1, <1>2 DEF Inactive, Banks
<1>4. /\ candidate \in State /\ candidate.generation = CowCommitted.generation + 1
      /\ banks'[Inactive] = candidate /\ banks'[active_bank] = banks[active_bank]
      /\ superblocks'[active_bank] = superblocks[active_bank]
      /\ fault = "before" => superblocks'[Inactive] = None
      /\ fault # "before" =>
             /\ superblocks'[Inactive] # None
             /\ superblocks'[Inactive].generation = candidate.generation
             /\ superblocks'[Inactive].intact = (fault # "corrupt")
  BY CommitEffect
<1> HIDE DEF candidate
<1>5. /\ CowCommitted = banks[active_bank] /\ CowCommitted.generation \in Nat
      /\ superblocks[active_bank].generation = CowCommitted.generation
  BY <1>2, StateParts, Zenon, ZenonT(120) DEF CowInv, CowTypeOK, CowCommitted, Verifies
<1>6. /\ Captured(cow_snapshots)' = Captured(cow_snapshots)
      /\ cow_active.state # None
  BY <1>1, NoneAssumption DEF Captured, CowInv, CowTypeOK
<1>7. CASE fault = "none"
  <2>1. CowCommitted' = candidate /\ Inactive' = active_bank
    BY <1>1, <1>3, <1>4, <1>7 DEF CowCommitted
  <2>2. ~(superblocks'[Inactive'].generation > CowCommitted'.generation)
    BY <1>4, <1>5, <2>1
  <2>3. CowPending' = None
    BY <2>2 DEF CowPending
  <2>4. CowTs!TsCommit
    BY <1>1, <1>6, <2>1, <2>3 DEF CowTs!TsCommit, CowTs!Ready, CowTs!End, candidate
  <2> QED
    BY <2>4 DEF CowTs!TsNext
<1>8. CASE fault # "none"
  <2>1. CowCommitted' = CowCommitted /\ Inactive' = Inactive
    BY <1>1, <1>3, <1>4, <1>5, <1>8 DEF CowCommitted
  <2>2. CowPending' = IF fault = "after" THEN candidate ELSE None
    <3>1. CASE fault = "before"
      BY <1>4, <2>1, <3>1 DEF CowPending
    <3>2. CASE fault = "corrupt"
      BY <1>4, <2>1, <3>2, Zenon, ZenonT(120) DEF CowPending
    <3>3. CASE fault = "after"
      <4>1. superblocks'[Inactive].intact
        BY <1>4, <3>3, Zenon, ZenonT(120)
      <4>2. superblocks'[Inactive].generation > CowCommitted.generation
        BY <1>4, <1>5, <3>3
      <4> QED
        BY <1>4, <2>1, <3>3, <4>1, <4>2 DEF CowPending
    <3> QED
      BY <1>8, <3>1, <3>2, <3>3 DEF Faults
  <2>3. CASE fault = "before"
    BY <1>1, <1>6, <2>1, <2>2, <2>3
    DEF CowTs!TsNext, CowTs!TsInterruptBefore, CowTs!Ready, CowTs!End
  <2>4. CASE fault = "corrupt"
    BY <1>1, <1>6, <2>1, <2>2, <2>4
    DEF CowTs!TsNext, CowTs!TsInterruptCorrupt, CowTs!Ready, CowTs!End
  <2>5. CASE fault = "after"
    BY <1>1, <1>6, <2>1, <2>2, <2>5
    DEF CowTs!TsNext, CowTs!TsInterruptAfter, CowTs!Ready, CowTs!End, candidate
  <2> QED
    BY <1>8, <2>3, <2>4, <2>5 DEF Faults
<1> QED
  BY <1>7, <1>8

\* Recovery publishes exactly what is pending.
LEMMA RecoverMaps ==
    ASSUME CowInv, CowRecover
    PROVE  CowTs!TsRecover
<1>1. /\ active_bank \in Banks /\ Inactive \in Banks /\ Inactive # active_bank
  BY InactiveIsOther DEF CowInv, CowTypeOK
<1>2. /\ cow_active' = None /\ cow_snapshots' = cow_snapshots
      /\ active_bank' = IF NewerValid THEN Inactive ELSE active_bank
      /\ Inactive' = IF NewerValid THEN active_bank ELSE Inactive
      /\ \A i \in Banks : Verifies(i) =>
             banks'[i] = banks[i] /\ superblocks'[i] = superblocks[i]
      /\ \A i \in Banks : ~Verifies(i) => superblocks'[i] = None
  BY RecoverEffect
<1>3. Verifies(active_bank) /\ Describes(Inactive)
  BY <1>1 DEF CowInv
<1>4. /\ CowCommitted = banks[active_bank] /\ CowCommitted.generation \in Nat
      /\ superblocks[active_bank].generation = CowCommitted.generation
  BY <1>1, <1>3, StateParts DEF CowInv, CowTypeOK, CowCommitted, Verifies
<1>5. banks[Inactive] \in State /\ banks[Inactive] # None
  BY <1>1, NoneAssumption DEF CowInv, CowTypeOK
<1>6. banks[Inactive].generation \in Nat
  BY <1>5, StateParts
<1>7. CowPending = IF NewerValid THEN banks[Inactive] ELSE None
  BY <1>3 DEF CowPending, NewerValid, Verifies, Describes
<1>8. CowCommitted' = IF NewerValid THEN banks[Inactive] ELSE CowCommitted
  BY <1>1, <1>2, <1>3, <1>4 DEF CowCommitted, NewerValid
<1>9. CowPending' = None
  <2>1. CASE NewerValid
    <3>1. superblocks'[Inactive'] = superblocks[active_bank]
      <4>1. Inactive' = active_bank
        BY <1>2, <2>1
      <4>2. superblocks'[active_bank] = superblocks[active_bank]
        BY <1>1, <1>2, <1>3
      <4> QED
        BY <4>1, <4>2
    <3>2. CowCommitted' = banks[Inactive]
      BY <1>8, <2>1
    <3>3. banks[Inactive].generation > CowCommitted.generation
      BY <2>1 DEF NewerValid, Verifies
    <3>4. superblocks'[Inactive'].generation = CowCommitted.generation
      BY <1>4, <3>1
    <3>5. ~(superblocks'[Inactive'].generation > CowCommitted'.generation)
      BY <1>4, <1>6, <3>2, <3>3, <3>4
    <3> QED
      BY <3>5 DEF CowPending
  <2>2. CASE ~NewerValid
    <3>1. superblocks'[Inactive] = None
             \/ ~(superblocks'[Inactive].generation > CowCommitted.generation)
      BY <1>1, <1>2, <2>2 DEF NewerValid
    <3> QED
      BY <1>2, <1>8, <2>2, <3>1, Zenon, ZenonT(120) DEF CowPending
  <2> QED
    BY <2>1, <2>2
<1>10. Captured(cow_snapshots)' = Captured(cow_snapshots)
  BY <1>2 DEF Captured
<1>11. CowCommitted' = IF CowPending # None THEN CowPending ELSE CowCommitted
  BY <1>5, <1>7, <1>8
<1> QED
  BY <1>2, <1>9, <1>10, <1>11 DEF CowTs!TsRecover, CowTs!End

\* A snapshot adds what is committed, under a nonce of its own.
LEMMA SnapshotMaps ==
    ASSUME CowInv, CowSnapshot
    PROVE  CowTs!TsSnapshot
<1> DEFINE nonce == cow_snapshots.next_nonce
           new == [nonce |-> nonce, state |-> CowCommitted]
<1>1. UNCHANGED <<banks, superblocks, active_bank, cow_active>>
  BY DEF CowSnapshot
<1>2. CowCommitted \in State
  BY DEF CowInv, CowTypeOK, CowCommitted
<1>3. /\ cow_snapshots' = Capture(cow_snapshots, CowCommitted)
      /\ Captured(Capture(cow_snapshots, CowCommitted)) = Captured(cow_snapshots) \cup {new}
      /\ nonce \in 1..MaxNonce /\ \A s \in Captured(cow_snapshots) : s.nonce < nonce
  BY <1>2, CaptureAdds, Zenon, ZenonT(120) DEF CowSnapshot, CowInv, CowTypeOK
<1>4. Captured(cow_snapshots)' = Captured(cow_snapshots) \cup {new}
  BY <1>3 DEF Captured
<1>5. CowCommitted' = CowCommitted /\ CowPending' = CowPending
  BY <1>1, SameBanks
<1> HIDE DEF nonce
<1> QED
  BY <1>1, <1>3, <1>4, <1>5 DEF CowTs!TsSnapshot

\* gc drops older snapshots, and with them only a pending commit that is older.
LEMMA GcMaps ==
    ASSUME CowInv, NEW retain_from \in 0..MaxGeneration, CowGc(retain_from)
    PROVE  CowTs!TsGc(retain_from)
<1>1. /\ UNCHANGED <<banks, active_bank, cow_active>>
      /\ cow_snapshots' = Reclaim(cow_snapshots, retain_from)
  BY DEF CowGc
<1>2. Captured(Reclaim(cow_snapshots, retain_from)) =
          {s \in Captured(cow_snapshots) : s.state.generation >= retain_from}
  BY ReclaimDrops, Zenon, ZenonT(120) DEF CowInv, CowTypeOK
<1>4. Captured(cow_snapshots)' =
          {s \in Captured(cow_snapshots) : s.state.generation >= retain_from}
  BY <1>1, <1>2 DEF Captured
<1>5. /\ active_bank \in Banks /\ Inactive \in Banks /\ Inactive # active_bank
      /\ Describes(Inactive) /\ Inactive' = Inactive /\ CowCommitted' = CowCommitted
  BY <1>1, InactiveIsOther DEF CowInv, CowTypeOK, Inactive, CowCommitted
<1>6. superblocks'[Inactive] =
          IF superblocks[Inactive] # None /\ superblocks[Inactive].generation < retain_from
          THEN None ELSE superblocks[Inactive]
  BY <1>5 DEF CowGc
<1>7. \/ CowPending' = CowPending
      \/ CowPending # None /\ CowPending.generation < retain_from /\ CowPending' = None
  <2>1. CASE superblocks'[Inactive] = superblocks[Inactive]
    BY <1>1, <1>5, <2>1 DEF CowPending
  <2>2. CASE superblocks'[Inactive] # superblocks[Inactive]
    <3>1. /\ superblocks'[Inactive] = None /\ superblocks[Inactive] # None
          /\ superblocks[Inactive].generation < retain_from
      BY <1>6, <2>2
    <3>2. CowPending' = None
      BY <1>5, <3>1 DEF CowPending
    <3>3. CowPending # None => CowPending.generation < retain_from
      BY <1>5, <3>1 DEF CowPending, Describes
    <3> QED
      BY <3>2, <3>3
  <2> QED
    BY <2>1, <2>2
<1> QED
  BY <1>1, <1>4, <1>5, <1>7 DEF CowTs!TsGc

\* Every step of the store is a step of the transactional store, or none.
LEMMA CowNextMaps ==
    ASSUME CowInv, [CowNext]_cowVars
    PROVE  [CowTs!TsNext]_(CowTs!tsVars)
<1> DEFINE captured == Captured(cow_snapshots)
<1>1. cow_active # None =>
          /\ cow_active \in [state: State, cancelled: BOOLEAN]
          /\ cow_active.state # None
  BY NoneAssumption DEF CowInv, CowTypeOK
<1>2. cow_snapshots' = cow_snapshots => captured' = captured
  BY DEF Captured
<1> HIDE DEF captured
<1>3. CASE CowBegin
  <2>1. /\ cow_active = None /\ cow_active' = [state |-> CowCommitted, cancelled |-> FALSE]
        /\ CowCommitted \in State
    BY <1>3, Zenon, ZenonT(120) DEF CowBegin, CowInv, CowTypeOK, CowCommitted
  <2>2. cow_active' \in [state: State, cancelled: BOOLEAN]
    BY <2>1
  <2>3. cow_active' # None
    BY <2>2, NoneAssumption
  <2>4. CowTs!TsBegin
    BY <1>2, <1>3, <2>1, <2>3, SameBanks DEF CowBegin, CowTs!TsBegin, captured
  <2> QED
    BY <2>4 DEF CowTs!TsNext
<1>4. ASSUME NEW o \in Requests, CowOperate(o) PROVE CowTs!TsNext
  <2>1. /\ cow_active # None /\ ~cow_active.cancelled
        /\ CanApply(cow_active.state, o)
        /\ cow_active' = [cow_active EXCEPT !.state = Apply(cow_active.state, o)]
    BY <1>4 DEF CowOperate, CowReady
  <2>2. /\ cow_active'.state = Apply(cow_active.state, o)
        /\ cow_active'.cancelled = cow_active.cancelled
        /\ Apply(cow_active.state, o) \in State
        /\ cow_active' \in [state: State, cancelled: BOOLEAN]
    BY <1>1, <2>1, ApplyKeeps
  <2>3. cow_active' # None
    BY <2>2, NoneAssumption
  <2>4. CowTs!TsOperate
    BY <1>1, <1>2, <1>4, <2>1, <2>2, <2>3, SameBanks, Zenon, ZenonT(120)
    DEF CowOperate, CowTs!TsOperate, CowTs!Ready, captured
  <2> QED
    BY <2>4 DEF CowTs!TsNext
<1>5. ASSUME NEW fault \in Faults, CowCommit(fault) PROVE CowTs!TsNext
  BY <1>5, CommitMaps
<1>6. CASE CowAbort
  <2>1. CowTs!TsAbort
    BY <1>1, <1>2, <1>6, SameBanks DEF CowAbort, CowTs!TsAbort, CowTs!End, captured
  <2> QED
    BY <2>1 DEF CowTs!TsNext
<1>7. CASE CowCancel
  <2>1. cow_active # None /\ cow_active' = [cow_active EXCEPT !.cancelled = TRUE]
    BY <1>7 DEF CowCancel
  <2>2. /\ cow_active'.state = cow_active.state /\ cow_active'.cancelled = TRUE
        /\ cow_active' \in [state: State, cancelled: BOOLEAN]
    BY <1>1, <2>1, Zenon, ZenonT(120)
  <2>3. cow_active' # None
    BY <2>2, NoneAssumption
  <2>4. CowTs!TsCancel
    BY <1>1, <1>2, <1>7, <2>1, <2>2, <2>3, SameBanks
    DEF CowCancel, CowTs!TsCancel, captured
  <2> QED
    BY <2>4 DEF CowTs!TsNext
<1>8. CASE CowSnapshot
  BY <1>8, SnapshotMaps DEF CowTs!TsNext
<1>9. ASSUME NEW retain_from \in 0..MaxGeneration, CowGc(retain_from) PROVE CowTs!TsNext
  BY <1>9, GcMaps DEF CowTs!TsNext
<1>10. CASE CowDamage
  <2>1. /\ active_bank \in Banks /\ Inactive \in Banks /\ Inactive # active_bank
        /\ superblocks \in [Banks -> SuperblockType \cup {None}]
    BY InactiveIsOther DEF CowInv, CowTypeOK
  <2>2. /\ UNCHANGED <<banks, active_bank, cow_active, cow_snapshots>>
        /\ superblocks[Inactive] # None
        /\ superblocks' = [superblocks EXCEPT ![Inactive] = [@ EXCEPT !.intact = FALSE]]
    BY <1>10 DEF CowDamage
  <2>3. superblocks'[Inactive].intact = FALSE
    BY <2>1, <2>2 DEF SuperblockType
  <2>4. CowCommitted' = CowCommitted /\ CowPending' = None
    BY <2>2, <2>3 DEF CowCommitted, CowPending, Inactive
  <2>5. CowTs!TsDamage
    BY <1>2, <2>2, <2>4 DEF CowTs!TsDamage, captured
  <2> QED
    BY <2>5 DEF CowTs!TsNext
<1>11. CASE CowRecover
  BY <1>11, RecoverMaps DEF CowTs!TsNext
<1>12. CASE UNCHANGED cowVars
  BY <1>2, <1>12, SameBanks DEF cowVars, CowTs!tsVars, captured
<1> QED
  BY <1>3, <1>4, <1>5, <1>6, <1>7, <1>8, <1>9, <1>10, <1>11, <1>12 DEF CowNext

\* The copy-on-write store implements the transactional store that does not ask
\* for recovery: what a commit publishes, what an interruption leaves pending and
\* what recovery makes of it are as the trait promises, for every size and every
\* set of requests, until a later commit (lib.rs:1156) or gc erases a pending one.
THEOREM CowRefines == CowSpec => CowImplements
<1>1. CowInit => CowTs!TsInit
  BY CowInitMaps
<1>2. CowInv /\ [CowNext]_cowVars => [CowTs!TsNext]_(CowTs!tsVars)
  BY CowNextMaps
<1> QED
  BY <1>1, <1>2, CowInvariant, PTL, PTL DEF CowSpec, CowImplements, CowTs!TsSpec

-----------------------------------------------------------------------------
(* What the banks, the transaction and the snapshots hold.                 *)

\* Every state the store keeps is sound, and what may be published next comes
\* after what is.
CowSound ==
    /\ \A i \in Banks : Sound(banks[i])
    /\ cow_active # None => Sound(cow_active.state) /\ Extends(CowCommitted, cow_active.state)
    /\ superblocks[Inactive] # None
       /\ superblocks[Inactive].generation > CowCommitted.generation =>
           Extends(CowCommitted, banks[Inactive])
    /\ \A c \in Captured(cow_snapshots) : Sound(c.state)

\* In every bank, transaction and snapshot, wherever commits were interrupted:
\* no live handle is one yet to be issued, every name resolves to a live
\* object, no byte beyond an object's length is left over and the recovery
\* reserve is free.  A transaction and a pending commit revive no handle.
THEOREM CowStatesSound == CowSpec => []CowSound
<1>1. CowInit => CowSound
  <2> SUFFICES ASSUME CowInit PROVE CowSound
    OBVIOUS
  <2>1. /\ \A i \in Banks : banks[i] = Empty
        /\ cow_active = None /\ superblocks[Inactive] = None
        /\ Captured(cow_snapshots) = {}
    BY NoneCaptured DEF CowInit, Inactive, Banks
  <2> QED
    BY <2>1, EmptySound DEF CowSound
<1>2. CowInv /\ CowSound /\ [CowNext]_cowVars => CowSound'
  <2> SUFFICES ASSUME CowInv, CowSound, [CowNext]_cowVars PROVE CowSound'
    OBVIOUS
  <2>1. CowCommitted \in State /\ Sound(CowCommitted)
    BY DEF CowInv, CowTypeOK, CowCommitted, CowSound
  <2>2. ASSUME UNCHANGED <<banks, superblocks, active_bank, cow_snapshots>>,
               cow_active' # None =>
                   Sound(cow_active'.state) /\ Extends(CowCommitted, cow_active'.state)
        PROVE  CowSound'
    BY <2>2, Zenon, ZenonT(120) DEF CowSound, Inactive, CowCommitted
  <2>3. CASE CowBegin
    <3>1. cow_active'.state = CowCommitted
      BY <2>3 DEF CowBegin
    <3> QED
      BY <2>1, <2>2, <2>3, <3>1, ExtendsReflexive DEF CowBegin
  <2>4. ASSUME NEW o \in Requests, CowOperate(o) PROVE CowSound'
    <3>1. /\ cow_active \in [state: State, cancelled: BOOLEAN]
          /\ Sound(cow_active.state) /\ CanApply(cow_active.state, o)
          /\ Extends(CowCommitted, cow_active.state)
          /\ cow_active' = [cow_active EXCEPT !.state = Apply(cow_active.state, o)]
      BY <2>4 DEF CowOperate, CowReady, CowInv, CowTypeOK, CowSound
    <3>2. cow_active'.state = Apply(cow_active.state, o)
      BY <3>1
    <3>3. Sound(cow_active'.state) /\ Extends(CowCommitted, cow_active'.state)
      BY <2>1, <3>1, <3>2, ApplyKeeps, ExtendsTransitive
    <3> QED
      BY <2>2, <2>4, <3>3 DEF CowOperate
  <2>5. ASSUME NEW fault \in Faults, CowCommit(fault) PROVE CowSound'
    <3>1. /\ cow_active' = None /\ cow_snapshots' = cow_snapshots /\ cow_active # None
      BY <2>5 DEF CowCommit, CowReady
    <3>2. /\ cow_active \in [state: State, cancelled: BOOLEAN]
          /\ banks'[Inactive] = Candidate(cow_active.state)
          /\ banks'[active_bank] = banks[active_bank]
          /\ superblocks'[active_bank] = superblocks[active_bank]
          /\ Candidate(cow_active.state).generation = CowCommitted.generation + 1
      BY <2>5, CommitEffect
    <3>3. /\ Sound(banks'[Inactive])
          /\ Extends(CowCommitted, banks'[Inactive])
      BY <2>1, <3>1, <3>2, CandidateKeeps, ExtendsTransitive DEF CowSound
    <3>4. Banks = {active_bank, Inactive} /\ Inactive \in Banks
      BY InactiveIsOther DEF CowInv, CowTypeOK
    <3>5. CowSound!1'
      BY <3>2, <3>3, <3>4 DEF CowSound
    <3>6. CASE fault = "none"
      <4>1. active_bank' = Inactive /\ Inactive' = active_bank
        BY <2>5, <3>4, <3>6 DEF CowCommit, Inactive, Banks
      <4>2. /\ superblocks'[Inactive'].generation = CowCommitted.generation
            /\ CowCommitted'.generation = CowCommitted.generation + 1
            /\ CowCommitted.generation \in Nat
        BY <2>1, <3>2, <4>1, StateParts DEF CowInv, Verifies, CowCommitted
      <4>3. ~(superblocks'[Inactive'].generation > CowCommitted'.generation)
        BY <4>2
      <4> QED
        BY <3>1, <3>5, <4>3 DEF CowSound
    <3>7. CASE fault # "none"
      <4>1. active_bank' = active_bank /\ Inactive' = Inactive /\ CowCommitted' = CowCommitted
        BY <2>5, <3>2, <3>7 DEF CowCommit, Inactive, CowCommitted
      <4> QED
        BY <3>1, <3>3, <3>5, <4>1 DEF CowSound
    <3> QED
      BY <3>6, <3>7
  <2>6. CASE CowAbort
    BY <2>2, <2>6 DEF CowAbort
  <2>7. CASE CowCancel
    <3>1. cow_active # None /\ cow_active'.state = cow_active.state
      BY <2>7 DEF CowCancel, CowInv, CowTypeOK
    <3> QED
      BY <2>2, <2>7, <3>1 DEF CowCancel, CowSound
  <2>8. CASE CowSnapshot
    <3>1. UNCHANGED <<banks, superblocks, active_bank, cow_active>>
      BY <2>8 DEF CowSnapshot
    <3>2. cow_snapshots' = Capture(cow_snapshots, CowCommitted)
      BY <2>8 DEF CowSnapshot
    <3>3. CanCapture(cow_snapshots) /\ cow_snapshots \in SnapshotSet /\ Numbered(cow_snapshots)
      BY <2>8, Zenon, ZenonT(120) DEF CowSnapshot, CowInv, CowTypeOK
    <3>4. \A c \in Captured(cow_snapshots') : c \in Captured(cow_snapshots) \/ c.state = CowCommitted
      BY <2>1, <3>2, <3>3, CaptureAdds
    <3> QED
      BY <2>1, <3>1, <3>4 DEF CowSound, Inactive, CowCommitted
  <2>9. ASSUME NEW retain_from \in 0..MaxGeneration, CowGc(retain_from) PROVE CowSound'
    <3>1. /\ UNCHANGED <<banks, active_bank, cow_active>>
          /\ cow_snapshots' = Reclaim(cow_snapshots, retain_from)
      BY <2>9 DEF CowGc
    <3>2. Captured(cow_snapshots') \subseteq Captured(cow_snapshots)
      BY <3>1, ReclaimDrops DEF CowInv, CowTypeOK
    <3>3. superblocks'[Inactive] # None =>
              /\ superblocks[Inactive] # None
              /\ superblocks'[Inactive].generation = superblocks[Inactive].generation
      BY <2>9, SuperblockEffect
    <3> QED
      BY <3>1, <3>2, <3>3, Zenon, ZenonT(120) DEF CowSound, Inactive, CowCommitted
  <2>10. CASE CowDamage
    <3>1. UNCHANGED <<banks, active_bank, cow_active, cow_snapshots>>
      BY <2>10 DEF CowDamage
    <3>2. superblocks'[Inactive] # None =>
              /\ superblocks[Inactive] # None
              /\ superblocks'[Inactive].generation = superblocks[Inactive].generation
      BY <2>10, SuperblockEffect
    <3> QED
      BY <3>1, <3>2 DEF CowSound, Inactive, CowCommitted
  <2>11. CASE CowRecover
    <3>1. cow_active' = None /\ cow_snapshots' = cow_snapshots
      BY <2>11, RecoverEffect
    <3>2. Selected \in Banks
      BY RecoverySelects, InactiveIsOther DEF CowInv, CowTypeOK
    <3>3. \A i \in Banks : banks'[i] \in {banks[i], banks[Selected]}
      BY <2>11, RecoverySelects DEF CowRecover, CowRecoverable
    <3>4. CowPending' = None
      BY <2>11, RecoverMaps DEF CowTs!TsRecover
    <3>5. superblocks'[Inactive'] # None => superblocks'[Inactive'].intact
      <4>1. /\ superblocks' = [i \in Banks |-> IF Verifies(i) THEN superblocks[i] ELSE None]
            /\ Inactive' \in Banks
        BY <2>11, RecoverEffect, InactiveIsOther, Zenon, ZenonT(120)
        DEF CowRecover, CowInv, CowTypeOK
      <4> QED
        BY <4>1 DEF Verifies
    <3>6. \A i \in Banks : Sound(banks'[i])
      BY <3>2, <3>3 DEF CowSound
    <3>7. banks'[Inactive'] # None
      <4>1. CowInv'
        BY <2>11, RecoverKeepsInv
      <4>3. Inactive' \in Banks
        BY <2>11, RecoverEffect, InactiveIsOther DEF CowInv, CowTypeOK
      <4>4. banks' \in [Banks -> State]
        BY <4>1, Zenon, ZenonT(120) DEF CowInv, CowTypeOK
      <4> QED
        BY <4>3, <4>4, NoneAssumption
    <3>8. ~(superblocks'[Inactive'] # None
            /\ superblocks'[Inactive'].generation > CowCommitted'.generation)
      BY <3>4, <3>5, <3>7 DEF CowPending
    <3> QED
      BY <3>1, <3>6, <3>8 DEF CowSound
  <2>12. CASE UNCHANGED cowVars
    BY <2>2, <2>12 DEF cowVars, CowSound
  <2> QED
    BY <2>3, <2>4, <2>5, <2>6, <2>7, <2>8, <2>9, <2>10, <2>11, <2>12 DEF CowNext
<1> QED
  BY <1>1, <1>2, CowInvariant, PTL, PTL DEF CowSpec
=============================================================================
