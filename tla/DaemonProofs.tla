---------------------------- MODULE DaemonProofs ----------------------------
(***************************************************************************)
(* Theorems about what the daemon's threads serve.  NbdServer and Daemon,  *)
(* for every set of requests and every number of requests a client has     *)
(* outstanding: the NBD thread's framing and order, and that the state     *)
(* the control socket answers with is the one its command established      *)
(* although it is read after the engine's lock was released.  RecoveryApi: *)
(* the store of challenges is bounded, keeps a challenge until it expires  *)
(* or is used, and gives none out twice; the exports never exceed their    *)
(* limit.                                                                  *)
(***************************************************************************)
EXTENDS Daemon, RecoveryApi, FiniteSetTheorems, TLAPS

\* A leaf that names no prover is tried with these, with time to spare.
USE SMTT(60), SMTT(120), ZenonT(120)

-----------------------------------------------------------------------------
(* Types.                                                                  *)

\* What a client sends is an item.
LEMMA ItemTypes ==
    /\ \A ok \in BOOLEAN : Hello(ok) \in Item
    /\ \A r \in Request : Header(r) \in Item
    /\ Payload \in Item /\ Disc \in Item /\ BadMagic \in Item
BY ZenonT(120) DEF Hello, Header, Payload, Disc, BadMagic, Item

\* A header carries a request.
LEMMA HeaderType == \A x \in Item : x.item = "header" => x.request \in Request
BY ZenonT(120) DEF Item

\* A connection that ends leaves variables of their types.
LEMMA EndType ==
    ASSUME NbdTypeOK, EndConnection \/ ProcessEnds
    PROVE  NbdTypeOK'
<1>1. <<>> \in Seq(Item) /\ <<>> \in Seq(Request) /\ Len(<<>>) <= MaxPipelined
  BY NbdAssumption
<1> QED
  BY <1>1, ZenonT(120) DEF NbdTypeOK, EndConnection, ProcessEnds

\* Finishing a request leaves variables of their types.
LEMMA FinishType ==
    ASSUME NbdTypeOK, nbd = "execute", state' \in States, Finish
    PROVE  NbdTypeOK'
BY DEF NbdTypeOK, Finish, conn

\* An answer leaves variables of their types.
LEMMA AnsweredType ==
    ASSUME NbdTypeOK, RepliesInOrder, nbd = "reply", Answered
    PROVE  NbdTypeOK'
<1>1. /\ nbd' = "header" /\ sent' = Tail(sent) /\ current' = None
      /\ UNCHANGED <<state, peer, stream, owes, reads>>
  BY DEF Answered
<1>2. sent # <<>>
  BY DEF RepliesInOrder
<1>3. sent' \in Seq(Request) /\ Len(sent') <= MaxPipelined
  BY <1>1, <1>2, NbdAssumption DEF NbdTypeOK
<1> QED
  BY <1>1, <1>3, ZenonT(120) DEF NbdTypeOK

\* Every variable keeps its type, provided that a reply answers something.
LEMMA NbdNextType ==
    ASSUME NbdTypeOK, RepliesInOrder, [NbdNext]_<<state, nbdVars>>
    PROVE  NbdTypeOK'
<1>1. CASE Accept
  <2>1. current = None
    BY <1>1 DEF Accept, NbdTypeOK
  <2>2. /\ nbd' = "negotiate" /\ peer' = "silent"
        /\ UNCHANGED <<state, stream, owes, reads, sent, current>>
    BY <1>1 DEF Accept
  <2> QED
    BY <2>1, <2>2 DEF NbdTypeOK
<1>2. CASE SendPayload
  <2>1. Payload \in Item
    BY ItemTypes
  <2>2. /\ stream' = Append(stream, Payload) /\ owes' = FALSE
        /\ UNCHANGED <<state, nbd, peer, reads, sent, current>>
    BY <1>2 DEF SendPayload
  <2>3. stream' \in Seq(Item)
    BY <2>1, <2>2 DEF NbdTypeOK
  <2> QED
    BY <2>2, <2>3, ZenonT(120) DEF NbdTypeOK
<1>3. CASE PeerCloses
  BY <1>3 DEF PeerCloses, NbdTypeOK
<1>4. ASSUME NEW ok \in BOOLEAN, SendHello(ok) PROVE NbdTypeOK'
  BY <1>4, ItemTypes DEF SendHello, NbdTypeOK
<1>5. ASSUME NEW r \in Request, SendRequest(r) PROVE NbdTypeOK'
  <2>1. Header(r) \in Item
    BY ItemTypes
  <2>2. stream' \in Seq(Item) /\ sent' \in Seq(Request) /\ Len(sent') <= MaxPipelined
    BY <1>5, <2>1, NbdAssumption DEF SendRequest, NbdTypeOK
  <2>3. owes' \in BOOLEAN
    BY <1>5 DEF SendRequest
  <2> QED
    BY <1>5, <2>2, <2>3 DEF SendRequest, NbdTypeOK
<1>6. ASSUME NEW item \in {Disc, BadMagic}, SendLast(item) PROVE NbdTypeOK'
  BY <1>6, ItemTypes DEF SendLast, NbdTypeOK
<1>7. CASE Negotiate
  <2>1. CASE EndConnection
    BY <2>1, EndType
  <2>2. CASE ~EndConnection
    <3>1. /\ nbd = "negotiate" /\ stream # <<>> /\ nbd' = "header"
          /\ stream' = Tail(stream)
          /\ UNCHANGED <<state, peer, owes, reads, sent, current>>
      BY <1>7, <2>2 DEF Negotiate
    <3>2. current = None
      BY <3>1 DEF NbdTypeOK
    <3>3. stream' \in Seq(Item)
      BY <3>1 DEF NbdTypeOK
    <3> QED
      BY <3>1, <3>2, <3>3 DEF NbdTypeOK
  <2> QED
    BY <2>1, <2>2
<1>8. CASE NoticeClosed
  BY <1>8, EndType DEF NoticeClosed
<1>9. CASE RecvHeader
  <2>1. CASE EndConnection
    BY <2>1, EndType
  <2>2. CASE ~EndConnection
    <3>1. /\ nbd = "header" /\ stream # <<>> /\ Head(stream).item = "header"
          /\ current' = Head(stream).request /\ stream' = Tail(stream)
          /\ nbd' = IF current'.kind.command = "write" THEN "payload" ELSE "execute"
          /\ UNCHANGED <<state, peer, owes, reads, sent>>
      BY <1>9, <2>2 DEF RecvHeader
    <3>2. Head(stream) \in Item /\ stream' \in Seq(Item)
      BY <3>1 DEF NbdTypeOK
    <3>3. current' \in Request /\ current' # None
      BY <3>1, <3>2, HeaderType, NbdNoneAssumption
    <3> QED
      BY <3>1, <3>2, <3>3 DEF NbdTypeOK
  <2> QED
    BY <2>1, <2>2
<1>10. CASE RecvPayload
  BY <1>10 DEF RecvPayload, NbdTypeOK
<1>11. CASE Refuse
  BY <1>11, FinishType DEF Refuse, NbdTypeOK
<1>12. CASE ReadOrFlush
  BY <1>12, FinishType DEF ReadOrFlush, NbdTypeOK
<1>13. CASE EngineWrite
  <2>1. state' \in States
    BY <1>13 DEF EngineWrite, NbdTypeOK, States
  <2> QED
    BY <1>13, <2>1, FinishType DEF EngineWrite, Writing
<1>14. CASE PeerReads
  BY <1>14 DEF PeerReads, NbdTypeOK
<1>15. CASE Corrupt
  BY <1>15, EndType DEF Corrupt
<1>16. CASE Reply \/ ReplyBuffered
  <2>1. nbd = "reply" /\ (Answered \/ EndConnection)
    BY <1>16 DEF Reply, ReplyBuffered
  <2> QED
    BY <2>1, AnsweredType, EndType
<1>17. CASE ListenerFails
  BY <1>17 DEF ListenerFails, conn, NbdTypeOK
<1>18. CASE EngineMoves
  BY <1>18 DEF EngineMoves, nbdVars, conn, NbdTypeOK
<1>19. CASE ProcessEnds
  BY <1>19, EndType
<1>20. CASE UNCHANGED <<state, nbdVars>>
  BY <1>20 DEF nbdVars, conn, NbdTypeOK
<1> QED
  BY <1>1, <1>2, <1>3, <1>4, <1>5, <1>6, <1>7, <1>8, <1>9, <1>10, <1>11, <1>12, <1>13,
     <1>14, <1>15, <1>16, <1>17, <1>18, <1>19, <1>20
  DEF NbdNext, NbdClient, NbdThread

\* The variables start with their types.
LEMMA NbdInitType == NbdInit => NbdTypeOK
<1>1. <<>> \in Seq(Item) /\ <<>> \in Seq(Request) /\ Len(<<>>) <= MaxPipelined
  BY NbdAssumption
<1> QED
  BY <1>1, ZenonT(120) DEF NbdInit, NbdTypeOK, States

-----------------------------------------------------------------------------
(* The requests of a stream, in the order they were sent.                  *)

\* f counts, for every position of stream s, the requests up to there, those
\* the server has taken out included; request number f[i] of q is the one whose
\* header is at position i.
Ordered(f, s, q, taken) ==
    /\ f \in [0..Len(s) -> 0..Len(q)]
    /\ f[0] = taken /\ f[Len(s)] = Len(q)
    /\ \A i, j \in 0..Len(s) : i <= j => f[i] <= f[j]
    /\ \A i \in 1..Len(s) :
           /\ s[i].item # "header" => f[i] = f[i - 1]
           /\ s[i].item = "header" => f[i] = f[i - 1] + 1 /\ s[i].request = q[f[i]]

\* A client's item that is no request leaves the order.
LEMMA OrderedAppend ==
    ASSUME NEW s \in Seq(Item), NEW q \in Seq(Request), NEW taken \in {0, 1},
           NEW x \in Item, x.item # "header",
           NEW f, Ordered(f, s, q, taken)
    PROVE  \E g : Ordered(g, Append(s, x), q, taken)
<1> DEFINE n == Len(s)
           t == Append(s, x)
           g == [i \in 0..n + 1 |-> IF i <= n THEN f[i] ELSE Len(q)]
<1>1. /\ n \in Nat /\ Len(t) = n + 1 /\ Len(q) \in Nat
      /\ t[n + 1] = x /\ \A i \in 1..n : t[i] = s[i]
  OBVIOUS
<1>2. /\ f \in [0..n -> 0..Len(q)] /\ f[0] = taken /\ f[n] = Len(q)
      /\ \A i, j \in 0..n : i <= j => f[i] <= f[j]
      /\ \A i \in 1..n :
             /\ s[i].item # "header" => f[i] = f[i - 1]
             /\ s[i].item = "header" => f[i] = f[i - 1] + 1 /\ s[i].request = q[f[i]]
  BY DEF Ordered
<1>3. g[n + 1] = Len(q) /\ \A i \in 0..n : g[i] = f[i]
  BY <1>1
<1>4. g \in [0..n + 1 -> 0..Len(q)]
  BY <1>1, <1>2
<1> HIDE DEF n, t, g
<1>5. \A i, j \in 0..n + 1 : i <= j => g[i] <= g[j]
  BY <1>1, <1>2, <1>3
<1>6. \A i \in 1..n + 1 :
           /\ t[i].item # "header" => g[i] = g[i - 1]
           /\ t[i].item = "header" => g[i] = g[i - 1] + 1 /\ t[i].request = q[g[i]]
  <2> TAKE i \in 1..n + 1
  <2>1. CASE i = n + 1
    BY <1>1, <1>2, <1>3, <2>1
  <2>2. CASE i # n + 1
    <3>1. i \in 1..n /\ i - 1 \in 0..n /\ i \in 0..n
      BY <1>1, <2>2
    <3> QED
      BY <1>1, <1>2, <1>3, <3>1, ZenonT(120)
  <2> QED
    BY <2>1, <2>2
<1>7. Ordered(g, t, q, taken)
  BY <1>1, <1>2, <1>3, <1>4, <1>5, <1>6 DEF Ordered
<1> QED
  BY <1>7 DEF t

\* A request is the last in both orders.
LEMMA OrderedRequest ==
    ASSUME NEW s \in Seq(Item), NEW q \in Seq(Request), NEW taken \in {0, 1},
           NEW r \in Request,
           NEW f, Ordered(f, s, q, taken)
    PROVE  \E g : Ordered(g, Append(s, Header(r)), Append(q, r), taken)
<1> DEFINE n == Len(s)
           m == Len(q)
           t == Append(s, Header(r))
           p == Append(q, r)
           g == [i \in 0..n + 1 |-> IF i <= n THEN f[i] ELSE m + 1]
<1>1. Header(r) \in Item /\ Header(r).item = "header" /\ Header(r).request = r
  BY ItemTypes DEF Header
<1>2. /\ n \in Nat /\ Len(t) = n + 1 /\ t[n + 1] = Header(r)
      /\ \A i \in 1..n : t[i] = s[i]
  BY <1>1
<1>3. /\ m \in Nat /\ Len(p) = m + 1 /\ p[m + 1] = r
      /\ \A i \in 1..m : p[i] = q[i]
  OBVIOUS
<1>4. /\ f \in [0..n -> 0..m] /\ f[0] = taken /\ f[n] = m
      /\ \A i, j \in 0..n : i <= j => f[i] <= f[j]
      /\ \A i \in 1..n :
             /\ s[i].item # "header" => f[i] = f[i - 1]
             /\ s[i].item = "header" => f[i] = f[i - 1] + 1 /\ s[i].request = q[f[i]]
  BY DEF Ordered
<1>5. g[n + 1] = m + 1 /\ \A i \in 0..n : g[i] = f[i]
  BY <1>2
<1>6. g \in [0..n + 1 -> 0..m + 1]
  BY <1>2, <1>3, <1>4
<1> HIDE DEF n, m, t, p, g
<1>7. \A i, j \in 0..n + 1 : i <= j => g[i] <= g[j]
  BY <1>2, <1>3, <1>4, <1>5
<1>8. \A i \in 1..n + 1 :
           /\ t[i].item # "header" => g[i] = g[i - 1]
           /\ t[i].item = "header" => g[i] = g[i - 1] + 1 /\ t[i].request = p[g[i]]
  <2> TAKE i \in 1..n + 1
  <2>1. CASE i = n + 1
    BY <1>1, <1>2, <1>3, <1>4, <1>5, <2>1
  <2>2. CASE i # n + 1
    <3>1. i \in 1..n /\ i - 1 \in 0..n /\ i \in 0..n
      BY <1>2, <2>2
    <3>2. t[i] = s[i] /\ g[i] = f[i] /\ g[i - 1] = f[i - 1]
      BY <1>2, <1>5, <3>1
    <3>3. f[i] \in 0..m /\ f[i - 1] \in 0..m
      BY <1>4, <3>1
    <3>4. CASE s[i].item = "header"
      <4>1. f[i] = f[i - 1] + 1 /\ s[i].request = q[f[i]]
        BY <1>4, <3>1, <3>4
      <4>2. f[i] \in 1..m
        BY <1>3, <3>3, <4>1
      <4> QED
        BY <1>3, <3>2, <3>4, <4>1, <4>2
    <3>5. CASE s[i].item # "header"
      BY <1>4, <3>1, <3>2, <3>5
    <3> QED
      BY <3>4, <3>5
  <2> QED
    BY <2>1, <2>2
<1>9. Ordered(g, t, p, taken)
  BY <1>2, <1>3, <1>4, <1>5, <1>6, <1>7, <1>8 DEF Ordered
<1> QED
  BY <1>9 DEF t, p

\* The server takes the first item out: the order moves by one position.
LEMMA OrderedTail ==
    ASSUME NEW s \in Seq(Item), NEW q \in Seq(Request), NEW taken \in {0, 1},
           s # <<>>,
           NEW f, Ordered(f, s, q, taken)
    PROVE  /\ \E g : Ordered(g, Tail(s), q, f[1])
           /\ Head(s).item # "header" => f[1] = taken
           /\ Head(s).item = "header" =>
                  f[1] = taken + 1 /\ q # <<>> /\ Head(s).request = q[taken + 1]
<1> DEFINE n == Len(s) - 1
           m == Len(q)
           t == Tail(s)
           g == [i \in 0..n |-> f[i + 1]]
<1>1. /\ n \in Nat /\ Len(s) = n + 1 /\ Len(t) = n /\ \A i \in 1..n : t[i] = s[i + 1]
      /\ Head(s) = s[1] /\ m \in Nat
  OBVIOUS
<1>2. /\ f \in [0..n + 1 -> 0..m] /\ f[0] = taken /\ f[n + 1] = m
      /\ \A i, j \in 0..n + 1 : i <= j => f[i] <= f[j]
      /\ \A i \in 1..n + 1 :
             /\ s[i].item # "header" => f[i] = f[i - 1]
             /\ s[i].item = "header" => f[i] = f[i - 1] + 1 /\ s[i].request = q[f[i]]
  BY <1>1 DEF Ordered
<1>3. /\ \A i \in 0..n : g[i] = f[i + 1]
      /\ \A i \in 0..n : i + 1 \in 0..n + 1
  BY <1>1
<1>4. g \in [0..n -> 0..m]
  BY <1>1, <1>2
<1> HIDE DEF n, m, t, g
<1>5. \A i, j \in 0..n : i <= j => g[i] <= g[j]
  BY <1>1, <1>2, <1>3
<1>6. \A i \in 1..n :
           /\ t[i].item # "header" => g[i] = g[i - 1]
           /\ t[i].item = "header" => g[i] = g[i - 1] + 1 /\ t[i].request = q[g[i]]
  <2> TAKE i \in 1..n
  <2>1. /\ i + 1 \in 1..n + 1 /\ i \in 0..n /\ i - 1 \in 0..n
        /\ (i + 1) - 1 = i /\ (i - 1) + 1 = i
    BY <1>1
  <2>2. g[i] = f[i + 1] /\ g[i - 1] = f[i] /\ t[i] = s[i + 1]
    BY <1>1, <1>3, <2>1
  <2>3. /\ s[i + 1].item # "header" => f[i + 1] = f[i]
        /\ s[i + 1].item = "header" => f[i + 1] = f[i] + 1 /\ s[i + 1].request = q[f[i + 1]]
    BY <1>2, <2>1
  <2> QED
    BY <2>2, <2>3
<1>7. g[0] = f[1] /\ g[n] = m
  <2>1. 0 \in 0..n /\ n \in 0..n /\ 0 + 1 = 1
    BY <1>1
  <2>2. g[0] = f[0 + 1] /\ g[n] = f[n + 1]
    BY <1>3, <2>1
  <2> QED
    BY <1>2, <2>1, <2>2
<1>8. Ordered(g, t, q, f[1])
  BY <1>1, <1>4, <1>5, <1>6, <1>7 DEF Ordered, m
<1>9. /\ s[1].item # "header" => f[1] = taken
      /\ s[1].item = "header" => f[1] = taken + 1 /\ s[1].request = q[f[1]]
  <2>1. 1 \in 1..n + 1 /\ 1 - 1 = 0
    BY <1>1
  <2> QED
    BY <1>2, <2>1
<1>10. s[1].item = "header" => q # <<>>
  <2> SUFFICES ASSUME s[1].item = "header", q = <<>> PROVE FALSE
    OBVIOUS
  <2>1. m = 0 /\ f[1] \in 0..m
    BY <1>1, <1>2 DEF m
  <2> QED
    BY <1>9, <2>1
<1> QED
  BY <1>1, <1>8, <1>9, <1>10 DEF t

\* A reply takes the first request off the order.
LEMMA OrderedReply ==
    ASSUME NEW s \in Seq(Item), NEW q \in Seq(Request), q # <<>>,
           NEW f, Ordered(f, s, q, 1)
    PROVE  \E g : Ordered(g, s, Tail(q), 0)
<1> DEFINE n == Len(s)
           m == Len(q) - 1
           p == Tail(q)
           g == [i \in 0..n |-> f[i] - 1]
<1>1. /\ n \in Nat /\ m \in Nat /\ Len(q) = m + 1 /\ Len(p) = m
      /\ \A i \in 1..m : p[i] = q[i + 1]
  OBVIOUS
<1>2. /\ f \in [0..n -> 0..m + 1] /\ f[0] = 1 /\ f[n] = m + 1
      /\ \A i, j \in 0..n : i <= j => f[i] <= f[j]
      /\ \A i \in 1..n :
             /\ s[i].item # "header" => f[i] = f[i - 1]
             /\ s[i].item = "header" => f[i] = f[i - 1] + 1 /\ s[i].request = q[f[i]]
  BY <1>1 DEF Ordered
<1>3. \A i \in 0..n : f[i] \in 1..m + 1 /\ f[i] - 1 \in 0..m
  BY <1>1, <1>2
<1>4. g \in [0..n -> 0..m] /\ \A i \in 0..n : g[i] = f[i] - 1
  BY <1>3
<1> HIDE DEF n, m, p, g
<1>5. \A i, j \in 0..n : i <= j => g[i] <= g[j]
  BY <1>1, <1>2, <1>3, <1>4
<1>6. \A i \in 1..n :
           /\ s[i].item # "header" => g[i] = g[i - 1]
           /\ s[i].item = "header" => g[i] = g[i - 1] + 1 /\ s[i].request = p[g[i]]
  <2> TAKE i \in 1..n
  <2>1. i \in 0..n /\ i - 1 \in 0..n
    BY <1>1
  <2>2. g[i] = f[i] - 1 /\ g[i - 1] = f[i - 1] - 1
    BY <1>4, <2>1
  <2>3. f[i] \in 1..m + 1 /\ f[i - 1] \in 1..m + 1
    BY <1>3, <2>1
  <2>4. CASE s[i].item = "header"
    <3>1. f[i] = f[i - 1] + 1 /\ s[i].request = q[f[i]]
      BY <1>2, <2>4
    <3>2. g[i] \in 1..m /\ g[i] + 1 = f[i] /\ g[i] = g[i - 1] + 1
      BY <1>1, <2>2, <2>3, <3>1
    <3> QED
      BY <1>1, <2>4, <3>1, <3>2
  <2>5. CASE s[i].item # "header"
    BY <1>2, <2>2, <2>5
  <2> QED
    BY <2>4, <2>5
<1>7. g[0] = 0 /\ g[n] = m
  <2>1. 0 \in 0..n /\ n \in 0..n /\ 1 - 1 = 0 /\ (m + 1) - 1 = m
    BY <1>1
  <2> QED
    BY <1>2, <1>4, <2>1
<1>8. Ordered(g, s, p, 0)
  BY <1>1, <1>4, <1>5, <1>6, <1>7 DEF Ordered, n
<1> QED
  BY <1>8 DEF p

-----------------------------------------------------------------------------
(* The framing of a stream.                                                *)

NeedsPayload(x) ==
    x.item = "header" /\ x.request.kind.command \in {"write", "oversized"}

\* A payload follows exactly the headers that announce one; the server expects
\* one first, and the client owes one last.
Framed(s, expected, owed) ==
    /\ \A i \in 1..Len(s) - 1 : s[i + 1].item = "payload" <=> NeedsPayload(s[i])
    /\ s = <<>> => (owed <=> expected)
    /\ s # <<>> => /\ s[1].item = "payload" <=> expected
                   /\ NeedsPayload(s[Len(s)]) <=> owed

\* The negotiation is the first item, of a connection that negotiates.
Greets(s, negotiating) ==
    /\ \A i \in 1..Len(s) : s[i].item = "hello" => i = 1 /\ negotiating
    /\ s # <<>> /\ negotiating => s[1].item = "hello"

\* The client appends a payload exactly if it owes one.
LEMMA FramedAppend ==
    ASSUME NEW s \in Seq(Item), NEW x \in Item,
           NEW expected \in BOOLEAN, NEW owed \in BOOLEAN,
           Framed(s, expected, owed), x.item = "payload" <=> owed
    PROVE  Framed(Append(s, x), expected, NeedsPayload(x))
<1> DEFINE n == Len(s)
           t == Append(s, x)
<1>1. /\ n \in Nat /\ Len(t) = n + 1 /\ t # <<>> /\ t[n + 1] = x
      /\ \A i \in 1..n : t[i] = s[i]
      /\ s = <<>> <=> n = 0
  OBVIOUS
<1>2. /\ \A i \in 1..n - 1 : s[i + 1].item = "payload" <=> NeedsPayload(s[i])
      /\ s = <<>> => (owed <=> expected)
      /\ s # <<>> => /\ s[1].item = "payload" <=> expected
                     /\ NeedsPayload(s[n]) <=> owed
  BY DEF Framed
<1> HIDE DEF n, t
<1>3. \A i \in 1..(n + 1) - 1 : t[i + 1].item = "payload" <=> NeedsPayload(t[i])
  <2> TAKE i \in 1..(n + 1) - 1
  <2>1. CASE i = n
    <3>1. n # 0 /\ t[n] = s[n]
      BY <1>1, <2>1
    <3> QED
      BY <1>1, <1>2, <2>1, <3>1
  <2>2. CASE i # n
    <3>1. i \in 1..n - 1 /\ i \in 1..n /\ i + 1 \in 1..n
      BY <1>1, <2>2
    <3> QED
      BY <1>1, <1>2, <3>1
  <2> QED
    BY <2>1, <2>2
<1>4. t[1].item = "payload" <=> expected
  <2>1. CASE n = 0
    BY <1>1, <1>2, <2>1
  <2>2. CASE n # 0
    <3>1. 1 \in 1..n
      BY <1>1, <2>2
    <3> QED
      BY <1>1, <1>2, <2>2, <3>1
  <2> QED
    BY <2>1, <2>2
<1>5. Framed(t, expected, NeedsPayload(x))
  BY <1>1, <1>3, <1>4 DEF Framed
<1> QED
  BY <1>5 DEF t

\* The server takes an item out and then expects what that item announces.
LEMMA FramedTail ==
    ASSUME NEW s \in Seq(Item), s # <<>>,
           NEW expected \in BOOLEAN, NEW owed \in BOOLEAN,
           Framed(s, expected, owed)
    PROVE  Framed(Tail(s), NeedsPayload(Head(s)), owed)
<1> DEFINE n == Len(s) - 1
           t == Tail(s)
<1>1. /\ n \in Nat /\ Len(s) = n + 1 /\ Len(t) = n /\ Head(s) = s[1]
      /\ \A i \in 1..n : t[i] = s[i + 1]
      /\ t = <<>> <=> n = 0
  <2>1. /\ n \in Nat /\ Len(s) = n + 1 /\ Len(t) = n /\ Head(s) = s[1]
        /\ \A i \in 1..n : t[i] = s[i + 1]
        /\ t \in Seq(Item)
    OBVIOUS
  <2>2. \A u \in Seq(Item) : u = <<>> <=> Len(u) = 0
    OBVIOUS
  <2> HIDE DEF n, t
  <2> QED
    BY <2>1, <2>2
<1>2. /\ \A i \in 1..n : s[i + 1].item = "payload" <=> NeedsPayload(s[i])
      /\ NeedsPayload(s[n + 1]) <=> owed
  <2>1. (n + 1) - 1 = n
    BY <1>1
  <2> QED
    BY <1>1, <2>1 DEF Framed
<1> HIDE DEF n, t
<1>3. \A i \in 1..n - 1 : t[i + 1].item = "payload" <=> NeedsPayload(t[i])
  <2> TAKE i \in 1..n - 1
  <2>1. i + 1 \in 1..n /\ i \in 1..n
    BY <1>1
  <2> QED
    BY <1>1, <1>2, <2>1
<1>4. n = 0 => (owed <=> NeedsPayload(s[1]))
  BY <1>2
<1>5. ASSUME n # 0
      PROVE  /\ t[1].item = "payload" <=> NeedsPayload(s[1])
             /\ NeedsPayload(t[n]) <=> owed
  <2>1. 1 \in 1..n /\ n \in 1..n /\ 1 + 1 = 2
    BY <1>1, <1>5
  <2> QED
    BY <1>1, <1>2, <2>1
<1>6. Framed(t, NeedsPayload(s[1]), owed)
  BY <1>1, <1>3, <1>4, <1>5 DEF Framed
<1> QED
  BY <1>1, <1>6 DEF t

\* Nothing but the first item of a negotiation is one.
LEMMA GreetsAppend ==
    ASSUME NEW s \in Seq(Item), NEW x \in Item, NEW negotiating \in BOOLEAN,
           Greets(s, negotiating),
           x.item = "hello" <=> s = <<>> /\ negotiating
    PROVE  Greets(Append(s, x), negotiating)
<1> DEFINE n == Len(s)
           t == Append(s, x)
<1>1. /\ n \in Nat /\ Len(t) = n + 1 /\ t[n + 1] = x
      /\ \A i \in 1..n : t[i] = s[i]
      /\ s = <<>> <=> n = 0
  OBVIOUS
<1> HIDE DEF n, t
<1>2. \A i \in 1..n : s[i].item = "hello" => i = 1 /\ negotiating
  BY DEF Greets, n
<1>3. \A i \in 1..n + 1 : t[i].item = "hello" => i = 1 /\ negotiating
  <2> TAKE i \in 1..n + 1
  <2>1. CASE i = n + 1
    BY <1>1, <2>1
  <2>2. CASE i # n + 1
    <3>1. i \in 1..n
      BY <1>1, <2>2
    <3> QED
      BY <1>1, <1>2, <3>1
  <2> QED
    BY <2>1, <2>2
<1>4. negotiating => t[1].item = "hello"
  <2>1. CASE n = 0
    BY <1>1, <2>1
  <2>2. CASE n # 0
    <3>1. 1 \in 1..n
      BY <1>1, <2>2
    <3> QED
      BY <1>1, <2>2, <3>1 DEF Greets
  <2> QED
    BY <2>1, <2>2
<1> QED
  BY <1>1, <1>3, <1>4 DEF Greets, t

\* What follows the first item is no negotiation.
LEMMA GreetsTail ==
    ASSUME NEW s \in Seq(Item), s # <<>>, NEW negotiating \in BOOLEAN,
           Greets(s, negotiating)
    PROVE  Greets(Tail(s), FALSE)
<1>1. \A i \in 1..Len(Tail(s)) : Tail(s)[i] = s[i + 1] /\ i + 1 \in 1..Len(s) /\ i + 1 # 1
  OBVIOUS
<1> QED
  BY <1>1 DEF Greets

-----------------------------------------------------------------------------
(* The invariant.                                                          *)

Taken == IF nbd \in {"payload", "execute", "reply"} THEN 1 ELSE 0

\* Who may send in which phase of a connection.
Phases ==
    /\ peer = None <=> nbd \in {"accept", "stopped"}
    /\ peer = None => stream = <<>> /\ sent = <<>>
    /\ peer = "silent" => nbd = "negotiate" /\ stream = <<>>
    /\ nbd = "negotiate" /\ stream = <<>> => peer \in {"silent", "closed"}

\* The inductive invariant: the stream is framed, and its requests and the one
\* being handled are those the client has outstanding, in their order.
NbdInv ==
    /\ NbdTypeOK
    /\ RepliesInOrder
    /\ \E f : Ordered(f, stream, sent, Taken)
    /\ Framed(stream, nbd = "payload", owes)
    /\ Greets(stream, nbd = "negotiate")
    /\ Phases

\* A connection without traffic, or none.
Fresh ==
    /\ NbdTypeOK
    /\ nbd \in {"accept", "negotiate", "stopped"}
    /\ stream = <<>> /\ sent = <<>> /\ owes = FALSE
    /\ peer = IF nbd = "negotiate" THEN "silent" ELSE None

\* A connection without traffic satisfies the invariant.
LEMMA FreshInv == Fresh => NbdInv
<1> SUFFICES ASSUME Fresh PROVE NbdInv
  OBVIOUS
<1>1. Ordered([i \in 0..0 |-> 0], stream, sent, Taken)
  BY DEF Fresh, Ordered, Taken
<1>2. Framed(stream, nbd = "payload", owes)
  BY DEF Fresh, Framed
<1>3. Greets(stream, nbd = "negotiate")
  BY DEF Fresh, Greets
<1>4. Phases
  BY NbdNoneAssumption DEF Fresh, Phases
<1> QED
  BY <1>1, <1>2, <1>3, <1>4 DEF Fresh, NbdInv, RepliesInOrder

\* A connection that ends or begins satisfies the invariant.
LEMMA EndInv ==
    ASSUME NbdInv, NbdTypeOK',
           EndConnection \/ ProcessEnds \/ ListenerFails \/ Accept
    PROVE  NbdInv'
<1>1. Fresh' => NbdInv'
  BY FreshInv, PTL
<1>2. CASE EndConnection \/ ProcessEnds
  <2>1. Fresh'
    BY <1>2 DEF Fresh, EndConnection, ProcessEnds
  <2> QED
    BY <1>1, <2>1
<1>3. CASE ListenerFails \/ Accept
  <2>1. /\ nbd = "accept" /\ nbd' \in {"stopped", "negotiate"}
        /\ peer' = IF nbd' = "negotiate" THEN "silent" ELSE peer
        /\ UNCHANGED <<stream, sent, owes>>
    BY <1>3 DEF ListenerFails, Accept, conn
  <2>2. peer = None /\ stream = <<>> /\ sent = <<>>
    BY <2>1 DEF NbdInv, Phases
  <2>3. owes = FALSE
    BY <2>1, <2>2 DEF NbdInv, NbdTypeOK, Framed
  <2>4. Fresh'
    BY <2>1, <2>2, <2>3 DEF Fresh
  <2> QED
    BY <1>1, <2>4
<1> QED
  BY <1>2, <1>3

\* What the client sends keeps the invariant.
LEMMA SendInv ==
    ASSUME NbdInv, NbdTypeOK', NEW x \in Item,
           stream' = Append(stream, x),
           nbd' = nbd, current' = current,
           x.item = "payload" <=> owes,
           owes' = NeedsPayload(x),
           x.item = "hello" <=> peer = "silent",
           peer \in {"silent", "open"}, peer' \in {"open", "finished"},
           \/ x.item # "header" /\ sent' = sent
           \/ \E r \in Request : x = Header(r) /\ sent' = Append(sent, r)
    PROVE  NbdInv'
<1>1. stream \in Seq(Item) /\ sent \in Seq(Request) /\ owes \in BOOLEAN
  BY DEF NbdInv, NbdTypeOK
<1>2. Taken \in {0, 1} /\ Taken' = Taken
  BY DEF Taken
<1>3. PICK f : Ordered(f, stream, sent, Taken)
  BY DEF NbdInv
<1>4. \E g : Ordered(g, stream', sent', Taken')
  <2>1. CASE x.item # "header" /\ sent' = sent
    BY <1>1, <1>2, <1>3, <2>1, OrderedAppend
  <2>2. CASE \E r \in Request : x = Header(r) /\ sent' = Append(sent, r)
    BY <1>1, <1>2, <1>3, <2>2, OrderedRequest
  <2> QED
    BY <2>1, <2>2
<1>5. Framed(stream', nbd' = "payload", owes')
  <2>1. Framed(stream, nbd = "payload", owes) /\ (nbd = "payload") \in BOOLEAN
    BY DEF NbdInv
  <2> QED
    BY <1>1, <2>1, FramedAppend, ZenonT(120)
<1>6. Greets(stream', nbd' = "negotiate")
  <2>1. Greets(stream, nbd = "negotiate") /\ (nbd = "negotiate") \in BOOLEAN
    BY DEF NbdInv
  <2>2. peer = "silent" <=> stream = <<>> /\ nbd = "negotiate"
    BY DEF NbdInv, Phases
  <2> QED
    BY <1>1, <2>1, <2>2, GreetsAppend, ZenonT(120)
<1>7. RepliesInOrder'
  <2>1. sent # <<>> => sent' # <<>> /\ Head(sent') = Head(sent)
    BY <1>1
  <2> QED
    BY <2>1 DEF NbdInv, RepliesInOrder
<1>8. stream' # <<>>
  BY <1>1
<1>9. peer' # None /\ peer # None /\ peer' # "silent"
  BY NbdNoneAssumption
<1>10. Phases'
  BY <1>8, <1>9 DEF NbdInv, Phases
<1> QED
  BY <1>4, <1>5, <1>6, <1>7, <1>10 DEF NbdInv

\* What the first item is, in each phase of the server.
LEMMA HeadItem ==
    ASSUME NbdInv, stream # <<>>
    PROVE  /\ Head(stream) \in Item
           /\ nbd = "negotiate" <=> Head(stream).item = "hello"
           /\ nbd = "payload" <=> Head(stream).item = "payload"
<1>1. Head(stream) = stream[1] /\ stream[1] \in Item /\ 1 \in 1..Len(stream)
  BY DEF NbdInv, NbdTypeOK
<1>2. nbd = "negotiate" <=> stream[1].item = "hello"
  BY <1>1 DEF NbdInv, Greets
<1>3. nbd = "payload" <=> stream[1].item = "payload"
  BY DEF NbdInv, Framed
<1> QED
  BY <1>1, <1>2, <1>3

\* What the server takes out of the stream keeps the invariant.
LEMMA TakeInv ==
    ASSUME NbdInv, NbdTypeOK', RepliesInOrder',
           stream # <<>>, stream' = Tail(stream), UNCHANGED <<peer, owes, sent>>,
           nbd \notin {"accept", "stopped"},
           nbd' \in {"header", "payload", "execute"},
           nbd' = "payload" <=> NeedsPayload(Head(stream)),
           Taken' = IF Head(stream).item = "header" THEN Taken + 1 ELSE Taken
    PROVE  NbdInv'
<1>1. stream \in Seq(Item) /\ sent \in Seq(Request) /\ owes \in BOOLEAN
  BY DEF NbdInv, NbdTypeOK
<1>2. Taken \in {0, 1}
  BY DEF Taken
<1>3. PICK f : Ordered(f, stream, sent, Taken)
  BY DEF NbdInv
<1>4. \E g : Ordered(g, stream', sent', Taken')
  <2>1. /\ \E g : Ordered(g, Tail(stream), sent, f[1])
        /\ Head(stream).item # "header" => f[1] = Taken
        /\ Head(stream).item = "header" => f[1] = Taken + 1
    BY <1>1, <1>2, <1>3, OrderedTail
  <2>2. f[1] = Taken'
    BY <2>1
  <2> QED
    BY <2>1, <2>2
<1>5. Framed(stream', nbd' = "payload", owes')
  <2>1. Framed(stream, nbd = "payload", owes) /\ (nbd = "payload") \in BOOLEAN
    BY DEF NbdInv
  <2>2. Framed(Tail(stream), NeedsPayload(Head(stream)), owes)
    BY <1>1, <2>1, FramedTail, ZenonT(120)
  <2> QED
    BY <2>2 DEF Framed
<1>6. Greets(stream', nbd' = "negotiate")
  <2>1. Greets(stream, nbd = "negotiate") /\ (nbd = "negotiate") \in BOOLEAN
    BY DEF NbdInv
  <2>2. Greets(Tail(stream), FALSE)
    BY <1>1, <2>1, GreetsTail, ZenonT(120)
  <2> QED
    BY <2>2 DEF Greets
<1>7. Phases'
  BY DEF NbdInv, Phases
<1> QED
  BY <1>4, <1>5, <1>6, <1>7 DEF NbdInv

\* A handled request's reply is prepared: the connection is left alone.
LEMMA FinishInv ==
    ASSUME NbdInv, NbdTypeOK', nbd = "execute", Finish
    PROVE  NbdInv'
<1>1. nbd' = "reply" /\ UNCHANGED <<peer, stream, owes, sent, current>>
  BY DEF Finish, conn
<1>2. Taken' = Taken
  BY <1>1 DEF Taken
<1>3. RepliesInOrder' /\ Phases'
  BY <1>1 DEF NbdInv, RepliesInOrder, Phases
<1>4. Framed(stream', nbd' = "payload", owes')
  BY <1>1 DEF NbdInv, Framed
<1>5. Greets(stream', nbd' = "negotiate")
  BY <1>1 DEF NbdInv, Greets
<1> QED
  BY <1>1, <1>2, <1>3, <1>4, <1>5 DEF NbdInv

\* A step that leaves the connection's items alone keeps the invariant.
LEMMA IdleInv ==
    ASSUME NbdInv, NbdTypeOK', UNCHANGED <<nbd, stream, owes, sent, current>>,
           peer' = peer \/ (peer # None /\ peer' = "closed")
    PROVE  NbdInv'
<1>1. Taken' = Taken
  BY DEF Taken
<1>2. Phases'
  BY NbdNoneAssumption DEF NbdInv, Phases
<1>3. RepliesInOrder'
  BY DEF NbdInv, RepliesInOrder
<1> QED
  BY <1>1, <1>2, <1>3 DEF NbdInv

\* A reply keeps the invariant.
LEMMA ReplyInv ==
    ASSUME NbdInv, NbdTypeOK', nbd = "reply", nbd' = "header", sent' = Tail(sent),
           UNCHANGED <<peer, stream, owes>>
    PROVE  NbdInv'
<1>1. stream \in Seq(Item) /\ sent \in Seq(Request) /\ sent # <<>>
  BY DEF NbdInv, NbdTypeOK, RepliesInOrder
<1>2. Taken = 1 /\ Taken' = 0
  BY DEF Taken
<1>3. PICK f : Ordered(f, stream, sent, 1)
  BY <1>2 DEF NbdInv
<1>4. \E g : Ordered(g, stream', sent', Taken')
  BY <1>1, <1>2, <1>3, OrderedReply
<1>5. Framed(stream', nbd' = "payload", owes')
  BY DEF NbdInv, Framed
<1>6. Greets(stream', nbd' = "negotiate")
  BY DEF NbdInv, Greets
<1>7. RepliesInOrder' /\ Phases'
  BY DEF NbdInv, RepliesInOrder, Phases
<1> QED
  BY <1>4, <1>5, <1>6, <1>7 DEF NbdInv

\* Every step keeps the invariant.
LEMMA NbdNextInv == NbdInv /\ [NbdNext]_<<state, nbdVars>> => NbdInv'
<1> SUFFICES ASSUME NbdInv, [NbdNext]_<<state, nbdVars>> PROVE NbdInv'
  OBVIOUS
<1>0. NbdTypeOK'
  BY NbdNextType DEF NbdInv
<1>1. CASE EndConnection \/ ProcessEnds \/ ListenerFails \/ Accept
  BY <1>0, <1>1, EndInv
<1>2. CASE UNCHANGED <<state, nbdVars>> \/ EngineMoves \/ PeerCloses \/ PeerReads
  BY <1>0, <1>2, IdleInv, NbdNoneAssumption
  DEF nbdVars, conn, EngineMoves, PeerCloses, PeerReads
<1>3. ASSUME NEW ok \in BOOLEAN, SendHello(ok) PROVE NbdInv'
  <2>1. Hello(ok) \in Item /\ Hello(ok).item = "hello" /\ ~NeedsPayload(Hello(ok))
    BY ItemTypes DEF Hello, NeedsPayload
  <2>2. peer = "silent" /\ peer' = "open" /\ stream' = Append(stream, Hello(ok))
        /\ UNCHANGED <<nbd, owes, sent, current>>
    BY <1>3 DEF SendHello
  <2>3. owes = FALSE
    BY <2>2 DEF NbdInv, NbdTypeOK, Phases, Framed
  <2>4. owes' = NeedsPayload(Hello(ok))
    BY <2>1, <2>2, <2>3, ZenonT(120) DEF NeedsPayload
  <2> QED
    BY <1>0, <2>1, <2>2, <2>3, <2>4, SendInv
<1>4. ASSUME NEW r \in Request, SendRequest(r) PROVE NbdInv'
  <2>1. Header(r) \in Item /\ Header(r).item = "header"
        /\ (NeedsPayload(Header(r)) <=> r.kind.command \in {"write", "oversized"})
    BY ItemTypes DEF Header, NeedsPayload
  <2>2. peer = "open" /\ peer' = "open" /\ stream' = Append(stream, Header(r))
        /\ sent' = Append(sent, r) /\ UNCHANGED <<nbd, current>>
        /\ ~owes /\ (owes' <=> r.kind.command \in {"write", "oversized"})
    BY <1>4, ZenonT(120) DEF SendRequest
  <2>3. owes' = NeedsPayload(Header(r))
    <3>1. owes' \in BOOLEAN /\ NeedsPayload(Header(r)) \in BOOLEAN
      BY <1>0 DEF NbdTypeOK, NeedsPayload
    <3> QED
      BY <2>1, <2>2, <3>1
  <2> QED
    BY <1>0, <2>1, <2>2, <2>3, SendInv
<1>5. CASE SendPayload
  <2>1. Payload \in Item /\ Payload.item = "payload" /\ ~NeedsPayload(Payload)
    BY ItemTypes DEF Payload, NeedsPayload
  <2>2. peer = "open" /\ peer' = "open" /\ stream' = Append(stream, Payload)
        /\ UNCHANGED <<nbd, sent, current>> /\ owes /\ owes' = FALSE
    BY <1>5 DEF SendPayload
  <2>3. owes' = NeedsPayload(Payload)
    BY <2>1, <2>2, ZenonT(120) DEF NeedsPayload
  <2> QED
    BY <1>0, <2>1, <2>2, <2>3, SendInv
<1>6. ASSUME NEW x \in {Disc, BadMagic}, SendLast(x) PROVE NbdInv'
  <2>1. x \in Item /\ x.item \in {"disc", "bad magic"}
    <3>1. Disc.item = "disc" /\ BadMagic.item = "bad magic"
      BY ZenonT(120) DEF Disc, BadMagic
    <3>2. x = Disc \/ x = BadMagic
      OBVIOUS
    <3> QED
      BY <3>1, <3>2, ItemTypes, ZenonT(120)
  <2>2. peer = "open" /\ peer' = "finished" /\ stream' = Append(stream, x)
        /\ UNCHANGED <<nbd, sent, current>> /\ ~owes /\ owes' = owes
    BY <1>6 DEF SendLast
  <2>3. owes = FALSE
    BY <2>2 DEF NbdInv, NbdTypeOK
  <2>4. owes' = NeedsPayload(x)
    BY <2>1, <2>2, <2>3, ZenonT(120) DEF NeedsPayload
  <2> QED
    BY <1>0, <2>1, <2>2, <2>3, <2>4, SendInv, ZenonT(120)
<1>7. CASE Negotiate /\ ~EndConnection
  <2>1. /\ nbd = "negotiate" /\ stream # <<>> /\ nbd' = "header" /\ stream' = Tail(stream)
        /\ UNCHANGED <<peer, owes, sent, current>>
    BY <1>7 DEF Negotiate
  <2>2. Head(stream).item = "hello" /\ ~NeedsPayload(Head(stream))
    BY <2>1, HeadItem DEF NeedsPayload
  <2>3. Taken' = Taken /\ RepliesInOrder'
    BY <2>1 DEF Taken, RepliesInOrder
  <2> QED
    BY <1>0, <2>1, <2>2, <2>3, TakeInv
<1>8. CASE RecvHeader /\ ~EndConnection
  <2>1. /\ nbd = "header" /\ stream # <<>> /\ Head(stream).item = "header"
        /\ Head(stream).request.kind.command # "oversized"
        /\ current' = Head(stream).request /\ stream' = Tail(stream)
        /\ nbd' = IF current'.kind.command = "write" THEN "payload" ELSE "execute"
        /\ UNCHANGED <<peer, owes, sent>>
    BY <1>8 DEF RecvHeader
  <2>2. nbd' = "payload" <=> NeedsPayload(Head(stream))
    BY <2>1 DEF NeedsPayload
  <2>3. Taken = 0 /\ Taken' = 1
    BY <2>1 DEF Taken
  <2>4. sent # <<>> /\ current' = Head(sent)
    <3>1. stream \in Seq(Item) /\ sent \in Seq(Request)
      BY DEF NbdInv, NbdTypeOK
    <3>2. PICK f : Ordered(f, stream, sent, 0)
      BY <2>3 DEF NbdInv
    <3>3. sent # <<>> /\ Head(stream).request = sent[0 + 1]
      BY <2>1, <3>1, <3>2, OrderedTail
    <3> QED
      BY <2>1, <3>1, <3>3
  <2>5. RepliesInOrder'
    BY <2>1, <2>4 DEF RepliesInOrder
  <2> QED
    BY <1>0, <2>1, <2>2, <2>3, <2>5, TakeInv
<1>9. CASE RecvPayload
  <2>1. /\ nbd = "payload" /\ stream # <<>> /\ stream' = Tail(stream) /\ nbd' = "execute"
        /\ UNCHANGED <<peer, owes, sent, current>>
    BY <1>9 DEF RecvPayload
  <2>2. Head(stream).item = "payload" /\ ~NeedsPayload(Head(stream))
    BY <2>1, HeadItem DEF NeedsPayload
  <2>3. Taken' = Taken /\ RepliesInOrder'
    BY <2>1 DEF NbdInv, Taken, RepliesInOrder
  <2> QED
    BY <1>0, <2>1, <2>2, <2>3, TakeInv
<1>10. CASE Refuse \/ ReadOrFlush \/ EngineWrite
  <2>1. nbd = "execute" /\ Finish
    BY <1>10 DEF Refuse, ReadOrFlush, EngineWrite, Writing
  <2> QED
    BY <1>0, <2>1, FinishInv
<1>11. CASE Reply \/ ReplyBuffered
  <2>1. nbd = "reply" /\ (Answered \/ EndConnection)
    BY <1>11 DEF Reply, ReplyBuffered
  <2>2. CASE Answered
    BY <1>0, <2>1, <2>2, ReplyInv DEF Answered
  <2> QED
    BY <1>1, <2>1, <2>2
<1>12. CASE NoticeClosed \/ Corrupt
  BY <1>1, <1>12 DEF NoticeClosed, Corrupt
<1> QED
  BY <1>1, <1>2, <1>3, <1>4, <1>5, <1>6, <1>7, <1>8, <1>9, <1>10, <1>11, <1>12
  DEF NbdNext, NbdClient, NbdThread

\* The initial states satisfy the invariant.
LEMMA NbdInitInv == NbdInit => NbdInv
BY NbdInitType, FreshInv DEF NbdInit, Fresh

-----------------------------------------------------------------------------
(* Theorems.                                                               *)

\* The inductive invariant holds throughout, whatever the clients send.
THEOREM NbdInvariant == NbdSpec => []NbdInv
BY NbdInitInv, NbdNextInv, PTL DEF NbdSpec

\* A payload is never taken for a request nor a request for a payload
\* (nbd.py:94), for any set of requests and any pipelining depth.
THEOREM NbdInSync == NbdSpec => []InSync
<1>1. NbdInv => InSync
  <2> SUFFICES ASSUME NbdInv, stream # <<>> PROVE InSync
    BY ZenonT(120) DEF InSync
  <2>1. Head(stream).item \in {"header", "hello", "payload", "disc", "bad magic"}
    BY HeadItem, ZenonT(120) DEF Item
  <2> QED
    BY HeadItem, <2>1, ZenonT(120) DEF InSync
<1> QED
  BY <1>1, NbdInvariant, PTL

\* Requests are answered in the order they were sent, none twice and none
\* skipped (nbd.py:119), for any set of requests and any pipelining depth.
THEOREM NbdRepliesInOrder == NbdSpec => []RepliesInOrder
<1>1. NbdInv => RepliesInOrder
  BY DEF NbdInv
<1> QED
  BY <1>1, NbdInvariant, PTL

-----------------------------------------------------------------------------
(* The answers of the control socket.                                      *)

\* The states an accepted command leads to, and those other threads can then
\* move the engine to.
Reached(c, s) ==
    /\ c = "authorize" => s = "recovery_read_only"
    /\ c = "maintenance" => s = "maintenance"
    /\ c \in {"exit-maintenance", "exit-maintenance compact"}
        => s \in {"normal", "elevated", "contained"}

\* While a success is composed into an answer the engine is in a state its
\* command led to, and so is the state that the answer names.
AnswerInv ==
    /\ unix = "compose" /\ result = "success" => Reached(command, state)
    /\ answer # None =>
           /\ unix = "close"
           /\ answer.ok => Reached(answer.command, answer.state)
    /\ unix = "done" => answer = None

\* A success that is composed is true of the engine it was returned with.
LEMMA CommandInv ==
    ASSUME AnswerInv, HandleCommand
    PROVE  AnswerInv'
<1>1. unix = "execute" /\ UNCHANGED <<command, answer>> /\ unix' \in {"compose", "close"}
  BY ZenonT(120) DEF HandleCommand
<1>2. answer' = None
  BY <1>1 DEF AnswerInv
<1> DEFINE Good == result' = "success" => Reached(command, state')
<1>3. ASSUME command \in {"status", "unknown", "compact"} PROVE Good
  BY <1>3 DEF Reached
<1>4. ASSUME NEW from, NEW target, Reached(command, target), TokenCall(from, target)
      PROVE  Good
  BY <1>4 DEF TokenCall, Return, Moves
<1>5. ASSUME command \in {"exit-maintenance", "exit-maintenance compact"},
             ExitMaintenance(FALSE) \/ ExitMaintenance(TRUE)
      PROVE  Good
  BY <1>5 DEF ExitMaintenance, Return, Moves, Reached
<1>6. Good
  <2>1. command = "authorize" => Reached(command, "recovery_read_only")
    BY DEF Reached
  <2>2. command = "maintenance" => Reached(command, "maintenance")
    BY DEF Reached
  <2> HIDE DEF Good
  <2> QED
    BY <1>3, <1>4, <1>5, <2>1, <2>2 DEF HandleCommand
<1> QED
  BY <1>1, <1>2, <1>6 DEF AnswerInv

\* The NBD thread moves an engine that is normal or elevated, and to a state an
\* exit from maintenance may already be followed by.
LEMMA ThreadMoves ==
    ASSUME NbdThread, NEW c, Reached(c, state)
    PROVE  Reached(c, state')
<1>1. CASE UNCHANGED state
  BY <1>1
<1>2. CASE EngineWrite
  BY <1>2, ZenonT(120) DEF EngineWrite, Writing, Reached
<1> QED
  BY <1>1, <1>2
  DEF NbdThread, Negotiate, NoticeClosed, RecvHeader, RecvPayload, Refuse, ReadOrFlush,
      Corrupt, Reply, Answered, EndConnection

\* Every step keeps the answers true.
LEMMA AnswerNext ==
    ASSUME AnswerInv, [Next]_vars
    PROVE  AnswerInv'
<1>1. CASE UNCHANGED <<state, unix, command, result, answer>>
  BY <1>1 DEF AnswerInv
<1>2. CASE NbdThread /\ UNCHANGED control
  BY <1>2, ThreadMoves DEF control, AnswerInv
<1>3. CASE NbdClient /\ UNCHANGED control
  BY <1>1, <1>3
  DEF NbdClient, control, Accept, SendPayload, PeerCloses, PeerReads, ReplyBuffered,
      Answered, SendHello, SendRequest, SendLast
<1>4. CASE UnixLoop \/ UnixTimeout \/ UnixAccept \/ UnixRecv \/ UnixListenerFails
  BY <1>4 DEF UnixLoop, UnixTimeout, UnixAccept, UnixRecv, UnixListenerFails, AnswerInv
<1>5. ASSUME NEW c \in Commands, ControlSends(c) PROVE AnswerInv'
  BY <1>5 DEF ControlSends, AnswerInv
<1>6. CASE HandleCommand
  BY <1>6, CommandInv
<1>7. CASE UnixCompose
  BY <1>7, ZenonT(120) DEF UnixCompose, AnswerInv, Reached
<1>8. CASE UnixClose
  BY <1>8 DEF UnixClose, AnswerInv
<1>9. CASE Ended
  BY <1>9 DEF Ended, AnswerInv
<1>10. CASE ListenerFails /\ UNCHANGED control
  BY <1>1, <1>10 DEF ListenerFails, control
<1>11. CASE BeginStop \/ Signal \/ UNCHANGED vars
  BY <1>1, <1>11 DEF BeginStop, Signal, control, vars
<1> QED
  BY <1>2, <1>3, <1>4, <1>5, <1>6, <1>7, <1>8, <1>9, <1>10, <1>11
  DEF Next, Clients, NbdStep, UnixStep, MainStep, Stop, Environment

\* The invariant about the answers holds throughout.
LEMMA DaemonAnswers == Spec => []AnswerInv
<1>1. Init => AnswerInv
  BY DEF Init, AnswerInv
<1>2. AnswerInv /\ [Next]_vars => AnswerInv'
  BY AnswerNext
<1> QED
  BY <1>1, <1>2, PTL DEF Spec

\* An answer names the state its command established, although the state is
\* read after the engine's lock was released (service.py:148, 165 and 173) and
\* the NBD thread may write in between.
THEOREM DaemonAnswerNamesState == Spec => []AnswerNamesState
<1>1. AnswerInv => AnswerNamesState
  BY ZenonT(120) DEF AnswerInv, AnswerNamesState, Reached
<1> QED
  BY <1>1, DaemonAnswers, PTL

-----------------------------------------------------------------------------
(* The recovery API: eviction.                                             *)

\* Challenges have distinct identifiers.
Distinct(S) == \A c, d \in S : c.id = d.id => c = d

\* The challenges of S issued after c.
Newer(S, c) == {d \in S : d.id > c.id}

\* A finite set of challenges has an oldest one.
LEMMA Oldest ==
    ASSUME NEW S \in SUBSET Challenge, S # {}
    PROVE  \E c \in S : \A d \in S : c.id <= d.id
<1> DEFINE ids == {c.id : c \in S}
<1>1. ids \subseteq Nat /\ ids # {}
  BY DEF Challenge
<1>2. \E i \in ids : \A j \in ids : ~(<<j, i>> \in OpToRel(<, Nat))
  BY <1>1, NatLessThanWellFounded, WFMin, ZenonT(120)
<1>3. PICK i \in ids : \A j \in ids : ~(j < i)
  BY <1>1, <1>2, ZenonT(120) DEF OpToRel
<1>4. PICK c \in S : c.id = i
  BY <1>3
<1>5. \A d \in S : d.id \in Nat /\ c.id \in Nat /\ ~(d.id < c.id)
  BY <1>1, <1>3, <1>4
<1> QED
  BY <1>4, <1>5

\* Eviction leaves room for one more.
LEMMA EvictedBounded ==
    ASSUME NEW S \in SUBSET Challenge, IsFiniteSet(S), Distinct(S)
    PROVE  /\ IsFiniteSet(Evicted(S))
           /\ Cardinality(Evicted(S)) <= MaxChallenges - 1
<1> DEFINE E == Evicted(S)
<1>1. E \subseteq S /\ IsFiniteSet(E) /\ Cardinality(E) \in Nat
  <2>1. E \in SUBSET S
    BY DEF Evicted
  <2> QED
    BY <2>1, FS_Subset, FS_CardinalityType
<1>2. CASE E = {}
  BY <1>1, <1>2, FS_EmptySet, ApiAssumption
<1>3. CASE E # {}
  <2>1. PICK c \in E : \A d \in E : c.id <= d.id
    BY <1>1, <1>3, Oldest
  <2>2. IsFiniteSet(Newer(S, c)) /\ Cardinality(Newer(S, c)) \in Nat
    <3>1. Newer(S, c) \in SUBSET S
      BY DEF Newer
    <3> QED
      BY <3>1, FS_Subset, FS_CardinalityType
  <2>3. Cardinality(Newer(S, c)) < MaxChallenges - 1
    BY <2>1 DEF Evicted, Newer
  <2>4. E \ {c} \in SUBSET Newer(S, c)
    <3> SUFFICES ASSUME NEW d \in E, d # c PROVE d \in Newer(S, c)
      OBVIOUS
    <3>1. c.id \in Nat /\ d.id \in Nat /\ c.id # d.id /\ c.id <= d.id
      BY <1>1, <2>1 DEF Distinct, Challenge
    <3> QED
      BY <1>1, <3>1 DEF Newer
  <2>5. Cardinality(E \ {c}) <= Cardinality(Newer(S, c))
    BY <2>2, <2>4, FS_Subset
  <2>6. Cardinality(E \ {c}) = Cardinality(E) - 1
    BY <1>1, <2>1, FS_RemoveElement, ZenonT(120)
  <2> QED
    BY <1>1, <2>2, <2>3, <2>5, <2>6, ApiAssumption
<1> QED
  BY <1>1, <1>2, <1>3

\* Fewer challenges are newer than c than were issued after it.
LEMMA NewerBounded ==
    ASSUME NEW S \in SUBSET Challenge, Distinct(S), NEW c \in S,
           NEW n \in Nat, c.id <= n, \A d \in S : d.id <= n
    PROVE  Cardinality(Newer(S, c)) <= n - c.id
<1> DEFINE N == Newer(S, c)
           T == (c.id + 1)..n
           f == [d \in N |-> d.id]
<1>1. c.id \in Nat /\ \A d \in S : d.id \in Nat
  BY DEF Challenge
<1>2. IsFiniteSet(T) /\ Cardinality(T) = n - c.id
  <2>1. c.id + 1 \in Int /\ n \in Int /\ (c.id + 1 > n => n - c.id = 0)
        /\ n - (c.id + 1) + 1 = n - c.id
    BY <1>1
  <2>2. IsFiniteSet(T) /\ Cardinality(T) = IF c.id + 1 > n THEN 0 ELSE n - (c.id + 1) + 1
    BY <2>1, FS_Interval, ZenonT(120)
  <2> QED
    BY <2>1, <2>2
<1>3. \A d \in N : d.id \in T
  BY <1>1 DEF Newer
<1>4. f \in Injection(N, T)
  <2>1. f \in [N -> T]
    BY <1>3
  <2>2. \A d, e \in N : f[d] = f[e] => d = e
    BY DEF Newer, Distinct
  <2> HIDE DEF f, N, T
  <2> QED
    BY <2>1, <2>2 DEF Injection, IsInjective
<1> HIDE DEF f, N, T
<1>5. Cardinality(N) <= Cardinality(T)
  BY <1>2, <1>4, FS_Injection
<1> QED
  BY <1>2, <1>5 DEF N

-----------------------------------------------------------------------------
(* The recovery API: challenges.                                           *)

ChallengesTypeOK ==
    /\ now \in 0..MaxTime
    /\ store \subseteq Challenge
    /\ issued \in 0..MaxIssued
    /\ announced \in [1..MaxIssued -> Nat]
    /\ consumed \subseteq 1..MaxIssued

\* The inductive invariant: what is stored was issued, under its own identifier
\* and not used, and pruning forgets none before its announced expiry.
ChallengesInv ==
    /\ ChallengesTypeOK
    /\ IsFiniteSet(store) /\ Distinct(store)
    /\ \A c \in store : c.id <= issued /\ announced[c.id] <= c.issued_at + Ttl + 1
    /\ consumed \subseteq 1..issued
    /\ StoreBounded /\ OneTime /\ KeptUntilExpiry

\* A challenge is issued.
LEMMA CreateInv ==
    ASSUME ChallengesInv, NEW action \in Actions, NEW delay \in 0..1,
           CreateChallenge(action, delay)
    PROVE  ChallengesInv'
<1> DEFINE new == [id |-> issued + 1, action |-> action, issued_at |-> now]
           P == Pruned(store, now)
           K == Evicted(P)
<1>1. /\ issued \in Nat /\ issued + 1 \in 1..MaxIssued /\ now \in 0..MaxTime
      /\ now + delay \in 0..MaxTime /\ delay \in {0, 1}
      /\ Ttl \in Nat /\ MaxChallenges \in Nat \ {0}
  BY ApiAssumption DEF ChallengesInv, ChallengesTypeOK, CreateChallenge
<1>2. /\ issued' = issued + 1 /\ now' = now + delay /\ consumed' = consumed
      /\ store' = K \cup {new}
      /\ announced' = [announced EXCEPT ![issued + 1] = now + delay + Ttl]
  BY DEF CreateChallenge
<1>3. new \in Challenge /\ new.id = issued + 1 /\ new.issued_at = now
  BY <1>1 DEF Challenge
<1> HIDE DEF new
<1>4. K \subseteq P /\ P \subseteq store /\ P \in SUBSET Challenge
      /\ IsFiniteSet(P) /\ Distinct(P)
  <2>1. K \subseteq P
    BY DEF Evicted
  <2>2. P \in SUBSET store
    BY DEF Pruned
  <2> QED
    BY <2>1, <2>2, FS_Subset DEF ChallengesInv, ChallengesTypeOK, Distinct
<1>5. IsFiniteSet(K) /\ Cardinality(K) \in Nat /\ Cardinality(K) <= MaxChallenges - 1
  BY <1>4, EvictedBounded, FS_CardinalityType
<1>6. \A c \in store : c.id \in 1..issued /\ c.id \in 1..MaxIssued /\ c.issued_at \in Nat
  BY <1>1 DEF ChallengesInv, ChallengesTypeOK, Challenge
<1>7. /\ announced'[issued + 1] = now + delay + Ttl
      /\ \A i \in 1..issued : announced'[i] = announced[i] /\ announced[i] \in Nat
  <2>1. announced \in [1..MaxIssued -> Nat] /\ MaxIssued \in Nat /\ issued <= MaxIssued
    BY ApiAssumption DEF ChallengesInv, ChallengesTypeOK
  <2>2. ASSUME NEW i \in 1..issued
        PROVE  announced'[i] = announced[i] /\ announced[i] \in Nat
    <3>1. i \in 1..MaxIssued /\ i # issued + 1
      BY <1>1, <2>1
    <3> QED
      BY <1>2, <2>1, <3>1
  <2> QED
    BY <1>1, <1>2, <2>1, <2>2
<1>8. \A c \in K : c \in P /\ c \in store /\ c.id \in 1..issued
  BY <1>4, <1>6
<1>9. ChallengesTypeOK'
  <2>1. store' \subseteq Challenge
    BY <1>2, <1>3, <1>4
  <2>2. announced' \in [1..MaxIssued -> Nat]
    BY <1>1, <1>2 DEF ChallengesInv, ChallengesTypeOK
  <2> QED
    BY <1>1, <1>2, <2>1, <2>2 DEF ChallengesInv, ChallengesTypeOK
<1>10. IsFiniteSet(store') /\ StoreBounded'
  <2>1. Cardinality(K \cup {new}) <= Cardinality(K) + 1 /\ IsFiniteSet(K \cup {new})
    BY <1>5, FS_AddElement
  <2> HIDE DEF K, P
  <2>2. Cardinality(K \cup {new}) \in Nat
    BY <2>1, FS_CardinalityType
  <2> QED
    BY <1>1, <1>2, <1>5, <2>1, <2>2 DEF StoreBounded
<1>11. Distinct(store')
  <2>1. \A c \in K : c.id # new.id
    BY <1>1, <1>3, <1>8
  <2>2. Distinct(K)
    BY <1>4 DEF Distinct
  <2> HIDE DEF K, P
  <2> QED
    BY <1>2, <2>1, <2>2 DEF Distinct
<1>12. \A c \in store' : c.id <= issued' /\ announced'[c.id] <= c.issued_at + Ttl + 1
  <2>1. ASSUME NEW c \in K
        PROVE  c.id <= issued' /\ announced'[c.id] <= c.issued_at + Ttl + 1
    BY <1>1, <1>2, <1>7, <1>8 DEF ChallengesInv
  <2>2. new.id <= issued' /\ announced'[new.id] <= new.issued_at + Ttl + 1
    BY <1>1, <1>2, <1>3, <1>7
  <2> HIDE DEF K, P
  <2> QED
    BY <1>2, <2>1, <2>2
<1>13. consumed' \subseteq 1..issued'
  BY <1>1, <1>2 DEF ChallengesInv
<1>14. OneTime'
  <2>1. new.id \notin consumed
    BY <1>1, <1>3 DEF ChallengesInv
  <2>2. \A c \in K : c.id \notin consumed
    BY <1>8 DEF ChallengesInv, OneTime
  <2> HIDE DEF K, P
  <2> QED
    BY <1>2, <2>1, <2>2 DEF OneTime
<1>15. KeptUntilExpiry'
  <2> SUFFICES ASSUME NEW i \in 1..issued', now' < announced'[i], i \notin consumed',
                      issued' - i < MaxChallenges
               PROVE  \E c \in store' : c.id = i
    BY DEF KeptUntilExpiry
  <2>1. CASE i = issued + 1
    BY <1>2, <1>3, <2>1
  <2>2. CASE i # issued + 1
    <3>1. i \in 1..issued
      BY <1>1, <1>2, <2>2
    <3>2. now < announced[i] /\ issued - i < MaxChallenges /\ issued - i < MaxChallenges - 1
      BY <1>1, <1>2, <1>7, <3>1
    <3>3. PICK c \in store : c.id = i
      BY <1>2, <3>1, <3>2 DEF ChallengesInv, KeptUntilExpiry
    <3>4. c \in P
      <4>1. announced[i] <= c.issued_at + Ttl + 1 /\ announced[i] \in Nat /\ c.issued_at \in Nat
        BY <1>6, <1>7, <3>1, <3>3 DEF ChallengesInv
      <4>2. now - c.issued_at <= Ttl
        BY <1>1, <3>2, <4>1
      <4> QED
        BY <3>3, <4>2 DEF Pruned
    <3>5. Cardinality(Newer(P, c)) <= issued - i
      <4>1. c.id <= issued /\ \A d \in P : d.id <= issued
        BY <1>4, <1>6, <3>3
      <4> HIDE DEF P
      <4> QED
        BY <1>1, <1>4, <3>3, <3>4, <4>1, NewerBounded
    <3>6. Cardinality(Newer(P, c)) \in Nat
      <4>1. Newer(P, c) \in SUBSET P
        BY DEF Newer
      <4> QED
        BY <1>4, <4>1, FS_Subset, FS_CardinalityType
    <3>7. Cardinality(Newer(P, c)) < MaxChallenges - 1
      <4> HIDE DEF P
      <4> QED
        BY <1>1, <3>1, <3>2, <3>5, <3>6
    <3>8. c \in K
      BY <3>4, <3>7 DEF Evicted, Newer
    <3> QED
      BY <1>2, <3>3, <3>8
  <2> QED
    BY <2>1, <2>2
<1> QED
  BY <1>9, <1>10, <1>11, <1>12, <1>13, <1>14, <1>15 DEF ChallengesInv

\* A challenge is used up.
LEMMA AuthorizeInv ==
    ASSUME ChallengesInv, NEW c \in store, AuthorizeAction(c)
    PROVE  ChallengesInv'
<1>1. store' = store \ {c} /\ consumed' = consumed \cup {c.id}
      /\ UNCHANGED <<now, issued, announced>>
  BY DEF AuthorizeAction
<1>2. c.id \in 1..issued /\ c.id \in 1..MaxIssued
  BY DEF ChallengesInv, ChallengesTypeOK, Challenge
<1>3. ChallengesTypeOK' /\ consumed' \subseteq 1..issued'
  BY <1>1, <1>2, ZenonT(120) DEF ChallengesInv, ChallengesTypeOK
<1>4. IsFiniteSet(store') /\ StoreBounded'
  <2>1. store' \in SUBSET store
    BY <1>1
  <2>2. IsFiniteSet(store') /\ Cardinality(store') <= Cardinality(store)
    BY <2>1, FS_Subset DEF ChallengesInv
  <2>3. Cardinality(store') \in Nat /\ Cardinality(store) \in Nat
    BY <2>2, FS_CardinalityType DEF ChallengesInv
  <2> QED
    BY <2>2, <2>3, ApiAssumption DEF ChallengesInv, StoreBounded
<1>5. Distinct(store') /\ OneTime'
  BY <1>1 DEF ChallengesInv, Distinct, OneTime
<1>6. \A d \in store' : d.id <= issued' /\ announced'[d.id] <= d.issued_at + Ttl + 1
  BY <1>1 DEF ChallengesInv
<1>7. KeptUntilExpiry'
  BY <1>1 DEF ChallengesInv, KeptUntilExpiry
<1> QED
  BY <1>3, <1>4, <1>5, <1>6, <1>7 DEF ChallengesInv

\* Time passes.
LEMMA TickInv == ASSUME ChallengesInv, Tick PROVE ChallengesInv'
<1>1. now' = now + 1 /\ now < MaxTime /\ UNCHANGED <<store, issued, announced, consumed>>
  BY DEF Tick, challenges
<1>2. ChallengesTypeOK'
  BY <1>1, ApiAssumption DEF ChallengesInv, ChallengesTypeOK
<1>3. KeptUntilExpiry'
  <2> SUFFICES ASSUME NEW i \in 1..issued, now + 1 < announced[i], i \notin consumed,
                      issued - i < MaxChallenges
               PROVE  \E c \in store : c.id = i
    BY <1>1 DEF KeptUntilExpiry
  <2>1. i \in 1..MaxIssued
    BY ApiAssumption DEF ChallengesInv, ChallengesTypeOK
  <2>2. now \in Int /\ announced[i] \in Int
    BY <2>1 DEF ChallengesInv, ChallengesTypeOK
  <2>3. now < announced[i]
    BY <2>2
  <2> QED
    BY <2>3 DEF ChallengesInv, KeptUntilExpiry
<1> QED
  BY <1>1, <1>2, <1>3 DEF ChallengesInv, StoreBounded, OneTime

\* The initial states satisfy the invariant.
LEMMA ChallengesInit == ApiInit => ChallengesInv
<1> SUFFICES ASSUME ApiInit PROVE ChallengesInv
  OBVIOUS
<1>1. ChallengesTypeOK
  BY ApiAssumption DEF ApiInit, ChallengesTypeOK
<1>2. IsFiniteSet(store) /\ StoreBounded
  BY FS_EmptySet, ApiAssumption DEF ApiInit, StoreBounded
<1> QED
  BY <1>1, <1>2 DEF ApiInit, ChallengesInv, Distinct, OneTime, KeptUntilExpiry

\* Every step keeps the invariant.
LEMMA ChallengesNext == ChallengesInv /\ [ApiNext]_apiVars => ChallengesInv'
<1> SUFFICES ASSUME ChallengesInv, [ApiNext]_apiVars PROVE ChallengesInv'
  OBVIOUS
<1>1. CASE UNCHANGED <<now, challenges>>
  BY <1>1 DEF challenges, ChallengesInv, ChallengesTypeOK, StoreBounded, OneTime,
              KeptUntilExpiry
<1>2. ASSUME NEW action \in Actions, NEW delay \in 0..1, CreateChallenge(action, delay)
      PROVE  ChallengesInv'
  BY <1>2, CreateInv
<1>3. ASSUME NEW c \in store, AuthorizeAction(c) PROVE ChallengesInv'
  BY <1>3, AuthorizeInv
<1>4. CASE Tick
  BY <1>4, TickInv
<1>5. CASE BeginExport \/ FinishExport \/ CompactJournal \/ RemoveSnapshot \/ UNCHANGED apiVars
  BY <1>1, <1>5 DEF BeginExport, FinishExport, CompactJournal, RemoveSnapshot, apiVars
<1> QED
  BY <1>2, <1>3, <1>4, <1>5 DEF ApiNext

\* The inductive invariant about challenges holds throughout.
THEOREM ChallengesInvariant == ApiSpec => []ChallengesInv
BY ChallengesInit, ChallengesNext, PTL DEF ApiSpec

\* The store never holds more than _MAX_CHALLENGES (recovery.py:80), for every
\* limit, lifetime and number of challenges.
THEOREM ApiStoreBounded == ApiSpec => []StoreBounded
<1>1. ChallengesInv => StoreBounded
  BY DEF ChallengesInv
<1> QED
  BY <1>1, ChallengesInvariant, PTL

\* A challenge that was answered for is never in the store again
\* (recovery.py:113).
THEOREM ApiOneTime == ApiSpec => []OneTime
<1>1. ChallengesInv => OneTime
  BY DEF ChallengesInv
<1> QED
  BY <1>1, ChallengesInvariant, PTL

\* Neither pruning nor eviction (recovery.py:76-82) forgets a challenge that has
\* not expired, before as many as the store holds were issued after it.
THEOREM ApiKeptUntilExpiry == ApiSpec => []KeptUntilExpiry
<1>1. ChallengesInv => KeptUntilExpiry
  BY DEF ChallengesInv
<1> QED
  BY <1>1, ChallengesInvariant, PTL

-----------------------------------------------------------------------------
(* The recovery API: exports.                                              *)

ExportsInv ==
    /\ exports \in Nat /\ leftovers \in Nat /\ compactions \in Nat
    /\ exporting \in BOOLEAN
    /\ exports <= MaxSnapshots /\ (exporting => exports < MaxSnapshots)

\* Exports alone never exceed _MAX_SNAPSHOTS, whatever compactions do between
\* the check of the limit and the snapshot (recovery.py:171).
THEOREM ApiExportsCapped == ApiSpec => []ExportsCapped
<1>1. ApiInit => ExportsInv
  <2> SUFFICES ASSUME ApiInit PROVE ExportsInv
    OBVIOUS
  <2>1. ~exporting /\ exporting \in BOOLEAN
    BY ZenonT(120) DEF ApiInit
  <2>2. exports = 0 /\ leftovers = 0 /\ compactions = 0
    BY DEF ApiInit
  <2> QED
    BY <2>1, <2>2, ApiAssumption DEF ExportsInv
<1>2. ExportsInv /\ [ApiNext]_apiVars => ExportsInv'
  <2> SUFFICES ASSUME ExportsInv, [ApiNext]_apiVars PROVE ExportsInv'
    OBVIOUS
  <2>1. CASE UNCHANGED snapshots
    BY <2>1 DEF snapshots, ExportsInv
  <2>2. CASE BeginExport
    BY <2>2, ApiAssumption DEF BeginExport, Snapshots, ExportsInv
  <2>3. CASE FinishExport
    <3>1. ~exporting' /\ exporting' \in BOOLEAN /\ exports < MaxSnapshots
      BY <2>3, ZenonT(120) DEF FinishExport, ExportsInv
    <3>2. /\ exports' \in {exports, exports + 1} /\ leftovers' \in {leftovers, leftovers + 1}
          /\ compactions' = compactions
      BY <2>3 DEF FinishExport
    <3>3. exports \in Nat /\ leftovers \in Nat /\ compactions \in Nat
      BY DEF ExportsInv
    <3> QED
      BY <3>1, <3>2, <3>3, ApiAssumption DEF ExportsInv
  <2>4. CASE CompactJournal
    BY <2>4, ApiAssumption DEF CompactJournal, ExportsInv
  <2>5. CASE RemoveSnapshot
    BY <2>5, ApiAssumption DEF RemoveSnapshot, ExportsInv
  <2> QED
    BY <2>1, <2>2, <2>3, <2>4, <2>5
    DEF ApiNext, CreateChallenge, AuthorizeAction, Tick, apiVars
<1>3. ExportsInv => ExportsCapped
  BY ApiAssumption DEF ExportsInv, ExportsCapped
<1> QED
  BY <1>1, <1>2, <1>3, PTL DEF ApiSpec
=============================================================================
