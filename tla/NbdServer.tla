------------------------------ MODULE NbdServer ------------------------------
(***************************************************************************)
(* The NBD export of core/nbd.py: serve_tcp accepts one connection at a    *)
(* time, negotiates, and answers requests until the connection ends.       *)
(*                                                                         *)
(* The byte stream of a connection is a queue of items, each what one      *)
(* _recv_exact consumes: the negotiation, a request header, a payload.     *)
(* The engine is represented by its state; its calls run under the         *)
(* engine's lock, so each is one step.  What a reply says is left out: a   *)
(* write that came up short is answered with success, and an error raised  *)
(* after the record is durable with EIO or EROFS, so nothing follows from  *)
(* the error a client is given.                                            *)
(***************************************************************************)
EXTENDS Naturals, Sequences

CONSTANTS
    Requests,       \* the requests clients make, without their handles
    MaxPipelined,   \* bound on the requests a client has outstanding
    None

ASSUME NbdAssumption == MaxPipelined \in Nat \ {0}

VARIABLES
    state,          \* AegisEngine.state
    nbd,            \* where the NBD thread is
    peer,           \* the accepted client's side of the connection
    stream,         \* what it has sent and the server has not consumed
    owes,           \* the client still has to send the payload of a write
    reads,          \* the client receives what it is sent
    sent,           \* history: the requests sent and not answered, in order
    current         \* the request the server handles, or None

conn == <<peer, stream, owes, reads, sent>>
nbdVars == <<nbd, conn, current>>

States ==
    {"normal", "elevated", "contained", "recovery_read_only", "maintenance", "fault"}

-----------------------------------------------------------------------------
(* The client.                                                             *)

Handle == 1..MaxPipelined

\* A request is within the export and block aligned, or not; only a write
\* can exceed the 16 MiB limit; a flush is valid with offset and length 0.
RequestKind == [command: {"read", "write", "flush", "trim", "oversized"}, valid: BOOLEAN]

ASSUME RequestsAssumption == Requests \subseteq RequestKind

Request == [kind: Requests, handle: Handle]

\* None is no value of the program.
ASSUME NbdNoneAssumption ==
    /\ None \notin Request
    /\ None \notin {"silent", "open", "finished", "closed"}

Header(r) == [item |-> "header", request |-> r]

Payload == [item |-> "payload"]

Hello(ok) == [item |-> "hello", ok |-> ok]

Disc == [item |-> "disc"]

BadMagic == [item |-> "bad magic"]

Item ==
    [item: {"header"}, request: Request] \cup [item: {"hello"}, ok: BOOLEAN]
        \cup [item: {"payload", "disc", "bad magic"}]

Outstanding == {sent[i].handle : i \in DOMAIN sent}

\* The client's first message is the negotiation, in a form the server accepts
\* or not.
SendHello(ok) ==
    /\ peer = "silent"
    /\ peer' = "open"
    /\ stream' = Append(stream, Hello(ok))
    /\ UNCHANGED <<state, nbd, owes, reads, sent, current>>

SendRequest(r) ==
    /\ peer = "open" /\ ~owes
    /\ Len(sent) < MaxPipelined /\ r.handle \notin Outstanding
    /\ \A h \in Handle : h < r.handle => h \in Outstanding
    /\ stream' = Append(stream, Header(r))
    /\ sent' = Append(sent, r)
    /\ owes' = (r.kind.command \in {"write", "oversized"})
    /\ UNCHANGED <<state, nbd, peer, reads, current>>

SendPayload ==
    /\ peer = "open" /\ owes
    /\ stream' = Append(stream, Payload)
    /\ owes' = FALSE
    /\ UNCHANGED <<state, nbd, peer, reads, sent, current>>

\* After its last message, a disconnect request or bytes that are no request,
\* a client sends nothing more.
SendLast(item) ==
    /\ peer = "open" /\ ~owes
    /\ stream' = Append(stream, item)
    /\ peer' = "finished"
    /\ UNCHANGED <<state, nbd, owes, reads, sent, current>>

\* At any point, also between a header and its payload.
PeerCloses ==
    /\ peer \in {"silent", "open", "finished"}
    /\ peer' = "closed"
    /\ UNCHANGED <<state, nbd, stream, owes, reads, sent, current>>

\* A client may stop receiving, and go on later.
PeerReads ==
    /\ peer \in {"silent", "open", "finished"}
    /\ reads' = ~reads
    /\ UNCHANGED <<state, nbd, peer, stream, owes, sent, current>>

-----------------------------------------------------------------------------
(* The server.                                                             *)

\* The connection is closed, whatever ended it; serve_tcp accepts again.
EndConnection ==
    /\ nbd' = "accept"
    /\ peer' = None
    /\ stream' = <<>> /\ sent' = <<>> /\ owes' = FALSE /\ reads' = TRUE
    /\ current' = None
    /\ UNCHANGED state

\* A client connects.
Accept ==
    /\ nbd = "accept"
    /\ nbd' = "negotiate"
    /\ peer' = "silent"
    /\ UNCHANGED <<state, stream, owes, reads, sent, current>>

\* listener.accept raises OSError: serve_tcp re-raises, _serve_nbd logs, and
\* the thread is gone.
ListenerFails ==
    /\ nbd = "accept"
    /\ nbd' = "stopped"
    /\ UNCHANGED <<state, conn, current>>

Negotiate ==
    /\ nbd = "negotiate" /\ stream # <<>>
    /\ IF Head(stream).ok
       THEN /\ nbd' = "header"
            /\ stream' = Tail(stream)
            /\ UNCHANGED <<state, peer, owes, reads, sent, current>>
       ELSE EndConnection

\* Mutant: the end of the stream inside a payload is not noticed.
NoticeClosedLate ==
    /\ nbd \in {"negotiate", "header"}
    /\ peer = "closed"
    /\ EndConnection

\* _recv_exact meets the end of the stream, or a reset that discards the rest.
NoticeClosed ==
    /\ nbd \in {"negotiate", "header", "payload"}
    /\ peer = "closed"
    /\ EndConnection

\* Mutant: a request that is out of range is refused before its payload is
\* received.
RecvHeaderEagerCheck ==
    /\ nbd = "header" /\ stream # <<>>
    /\ IF Head(stream).item = "header" /\ Head(stream).request.kind.command # "oversized"
       THEN /\ current' = Head(stream).request
            /\ stream' = Tail(stream)
            /\ nbd' = IF current'.kind.command = "write" /\ current'.kind.valid
                      THEN "payload" ELSE "execute"
            /\ UNCHANGED <<state, peer, owes, reads, sent>>
       ELSE EndConnection

\* Mutant: an unsupported command is skipped without an answer.
RecvHeaderSkips ==
    /\ nbd = "header" /\ stream # <<>>
    /\ IF Head(stream).item = "header" /\ Head(stream).request.kind.command # "oversized"
       THEN /\ stream' = Tail(stream)
            /\ IF Head(stream).request.kind.command = "trim"
               THEN UNCHANGED <<nbd, current>>
               ELSE /\ current' = Head(stream).request
                    /\ nbd' = IF current'.kind.command = "write" THEN "payload" ELSE "execute"
            /\ UNCHANGED <<state, peer, owes, reads, sent>>
       ELSE EndConnection

RecvHeader ==
    /\ nbd = "header" /\ stream # <<>>
    /\ IF Head(stream).item = "header" /\ Head(stream).request.kind.command # "oversized"
       THEN /\ current' = Head(stream).request
            /\ stream' = Tail(stream)
            /\ nbd' = IF current'.kind.command = "write" THEN "payload" ELSE "execute"
            /\ UNCHANGED <<state, peer, owes, reads, sent>>
       ELSE EndConnection

RecvPayload ==
    /\ nbd = "payload" /\ stream # <<>>
    /\ stream' = Tail(stream)
    /\ nbd' = "execute"
    /\ UNCHANGED <<state, peer, owes, reads, sent, current>>

Finish ==
    /\ nbd' = "reply"
    /\ UNCHANGED <<conn, current>>

\* The request is refused without calling the engine, or the engine refuses a
\* write.
Refuse ==
    /\ nbd = "execute"
    /\ \/ ~current.kind.valid
       \/ current.kind.command = "trim"
       \/ current.kind.command = "write" /\ state \notin {"normal", "elevated"}
    /\ Finish
    /\ UNCHANGED state

\* engine.read or engine.flush returns, or raises OSError or ValueError.
ReadOrFlush ==
    /\ nbd = "execute"
    /\ current.kind.valid /\ current.kind.command \in {"read", "flush"}
    /\ Finish
    /\ UNCHANGED state

Writing ==
    /\ nbd = "execute"
    /\ current.kind.valid /\ current.kind.command = "write"
    /\ state \in {"normal", "elevated"}

\* engine.write returns, or raises an OSError that is answered: the journal's
\* append, the audit append or the state file fails.  Once the record is written
\* the policy may have raised or contained.
EngineWrite ==
    /\ Writing
    /\ state' \in {state, "elevated", "contained"}
    /\ Finish

\* JournalCorruptionError is a RuntimeError, which transmit does not catch:
\* raised by the read of the before-image or by a client's read.
Corrupt ==
    /\ \/ Writing
       \/ nbd = "execute" /\ current.kind.valid /\ current.kind.command = "read"
    /\ EndConnection

Answered ==
    /\ nbd' = "header"
    /\ sent' = Tail(sent)
    /\ current' = None
    /\ UNCHANGED <<state, peer, stream, owes, reads>>

\* sendall to a client that receives; on a connection the client has closed it
\* may raise instead.
Reply ==
    /\ nbd = "reply"
    /\ \/ reads /\ Answered
       \/ peer = "closed" /\ (Answered \/ EndConnection)

\* The client does not receive: sendall returns if the reply fits in the buffers
\* of the connection, and waits without a timeout if it does not.
ReplyBuffered ==
    /\ nbd = "reply" /\ ~reads /\ peer # "closed"
    /\ Answered

-----------------------------------------------------------------------------

\* Start-up restores any state.
NbdInit ==
    /\ state \in States
    /\ nbd = "accept"
    /\ peer = None /\ stream = <<>> /\ owes = FALSE /\ reads = TRUE /\ sent = <<>>
    /\ current = None

\* What happens when the client or the network wants it to.
NbdClient ==
    \/ Accept \/ SendPayload \/ PeerCloses \/ PeerReads \/ ReplyBuffered
    \/ \E ok \in BOOLEAN : SendHello(ok)
    \/ \E r \in Request : SendRequest(r)
    \/ \E item \in {Disc, BadMagic} : SendLast(item)

NbdThread ==
    \/ Negotiate \/ NoticeClosed \/ RecvHeader \/ RecvPayload
    \/ Refuse \/ ReadOrFlush \/ EngineWrite \/ Corrupt \/ Reply

\* The control socket moves the engine between two of its calls.
EngineMoves ==
    /\ state' \in States
    /\ UNCHANGED nbdVars

\* The process is gone, and with it the thread and its connection.
ProcessEnds ==
    /\ nbd' = "stopped"
    /\ peer' = None /\ stream' = <<>> /\ owes' = FALSE /\ reads' = TRUE /\ sent' = <<>>
    /\ current' = None
    /\ UNCHANGED state

NbdNext == NbdClient \/ NbdThread \/ ListenerFails \/ EngineMoves \/ ProcessEnds

NbdSpec == NbdInit /\ [][NbdNext]_<<state, nbdVars>>

\* The thread is scheduled.  A client need neither send nor receive; a reply to
\* one that does not receive may stay where it is.
NbdFairSpec == NbdSpec /\ WF_<<state, nbdVars>>(NbdThread)

-----------------------------------------------------------------------------
(* Properties.                                                             *)

\* Every variable has its type; a request is current exactly while it is handled.
NbdTypeOK ==
    /\ state \in States
    /\ nbd \in {"accept", "negotiate", "header", "payload", "execute", "reply",
                "stopped"}
    /\ peer \in {None, "silent", "open", "finished", "closed"}
    /\ stream \in Seq(Item)
    /\ owes \in BOOLEAN /\ reads \in BOOLEAN
    /\ sent \in Seq(Request) /\ Len(sent) <= MaxPipelined
    /\ current \in Request \cup {None}
    /\ current # None <=> nbd \in {"payload", "execute", "reply"}

\* transmit never takes a payload for a request header nor a header for a
\* payload, whatever it answers to a write: the payload of a refused write is
\* consumed too (nbd.py:94), and pipelined requests stay framed.
InSync ==
    stream # <<>> =>
        /\ nbd = "negotiate" => Head(stream).item = "hello"
        /\ nbd = "header" => Head(stream).item \in {"header", "disc", "bad magic"}
        /\ nbd = "payload" => Head(stream).item = "payload"

\* A reply answers the oldest request the client has outstanding: requests are
\* answered in order, none twice and none skipped (nbd.py:119 echoes the handle
\* of the request just handled).
RepliesInOrder ==
    nbd \in {"payload", "execute", "reply"} => sent # <<>> /\ current = Head(sent)

\* Every request sent in full is answered, or its connection ends, or the client
\* stops receiving (nbd.py:74); sendall has no timeout, so one that does not
\* receive is waited for (nbd.py:119).
RequestAnswered ==
    \A h \in Handle : (h \in Outstanding /\ ~owes) ~> (h \notin Outstanding \/ ~reads)

\* "every per-connection failure is contained, logged, and followed by another
\* accept()" (nbd.py:130): however a connection ends, also by a client that
\* disappears inside a request or has not received its replies.
AcceptsAgain == (peer = "closed") ~> (nbd \in {"accept", "stopped"})

\* "A misbehaving or malicious client must never take the export down for
\* everyone" (nbd.py:129): the thread keeps coming back to accept.
ServesEveryone == []<>(nbd \in {"accept", "stopped"})
=============================================================================
