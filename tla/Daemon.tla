------------------------------- MODULE Daemon -------------------------------
(***************************************************************************)
(* The daemon process of daemon/service.py: the main thread, the control   *)
(* socket's thread and the NBD thread (NbdServer), which share one engine  *)
(* and one shutdown event.  uvicorn runs the HTTP API in a fourth thread;  *)
(* its handlers are in RecoveryApi and only its end matters here.          *)
(***************************************************************************)
EXTENDS NbdServer

VARIABLES
    shutdown,       \* _shutdown_event
    main,           \* where run() is
    unix,           \* where the control socket's thread is
    command,        \* what the control client sent, or None
    result,         \* how the engine call of the command ended, or None
    answer          \* the response being sent, or None

control == <<unix, command, result, answer>>
process == <<shutdown, main>>
vars    == <<state, nbdVars, process, control>>

-----------------------------------------------------------------------------
(* The control socket.                                                     *)

Commands ==
    {"status", "authorize", "maintenance", "exit-maintenance",
     "exit-maintenance compact", "compact", "unknown"}

\* The call returns, it raises what the handler answers, or the exception reaches
\* _serve_unix_socket, which logs it and closes.  Neither of the last two says
\* whether the engine has moved.
Result == {"success", "refusal", "silence"}

\* The event is read before every accept, which waits for at most a second.
UnixLoop ==
    /\ unix = "loop"
    /\ unix' = IF shutdown THEN "done" ELSE "accept"
    /\ UNCHANGED <<state, nbdVars, process, command, result, answer>>

UnixTimeout ==
    /\ unix = "accept"
    /\ unix' = "loop"
    /\ UNCHANGED <<state, nbdVars, process, command, result, answer>>

\* A client connects in time.
UnixAccept ==
    /\ unix = "accept"
    /\ unix' = "recv"
    /\ UNCHANGED <<state, nbdVars, process, command, result, answer>>

\* A client that closes instead sends an unknown command: no bytes.  One that
\* is not UTF-8 raises in decode and is met with silence.
ControlSends(c) ==
    /\ unix = "recv" /\ command = None
    /\ command' = c
    /\ UNCHANGED <<state, nbdVars, process, unix, result, answer>>

\* bind, listen or accept raises: nothing restarts the thread.
UnixListenerFails ==
    /\ unix = "accept"
    /\ unix' = "done"
    /\ UNCHANGED <<state, nbdVars, process, command, result, answer>>

UnixRecv ==
    /\ unix = "recv" /\ command # None
    /\ unix' = "execute"
    /\ UNCHANGED <<state, nbdVars, process, command, result, answer>>

\* The engine calls, each one step under the engine's lock.
Return(r) == result' = r /\ UNCHANGED state

Moves(target, r) == state' = target /\ result' = r

\* A call that moves the engine with a token: it may be refused, and the key
\* file, the state file or the audit log may fail before or after it has moved.
\* A PermissionError is answered, any other OSError is met with silence.
TokenCall(from, target) ==
    \/ Return("refusal") \/ Return("silence")
    \/ state \in from /\ \E r \in Result : Moves(target, r)

\* Mutant: exit-maintenance succeeds in every state.
ExitMaintenanceUnchecked(compact) ==
    \/ state # "maintenance" /\ Return("success")
    \/ state = "maintenance" /\ Moves("normal", "success")

ExitMaintenance(compact) ==
    \/ state # "maintenance" /\ Return("refusal")
    \/ /\ state = "maintenance"
       /\ \/ Moves("normal", "success") \/ Moves("normal", "silence")
          \/ Return("silence")
          \/ compact /\ Return("refusal")

\* Every exception of compact_journal is answered.
Compact ==
    \/ Return("refusal")
    \/ state \in {"normal", "maintenance"} /\ Return("success")

\* Mutant: an exception that no handler catches ends the thread.
HandleCommandUncaught ==
    /\ unix = "execute"
    /\ \/ command = "status" /\ Return("success")
       \/ command = "maintenance" /\ TokenCall({"normal"}, "maintenance")
    /\ unix' = IF result' # "silence" THEN "compose" ELSE "done"
    /\ UNCHANGED <<nbdVars, process, command, answer>>

HandleCommand ==
    /\ unix = "execute"
    /\ \/ command = "status" /\ Return("success")
       \/ command = "unknown" /\ (Return("refusal") \/ Return("silence"))
       \/ command = "authorize" /\ TokenCall({"contained"}, "recovery_read_only")
       \/ command = "maintenance"
            /\ TokenCall({"normal", "contained", "recovery_read_only", "fault"},
                         "maintenance")
       \/ command = "exit-maintenance" /\ ExitMaintenance(FALSE)
       \/ command = "exit-maintenance compact" /\ ExitMaintenance(TRUE)
       \/ command = "compact" /\ Compact
    /\ unix' = IF result' # "silence" THEN "compose" ELSE "close"
    /\ UNCHANGED <<nbdVars, process, command, answer>>

\* engine.state.value is read after the call returned its lock.
UnixCompose ==
    /\ unix = "compose"
    /\ answer' = [command |-> command, ok |-> result = "success",
                  state |-> IF result = "success" /\ command # "compact"
                            THEN state ELSE None]
    /\ unix' = "close"
    /\ UNCHANGED <<state, nbdVars, process, command, result>>

\* sendall, or its exception, or none; the connection is closed.
UnixClose ==
    /\ unix = "close"
    /\ unix' = "loop"
    /\ command' = None /\ result' = None /\ answer' = None
    /\ UNCHANGED <<state, nbdVars, process>>

-----------------------------------------------------------------------------
(* The main thread.                                                        *)

Signal ==
    /\ ~shutdown
    /\ shutdown' = TRUE
    /\ UNCHANGED <<state, nbdVars, main, control>>

BeginStop ==
    /\ main = "wait" /\ shutdown
    /\ main' = "join"
    /\ UNCHANGED <<state, nbdVars, shutdown, control>>

\* The process is gone, with every thread in it.
Ended ==
    /\ main' = "stopped" /\ unix' = "done"
    /\ command' = None /\ result' = None /\ answer' = None
    /\ ProcessEnds
    /\ UNCHANGED shutdown

\* Mutant: run() joins every thread before it returns.
StopJoinsAll == main = "join" /\ unix = "done" /\ nbd = "stopped" /\ Ended

\* Only the API server's thread is joined, for at most 10 seconds, and all are
\* daemon threads: the process ends wherever they are.
Stop == main = "join" /\ Ended

-----------------------------------------------------------------------------

Init ==
    /\ NbdInit
    /\ shutdown = FALSE /\ main = "wait"
    /\ unix = "loop" /\ command = None /\ result = None /\ answer = None

Alive == main # "stopped"

Clients ==
    /\ Alive
    /\ \/ NbdClient /\ UNCHANGED <<process, control>>
       \/ UnixAccept
       \/ \E c \in Commands : ControlSends(c)

NbdStep == Alive /\ NbdThread /\ UNCHANGED <<process, control>>

UnixStep ==
    /\ Alive
    /\ \/ UnixLoop \/ UnixTimeout \/ UnixRecv \/ HandleCommand
       \/ UnixCompose \/ UnixClose

MainStep == BeginStop \/ Stop

Environment ==
    /\ Alive
    /\ \/ ListenerFails /\ UNCHANGED <<process, control>>
       \/ UnixListenerFails \/ Signal

Next == Clients \/ NbdStep \/ UnixStep \/ MainStep \/ Environment

Spec == Init /\ [][Next]_vars

\* The operating system schedules the threads of the process.  A client need
\* neither send nor receive, except that an answer of the control socket, a line,
\* fits in the buffers of its connection.
FairSpec == Spec /\ WF_vars(NbdStep) /\ WF_vars(UnixStep) /\ WF_vars(MainStep)

-----------------------------------------------------------------------------
(* Properties.                                                             *)

\* Every variable has its type; nothing of a command outlives its connection.
TypeOK ==
    /\ NbdTypeOK
    /\ shutdown \in BOOLEAN
    /\ main \in {"wait", "join", "stopped"}
    /\ unix \in {"loop", "accept", "recv", "execute", "compose", "close", "done"}
    /\ command \in Commands \cup {None}
    /\ result \in Result \cup {None}
    /\ unix \in {"loop", "accept"} => command = None /\ result = None /\ answer = None

\* The state an answer reports was read after the lock was released, yet it is
\* the one the command established: only the control socket's own thread can
\* leave recovery and maintenance (service.py:148 and 165), while a write may
\* already have contained a device that left maintenance (service.py:173).
AnswerNamesState ==
    answer # None /\ answer.ok =>
        /\ answer.command = "authorize" => answer.state = "recovery_read_only"
        /\ answer.command = "maintenance" => answer.state = "maintenance"
        /\ answer.command \in {"exit-maintenance", "exit-maintenance compact"}
            => answer.state \in {"normal", "elevated", "contained"}

\* A command received on the control socket is answered or its connection is
\* closed, whatever the engine raises (service.py:111).
CommandAnswered == (command # None) ~> (command = None)

\* A signal ends the process even if clients of either socket hold their
\* connections open and say nothing (service.py:255-258).
ShutdownCompletes == shutdown ~> (main = "stopped")
=============================================================================
