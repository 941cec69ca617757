----------------------------- MODULE MCNbdServer -----------------------------
(***************************************************************************)
(* NbdServer for TLC: every kind of request, two of them outstanding.      *)
(***************************************************************************)
EXTENDS NbdServer

MCRequests ==
    {[command |-> c, valid |-> TRUE] :
        c \in {"write", "read", "flush", "trim", "oversized"}}
        \cup {[command |-> c, valid |-> FALSE] : c \in {"write", "flush"}}
=============================================================================
