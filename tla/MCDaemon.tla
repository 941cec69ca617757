------------------------------ MODULE MCDaemon ------------------------------
(***************************************************************************)
(* Daemon for TLC: the NBD client only writes, one request at a time.      *)
(***************************************************************************)
EXTENDS Daemon

MCRequests == {[command |-> "write", valid |-> TRUE]}
=============================================================================
