---------------------------- MODULE MCRecoveryApi ----------------------------
(***************************************************************************)
(* RecoveryApi for TLC: the bounds are named in the configuration.         *)
(***************************************************************************)
EXTENDS RecoveryApi
=============================================================================
