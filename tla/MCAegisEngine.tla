--------------------------- MODULE MCAegisEngine ---------------------------
(***************************************************************************)
(* Small instances of AegisEngine.                                         *)
(***************************************************************************)
EXTENDS AegisEngine

Authorization(action, version, target, expires, nonce) ==
    [device_id |-> TRUE, action |-> action, state_version |-> version,
     target_sequence |-> target, issued_unix |-> 0, expires_unix |-> expires,
     nonce |-> nonce]

\* One token for each way out of a state that the methods offer: maintenance
\* from normal or fault (version 1), recovery and maintenance from contained
\* (version 2), maintenance from recovery_read_only (version 3).
MCTokens ==
    {Authorization("enter_maintenance", 1, None, 1, 1),
     Authorization("enter_recovery_read_only", 2, 1, 2, 2),
     Authorization("enter_maintenance", 2, None, 1, 3),
     Authorization("enter_maintenance", 3, None, 2, 4)}

=============================================================================
