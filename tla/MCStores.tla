------------------------------- MODULE MCStores -------------------------------
(***************************************************************************)
(* Stores with a few requests on two handles.                              *)
(***************************************************************************)
EXTENDS Stores

MCRequests ==
         [op: {"create", "delete"}, handle: {1, 2}]
    \cup [op: {"write"}, handle: {1, 2}, offset: {1}, input: {<<1>>}]
    \cup [op: {"truncate"}, handle: {1, 2}, len: {1, 3}]
    \cup [op: {"bind"}, handle: {1, 2}, name: Names]
=============================================================================
