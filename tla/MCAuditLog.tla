------------------------------ MODULE MCAuditLog ------------------------------
(* Small instances of AuditLog for TLC.                                    *)
EXTENDS AuditLog

CONSTANTS engine, export

MCEngine == {engine}
MCEngineAndExport == {engine, export}
=============================================================================
