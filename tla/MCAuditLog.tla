------------------------------ MODULE MCAuditLog ------------------------------
(***************************************************************************)
(* Instances of AuditLog for TLC, without symmetry: it is not sound for    *)
(* liveness.                                                               *)
(***************************************************************************)
EXTENDS AuditLog, TLC
=============================================================================
