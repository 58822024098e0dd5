--------------------------- MODULE MCSealLifecycle ---------------------------
(***************************************************************************)
(* Instances of SealLifecycle for TLC, without symmetry: it is not sound   *)
(* for liveness.                                                           *)
(***************************************************************************)
EXTENDS SealLifecycle, TLC
=============================================================================
