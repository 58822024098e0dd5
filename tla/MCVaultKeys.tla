----------------------------- MODULE MCVaultKeys -----------------------------
(***************************************************************************)
(* Instances of VaultKeys for TLC.  Users, tokens, rows and requests are   *)
(* interchangeable, so each run may use the symmetry set for its safety    *)
(* properties.                                                             *)
(***************************************************************************)
EXTENDS VaultKeys, TLC

Symmetry == Permutations(Users) \cup Permutations(Tokens)
            \cup Permutations(Rows) \cup Permutations(Procs)
=============================================================================
