---------------------------- MODULE MCSecretStore ----------------------------
(***************************************************************************)
(* Instances of SecretStore for TLC; requests are interchangeable.         *)
(***************************************************************************)
EXTENDS SecretStore, TLC

Symmetry == Permutations(Procs)
=============================================================================
