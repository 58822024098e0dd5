-------------------------------- MODULE MCTokens -------------------------------
(***************************************************************************)
(* Instances of Tokens for TLC; ids, secret-ids and requests are           *)
(* interchangeable.                                                        *)
(***************************************************************************)
EXTENDS Tokens, TLC

Symmetry == Permutations(Tokens) \cup Permutations(Roles)
              \cup Permutations(SecretIds) \cup Permutations(Procs)
=============================================================================
