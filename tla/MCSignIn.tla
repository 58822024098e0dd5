-------------------------------- MODULE MCSignIn --------------------------------
(***************************************************************************)
(* Instances of SignIn for TLC; sessions and requests are interchangeable. *)
(***************************************************************************)
EXTENDS SignIn, TLC

Symmetry == Permutations(Sessions) \cup Permutations(Procs)
=================================================================================
