------------------------------ MODULE MCAccounts ------------------------------
(***************************************************************************)
(* Instances of Accounts for TLC; users, sessions and requests are         *)
(* interchangeable.                                                        *)
(***************************************************************************)
EXTENDS Accounts, TLC

Symmetry == Permutations(Users) \cup Permutations(Sessions)
            \cup Permutations(Procs)
=============================================================================
