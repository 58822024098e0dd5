--------------------------------- MODULE Names ---------------------------------
(***************************************************************************)
(* Who signs in, and to what: the usernames and session hashes of Accounts *)
(* and SignIn, with a name for the lack of either.                         *)
(***************************************************************************)
CONSTANTS
  Users,   \* usernames
  Sessions \* session hashes; bound: sessions that exist at once

NoUser == "nobody"
NoSession == "no session"
ASSUME NoneAssumption == NoUser \notin Users /\ NoSession \notin Sessions
================================================================================
