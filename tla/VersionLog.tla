------------------------------ MODULE VersionLog ------------------------------
(***************************************************************************)
(* What the secret store promises for one path: an append-only log of      *)
(* versions, each with a limit on how often the API may hand it out.       *)
(* Versions are numbered 1, 2, ... without gaps, a version is never        *)
(* overwritten, and one with limit n is handed out at most n times.        *)
(***************************************************************************)
EXTENDS Naturals, Sequences

CONSTANT Limit \* possible limits; Unlimited is one of them
Unlimited == 0

VARIABLES
  log,    \* log[v]: the limit version v was written with
  handed  \* handed[v]: how often version v has reached a client

vars == <<log, handed>>

Init == log = <<>> /\ handed = <<>>

\* A write is stored as the next version.
AppendVersion ==
  \E n \in Limit : log' = Append(log, n) /\ handed' = Append(handed, 0)

\* A version reaches a client, which its limit must still allow.
HandOut ==
  \E v \in DOMAIN log :
    /\ log[v] = Unlimited \/ handed[v] < log[v]
    /\ handed' = [handed EXCEPT ![v] = @ + 1]
    /\ log' = log

Next == AppendVersion \/ HandOut

Spec == Init /\ [][Next]_vars
=============================================================================
