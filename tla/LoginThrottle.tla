----------------------------- MODULE LoginThrottle -----------------------------
(***************************************************************************)
(* The lockout of one username after failed logins (login_submit in        *)
(* src/web/mod.rs with the login_throttle map of src/state.rs).  A login   *)
(* looks at the lock, checks the password, and records the outcome, each   *)
(* under its own acquisition of the map's lock; concurrent logins for the  *)
(* same name interleave.  Entries of different names do not touch each     *)
(* other (names that differ only in case or surrounding space share an     *)
(* entry).  What a successful login opens is in Accounts; SignIn composes  *)
(* the two.                                                                *)
(*                                                                         *)
(* Definitions marked "mutant" are no part of the specification: each is a *)
(* plausible mistake in the definition that follows it, put in its place   *)
(* to see that a property notices.                                         *)
(***************************************************************************)
EXTENDS Naturals, FiniteSets

CONSTANTS
  Procs,      \* login requests that may be in flight at once
  MaxAttempts \* security.max_login_attempts

ASSUME ProcsAssumption == IsFiniteSet(Procs)
ASSUME MaxAttemptsAssumption == MaxAttempts \in Nat \ {0}

VARIABLES
  failures, \* ThrottleEntry.failures, 0 without an entry
  locked,   \* ThrottleEntry.locked_until lies in the future
  op,       \* op[p]: what login p is about to do
  recorded  \* history: failures recorded since the name was last open for
            \* attempts: since a lock ran out, a success, or the start

vars == <<failures, locked, op, recorded>>

Step == {"idle", "check", "fail", "reset"}
AtStep(step) == {p \in Procs : op[p] = step}
Goto(p, step) == op' = [op EXCEPT ![p] = step]

Init ==
  /\ failures = 0 /\ locked = FALSE
  /\ op = [p \in Procs |-> "idle"]
  /\ recorded = 0

-----------------------------------------------------------------------------
\* locked_message finds no lock in force.
EnterUnseen(p) == \* mutant
  op[p] = "idle" /\ Goto(p, "check") /\ UNCHANGED <<failures, locked, recorded>>
Enter(p) ==
  /\ op[p] = "idle"
  /\ ~locked
  /\ Goto(p, "check")
  /\ UNCHANGED <<failures, locked, recorded>>

\* authenticate: the credentials are right, or they are not.
Check(p) ==
  /\ op[p] = "check"
  /\ Goto(p, "reset") \/ Goto(p, "fail")
  /\ UNCHANGED <<failures, locked, recorded>>

\* This failure is the one that locks the name.
LastIsOver == failures + 1 > MaxAttempts \* mutant
LastAllowed == failures + 1 >= MaxAttempts

\* record_failure.
RecordFailure(p) ==
  /\ op[p] = "fail"
  /\ failures' = IF LastAllowed THEN 0 ELSE failures + 1
  /\ locked' = (locked \/ LastAllowed)
  /\ recorded' = recorded + 1
  /\ Goto(p, "idle")

\* reset_throttle drops the entry, and with it any lock.
ResetThrottle(p) ==
  /\ op[p] = "reset"
  /\ failures' = 0 /\ locked' = FALSE /\ recorded' = 0
  /\ Goto(p, "idle")

\* locked_until passes; the entry stays.
LockExpires ==
  /\ locked
  /\ locked' = FALSE /\ recorded' = 0
  /\ UNCHANGED <<failures, op>>

\* The process restarts with an empty map.
Restart ==
  /\ failures' = 0 /\ locked' = FALSE /\ recorded' = 0
  /\ op' = [p \in Procs |-> "idle"]

\* A login breaks off between two steps.
Abort(p) ==
  /\ op[p] # "idle"
  /\ Goto(p, "idle")
  /\ UNCHANGED <<failures, locked, recorded>>

Next ==
  \/ \E p \in Procs : Enter(p) \/ Check(p) \/ RecordFailure(p)
                      \/ ResetThrottle(p) \/ Abort(p)
  \/ LockExpires
  \/ Restart

Spec == Init /\ [][Next]_vars

-----------------------------------------------------------------------------
\* Every variable has its type, and an open name has failures to spare.
TypeOK ==
  /\ failures \in 0..(MaxAttempts - 1)
  /\ locked \in BOOLEAN
  /\ op \in [Procs -> Step]
  /\ recorded \in Nat

\* Between two openings of a name, concurrent logins that all saw it open
\* overshoot the configured number of failed attempts by at most the number
\* of other requests in flight (web/mod.rs, locked_message and
\* record_failure).
FailuresBounded ==
  recorded + Cardinality(AtStep("fail")) <= MaxAttempts + Cardinality(Procs) - 1
=============================================================================
