--------------------------------- MODULE SignIn ---------------------------------
(***************************************************************************)
(* Signing in with a password: login_submit in src/web/mod.rs as the       *)
(* composition of LoginThrottle, the lock on one username, and Accounts,   *)
(* everybody's account and sessions.  A login of that user takes steps of  *)
(* both: it enters by the throttle, and its check is one step of both when *)
(* the credentials are right.  Other users' logins are subject to throttle *)
(* entries of their own and are those of Accounts; the sign-in at the end  *)
(* of setup passes no throttle at all (issue_session).                     *)
(***************************************************************************)
EXTENDS LoginThrottle, Names

CONSTANT Target \* the username whose lock is modelled

ASSUME TargetAssumption == Target \in Users

VARIABLES
  account, active, live, row, late, pending, \* as in Accounts
  request, \* request[p]: op[p] of Accounts, next to op[p] of LoginThrottle
  excused  \* history: requests for Target that were past the lock when it
           \* fell, or that sign in from setup

throttleVars == <<failures, locked, op, recorded>>
accountVars == <<account, active, live, row, late, pending, request>>
allVars == <<throttleVars, accountVars, excused>>

A == INSTANCE Accounts WITH op <- request

\* Requests for Target that have passed the lock and not answered.
Inside(p) == op[p] # "idle" \/ (request[p].user = Target /\ A!OpeningFor(p))
Free(p) == op[p] = "idle" /\ request[p] = A!Idle

\* excused follows: a lock that falls excuses who is inside, setup itself, and
\* an answer ends every excuse.
Follow(setup) ==
  LET excusable == IF locked' /\ ~locked
                   THEN {p \in Procs : Inside(p)} ELSE {} IN
  excused' = {p \in excused \cup excusable \cup setup :
                ~(op'[p] = "idle" /\ request'[p] = A!Idle)}

SignInInit == Init /\ A!Init /\ excused = {}

-----------------------------------------------------------------------------
\* locked_message.
LoginBegin(p) ==
  /\ Free(p)
  /\ Enter(p)
  /\ UNCHANGED accountVars
  /\ Follow({})

\* authenticate: the user exists, is active, and the password is right ...
LoginRight(p) ==
  /\ op[p] = "check"
  /\ Goto(p, "reset")
  /\ UNCHANGED <<failures, locked, recorded>>
  /\ A!Authenticate(p, Target)
  /\ Follow({})

\* ... or not.
LoginWrong(p) ==
  /\ op[p] = "check"
  /\ Goto(p, "fail")
  /\ UNCHANGED <<failures, locked, recorded>>
  /\ UNCHANGED accountVars
  /\ Follow({})

\* record_failure and reset_throttle; a login goes on to create_session only
\* after the latter.
Settle(p) ==
  /\ RecordFailure(p) \/ ResetThrottle(p)
  /\ UNCHANGED accountVars
  /\ Follow({})

\* create_session, the end of setup, other users' logins, and everything else
\* that Accounts is about.
AccountStep(p) ==
  /\ op[p] = "idle"
  /\ \/ A!CreateStep(p) \/ A!ActivityStep(p)
     \/ \E u \in Users \ {Target} : A!Authenticate(p, u)
     \/ request[p].step = "login" /\ A!Authenticate(p, Target)
     \/ A!AuthenticateFails(p)
     \/ \E s \in Sessions : A!OpenRow(p, s) \/ A!Leave(p, s)
     \/ A!OpenMem(p) \/ A!DropRow(p)
  /\ UNCHANGED throttleVars
  /\ Follow(IF request[p].step = "login" THEN {p} ELSE {})

\* locked_until passes.
LockEnds == LockExpires /\ UNCHANGED accountVars /\ Follow({})

\* The process restarts: both maps are empty.
RestartBoth == Restart /\ A!Restart /\ Follow({})

\* A login breaks off.
AbortBoth(p) ==
  /\ IF op[p] = "idle" THEN UNCHANGED throttleVars ELSE Abort(p)
  /\ IF request[p] = A!Idle THEN UNCHANGED accountVars ELSE A!Abort(p)
  /\ ~Free(p)
  /\ Follow({})

SignInNext ==
  \/ \E p \in Procs : LoginBegin(p) \/ LoginRight(p) \/ LoginWrong(p)
                      \/ Settle(p) \/ AccountStep(p) \/ AbortBoth(p)
  \/ LockEnds
  \/ RestartBoth

SignInSpec == SignInInit /\ [][SignInNext]_allVars

-----------------------------------------------------------------------------
\* Every variable of both parts has its type (and Accounts' active users exist
\* and no two sessions share a hash); only a login of Target is between the
\* lock and the check.
SignInTypeOK ==
  /\ TypeOK
  /\ A!TypeOK
  /\ \A p \in Procs : op[p] \in {"check", "fail"} => request[p] = A!Idle
  /\ excused \subseteq Procs

\* Accounts' property, under logins that the throttle lets in: a disabled user
\* is signed in only by a login that had passed its check before the disable,
\* or while the disable is under way or cut off half-way (evict_user).
OnlyLateLoginsOutlive == A!OnlyLateLoginsOutlive

\* Accounts' property: an account never changes its role, although setup and
\* user creation look for the username in one statement and insert in another
\* (users.rs).
RolesStay == A!RolesStay

\* A lock holds against passwords: before its time it is lifted only by a login
\* that was past it when it fell, and so are the sessions that open under it,
\* or they are setup's (login_submit, which reads the lock in one step, lifts it
\* two steps later, and opens the session after two more).
LockHolds ==
  [][locked =>
       \A p \in Procs \ excused :
         /\ ~(ResetThrottle(p))
         /\ ~(A!OpenMem(p) /\ request[p].user = Target)]_allVars
=================================================================================
