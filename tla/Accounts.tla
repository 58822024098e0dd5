------------------------------- MODULE Accounts -------------------------------
(***************************************************************************)
(* User accounts and GUI sessions: first-run setup, user creation, login,  *)
(* logout, disable and enable (src/web/mod.rs, src/users.rs and            *)
(* src/auth/session.rs), as requests interleave between their SQL          *)
(* statements and their accesses to the session map.                       *)
(*                                                                         *)
(* An account is named by its username, which is UNIQUE.  The session map  *)
(* is lost when the process stops; gui_sessions, which is only ever        *)
(* written, is not.  A session's random hash is fresh: no other session    *)
(* has it.  An expired session is refused, and sooner or later removed,    *)
(* the way a logout removes it, so expiry is Leave at any time.  What a    *)
(* failed login changes, the throttle, is the subject of LoginThrottle,    *)
(* and SignIn composes the two; password changes touch neither sessions    *)
(* nor activity.                                                           *)
(*                                                                         *)
(* Definitions marked "mutant" are no part of the specification: each is a *)
(* plausible mistake in the definition that follows it, put in its place   *)
(* to see that a property notices.                                         *)
(***************************************************************************)
EXTENDS Naturals, FiniteSets, Names

CONSTANT Procs \* requests that may be in flight at once

VARIABLES
  account, \* account[u]: "none", or the users row as "master" or "user"
  active,  \* users with active = 1
  live,    \* live[s]: the user of session s in the session map
  row,     \* row[s]: the user of the gui_sessions row of s
  op,      \* op[p]: what request p is about to do
  late,    \* history: live sessions whose user was disabled during the login
  pending  \* history: disabled users whose sessions are not dropped yet

userVars    == <<account, active>>
sessionVars == <<live, row>>
histVars    == <<late, pending>>
vars == <<userVars, sessionVars, op, histVars>>

Step == {"idle", "createMaster", "createUser", "login", "openRow", "openMem",
         "dropRow", "disable", "evictMem", "evictRows", "enable"}
Request == [step : Step, user : Users \cup {NoUser},
            session : Sessions \cup {NoSession}, late : BOOLEAN]
Idle == [step |-> "idle", user |-> NoUser, session |-> NoSession,
         late |-> FALSE]
At(p, step) == op[p].step = step
Finish(p) == op' = [op EXCEPT ![p] = Idle]
Goto(p, step, u) == op' = [op EXCEPT ![p] = [Idle EXCEPT !.step = step,
                                                         !.user = u]]

Exist == {u \in Users : account[u] # "none"}
Live == {s \in Sessions : live[s] # NoUser}
OneSessionOf(u) == IF \E s \in Sessions : live[s] = u \* mutant
                   THEN {CHOOSE s \in Sessions : live[s] = u} ELSE {}
SessionsOf(u) == {s \in Sessions : live[s] = u}
SignedIn(u) == SessionsOf(u) # {}
OpeningFor(p) == op[p].step \in {"openRow", "openMem"}

Init ==
  /\ account = [u \in Users |-> "none"] /\ active = {}
  /\ live = [s \in Sessions |-> NoUser]
  /\ row = [s \in Sessions |-> NoUser]
  /\ op = [p \in Procs |-> Idle]
  /\ late = {} /\ pending = {}

-----------------------------------------------------------------------------
(* Creating accounts                                                        *)

\* count_users finds nobody.
NoUsersYet == Exist = {}

\* setup_submit: no user exists yet.
SetupBegin(p, u) ==
  /\ op[p] = Idle
  /\ NoUsersYet
  /\ Goto(p, "createMaster", u)
  /\ UNCHANGED <<userVars, sessionVars, histVars>>

\* users_create: a signed-in master, and a username not taken.
CreateBegin(p, m, u) ==
  /\ op[p] = Idle
  /\ SignedIn(m) /\ account[m] = "master"
  /\ account[u] = "none"
  /\ Goto(p, "createUser", u)
  /\ UNCHANGED <<userVars, sessionVars, histVars>>

\* UNIQUE on the username.
NameUnchecked(u) == TRUE \* mutant
NameFree(u) == u \notin Exist

\* The INSERT of create_user.  Setup goes on to sign the new master in.
CreateInsert(p) ==
  LET u == op[p].user
      asMaster == At(p, "createMaster") IN
  /\ op[p].step \in {"createMaster", "createUser"}
  /\ NameFree(u)
  /\ account' = [account EXCEPT ![u] = IF asMaster THEN "master" ELSE "user"]
  /\ active' = active \cup {u}
  /\ IF asMaster THEN Goto(p, "login", u) ELSE Finish(p)
  /\ UNCHANGED <<sessionVars, histVars>>

\* The username was taken meanwhile.
CreateRefused(p) ==
  /\ op[p].step \in {"createMaster", "createUser"}
  /\ ~NameFree(op[p].user)
  /\ Finish(p)
  /\ UNCHANGED <<userVars, sessionVars, histVars>>

-----------------------------------------------------------------------------
(* Signing in and out                                                       *)

\* A random hash nobody else uses.
NotInMemory(s) == live[s] = NoUser \* mutant
Fresh(s) ==
  /\ live[s] = NoUser /\ row[s] = NoUser
  /\ \A q \in Procs : op[q].session # s

\* The bound: a session is left for every login past its check.
Room == Cardinality({q \in Procs : At(q, "openRow")})
        < Cardinality({s \in Sessions : Fresh(s)})

\* authenticate reads an active user's row and the password is right, for a
\* login request or at the end of setup.
Authenticate(p, u) ==
  /\ op[p] = Idle \/ (At(p, "login") /\ op[p].user = u)
  /\ u \in Exist \cap active
  /\ Room
  /\ Goto(p, "openRow", u)
  /\ UNCHANGED <<userVars, sessionVars, histVars>>

\* Setup's own login finds the new account already disabled.
AuthenticateFails(p) ==
  /\ At(p, "login")
  /\ op[p].user \notin active
  /\ Finish(p)
  /\ UNCHANGED <<userVars, sessionVars, histVars>>

\* create_session: first the gui_sessions row ...
OpenRow(p, s) ==
  /\ At(p, "openRow")
  /\ Fresh(s)
  /\ row' = [row EXCEPT ![s] = op[p].user]
  /\ op' = [op EXCEPT ![p].step = "openMem", ![p].session = s]
  /\ UNCHANGED <<userVars, live, histVars>>

\* ... then the session map.
OpenMem(p) ==
  LET s == op[p].session IN
  /\ At(p, "openMem")
  /\ live' = [live EXCEPT ![s] = op[p].user]
  /\ late' = IF op[p].late THEN late \cup {s} ELSE late
  /\ Finish(p)
  /\ UNCHANGED <<userVars, row, pending>>

\* evict, for a logout or an expired session: first the session map ...
Leave(p, s) ==
  /\ op[p] = Idle
  /\ s \in Live
  /\ live' = [live EXCEPT ![s] = NoUser]
  /\ late' = late \ {s}
  /\ op' = [op EXCEPT ![p] = [Idle EXCEPT !.step = "dropRow", !.session = s]]
  /\ UNCHANGED <<userVars, row, pending>>

\* ... then the row.
DropRow(p) ==
  /\ At(p, "dropRow")
  /\ row' = [row EXCEPT ![op[p].session] = NoUser]
  /\ Finish(p)
  /\ UNCHANGED <<userVars, live, histVars>>

-----------------------------------------------------------------------------
(* Disabling and enabling                                                   *)

\* The accounts a master m may ask to disable: not their own.
Others(m) == Exist \ {m}

\* user_disable: a signed-in master, about somebody else.
DisableBegin(p, m, u) ==
  /\ op[p] = Idle
  /\ SignedIn(m) /\ account[m] = "master"
  /\ u \in Others(m)
  /\ Goto(p, "disable", u)
  /\ UNCHANGED <<userVars, sessionVars, histVars>>

\* The UPDATE.  Logins of u that are past their check are late from now on.
SetInactive(p) ==
  LET u == op[p].user IN
  /\ At(p, "disable")
  /\ active' = active \ {u}
  /\ pending' = pending \cup {u}
  /\ op' = [q \in Procs |->
              IF q = p THEN [op[p] EXCEPT !.step = "evictMem"]
              ELSE IF OpeningFor(q) /\ op[q].user = u
                   THEN [op[q] EXCEPT !.late = TRUE] ELSE op[q]]
  /\ UNCHANGED <<account, sessionVars, late>>

\* evict_user: the user's sessions leave the map ...
EvictMem(p) ==
  LET gone == SessionsOf(op[p].user) IN
  /\ At(p, "evictMem")
  /\ live' = [s \in Sessions |-> IF s \in gone THEN NoUser ELSE live[s]]
  /\ late' = late \ gone
  /\ pending' = pending \ {op[p].user}
  /\ op' = [op EXCEPT ![p].step = "evictRows"]
  /\ UNCHANGED <<userVars, row>>

\* ... and then gui_sessions.
EvictRows(p) ==
  /\ At(p, "evictRows")
  /\ row' = [s \in Sessions |-> IF row[s] = op[p].user THEN NoUser ELSE row[s]]
  /\ Finish(p)
  /\ UNCHANGED <<userVars, live, histVars>>

\* user_enable.
EnableBegin(p, m, u) ==
  /\ op[p] = Idle
  /\ SignedIn(m) /\ account[m] = "master"
  /\ u \in Exist
  /\ Goto(p, "enable", u)
  /\ UNCHANGED <<userVars, sessionVars, histVars>>

SetActive(p) ==
  /\ At(p, "enable")
  /\ active' = active \cup {op[p].user}
  /\ Finish(p)
  /\ UNCHANGED <<account, sessionVars, histVars>>

-----------------------------------------------------------------------------
(* Failures                                                                 *)

\* The process stops and starts again, with an empty session map.
Restart ==
  /\ live' = [s \in Sessions |-> NoUser]
  /\ op' = [p \in Procs |-> Idle]
  /\ late' = {} /\ pending' = {}
  /\ UNCHANGED <<userVars, row>>

\* A request ends between two steps: the client hung up, or SQL failed.
Abort(p) ==
  /\ op[p] # Idle
  /\ Finish(p)
  /\ UNCHANGED <<userVars, sessionVars, histVars>>

-----------------------------------------------------------------------------
CreateStep(p) ==
  \/ \E u \in Users : SetupBegin(p, u)
  \/ \E m, u \in Users : CreateBegin(p, m, u)
  \/ CreateInsert(p) \/ CreateRefused(p)

SessionStep(p) ==
  \/ \E u \in Users : Authenticate(p, u)
  \/ AuthenticateFails(p)
  \/ \E s \in Sessions : OpenRow(p, s) \/ Leave(p, s)
  \/ OpenMem(p) \/ DropRow(p)

ActivityStep(p) ==
  \/ \E m, u \in Users : DisableBegin(p, m, u) \/ EnableBegin(p, m, u)
  \/ SetInactive(p) \/ EvictMem(p) \/ EvictRows(p) \/ SetActive(p)

\* Steps of a system in which every started request runs to its answer.
Undisturbed ==
  \E p \in Procs : CreateStep(p) \/ SessionStep(p) \/ ActivityStep(p)

Next == Undisturbed \/ Restart \/ \E p \in Procs : Abort(p)

Spec == Init /\ [][Next]_vars
UndisturbedSpec == Init /\ [][Undisturbed]_vars

-----------------------------------------------------------------------------
\* Every variable has its type; active users and users of sessions exist;
\* and no two sessions, live or being opened, share a hash.
TypeOK ==
  /\ account \in [Users -> {"none", "master", "user"}]
  /\ active \subseteq Exist
  /\ live \in [Sessions -> Exist \cup {NoUser}]
  /\ row \in [Sessions -> Exist \cup {NoUser}]
  /\ op \in [Procs -> Request]
  /\ \A p \in Procs : At(p, "openMem") => op[p].session \notin Live
  /\ late \subseteq Live
  /\ pending \subseteq Exist

\* However requests interleave and break off, a disabled user is signed in
\* only while the disable is under way or cut off half-way, or by a login
\* that had passed its check before the disable (session.rs, evict_user).
OnlyLateLoginsOutlive ==
  \A s \in Live : live[s] \in active \cup pending \/ s \in late

\* An account never changes its role, although setup and user creation look
\* for the username in one statement and insert in another (users.rs).
RolesStay == [][\A u \in Exist : account'[u] = account[u]]_vars

-----------------------------------------------------------------------------
\* web/mod.rs on setup: "Create the master user (only when none exist)".
\* There is one master at most.
OneMaster == Cardinality({u \in Users : account[u] = "master"}) <= 1
=============================================================================
