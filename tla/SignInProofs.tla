------------------------------ MODULE SignInProofs ------------------------------
(***************************************************************************)
(* Theorems about LoginThrottle and SignIn, for any users, sessions,       *)
(* requests and limit: first the bound on failed logins, of LoginThrottle  *)
(* by itself.  Whatever SignIn does is a behaviour of LoginThrottle and of *)
(* Accounts, so that what is proved of either holds of it; that the lock   *)
(* holds against passwords is a fact about both.                           *)
(***************************************************************************)
EXTENDS SignIn, FiniteSetTheorems, TLAPS

AP == INSTANCE AccountsProofs WITH op <- request

-----------------------------------------------------------------------------
(* The lock by itself: Spec, TypeOK and op here are those of LoginThrottle  *)

Busy == {p \in Procs : op[p] # "idle"}

\* Why attempts cannot run away: an open name counts every recorded failure, and
\* a locked one admits nobody, so each further failure uses up a request that
\* got in before.
Counted ==
  /\ ~locked => recorded <= failures
  /\ locked => recorded + Cardinality(Busy) <= MaxAttempts + Cardinality(Procs) - 1

\* The inductive strengthening of TypeOK and FailuresBounded.
Throttled == TypeOK /\ Counted

LEMMA BusyFinite ==
  /\ IsFiniteSet(Busy) /\ Cardinality(Busy) \in Nat
  /\ Cardinality(Procs) \in Nat
  /\ Cardinality(Busy) <= Cardinality(Procs)
  /\ IsFiniteSet(AtStep("fail")) /\ Cardinality(AtStep("fail")) \in Nat
  /\ Cardinality(AtStep("fail")) <= Cardinality(Busy)
<1>1. Busy \subseteq Procs
  BY DEF Busy
<1>2. AtStep("fail") \subseteq Busy
  BY DEF AtStep, Busy
<1>3. IsFiniteSet(Busy) /\ Cardinality(Busy) <= Cardinality(Procs)
  BY <1>1, ProcsAssumption, FS_Subset
<1>4. IsFiniteSet(AtStep("fail")) /\ Cardinality(AtStep("fail")) <= Cardinality(Busy)
  BY <1>2, <1>3, FS_Subset
<1> QED
  BY <1>3, <1>4, ProcsAssumption, FS_CardinalityType

\* A request that ends is one busy request less.
LEMMA EndsBusy ==
  ASSUME TypeOK, NEW p \in Procs, op[p] # "idle", Goto(p, "idle")
  PROVE  Cardinality(Busy)' = Cardinality(Busy) - 1 /\ Cardinality(Busy) >= 1
<1>1. Busy' = Busy \ {p} /\ p \in Busy
  BY DEF Busy, Goto, TypeOK, Step
<1>2. Cardinality(Busy \ {p}) = Cardinality(Busy) - 1
  BY <1>1, BusyFinite, FS_RemoveElement
<1>3. Cardinality(Busy \ {p}) \in Nat
  BY BusyFinite, FS_Subset, FS_CardinalityType
<1> QED
  BY <1>1, <1>2, <1>3, BusyFinite

\* What Counted comes to in an open name and in a locked one.
LEMMA OpenCounted ==
  ASSUME ~locked', recorded' <= failures'
  PROVE  Counted'
BY DEF Counted

LEMMA LockedCounted ==
  ASSUME locked',
         recorded' + Cardinality(Busy)' <= MaxAttempts + Cardinality(Procs) - 1
  PROVE  Counted'
BY DEF Counted

LEMMA InitThrottled == Init => Throttled
<1> SUFFICES ASSUME Init PROVE Throttled
  OBVIOUS
<1>1. failures \in 0..(MaxAttempts - 1) /\ recorded \in Nat /\ recorded <= failures
  BY MaxAttemptsAssumption DEF Init
<1> QED
  BY <1>1 DEF Init, Throttled, TypeOK, Counted, Step

LEMMA NextThrottled == Throttled /\ [Next]_vars => Throttled'
<1> SUFFICES ASSUME Throttled, [Next]_vars PROVE Throttled'
  OBVIOUS
<1>typed. /\ TypeOK /\ failures \in Nat /\ recorded \in Nat
          /\ failures <= MaxAttempts - 1 /\ MaxAttempts \in Nat \ {0}
  BY MaxAttemptsAssumption DEF Throttled, TypeOK
<1>card. /\ Cardinality(Busy) \in Nat /\ Cardinality(Procs) \in Nat
         /\ Cardinality(Busy) <= Cardinality(Procs)
  BY BusyFinite
<1>1. ASSUME NEW p \in Procs, Enter(p) PROVE Throttled'
  BY <1>1, <1>typed DEF Enter, Goto, Throttled, TypeOK, Counted, Step
<1>2. ASSUME NEW p \in Procs, Check(p) PROVE Throttled'
  <2>1. Busy' = Busy
    BY <1>2, <1>typed DEF Check, Goto, Busy, TypeOK, Step
  <2> QED
    BY <1>2, <1>typed, <2>1 DEF Check, Goto, Throttled, TypeOK, Counted, Step
<1>3. ASSUME NEW p \in Procs, RecordFailure(p) PROVE Throttled'
  <2>1. Cardinality(Busy)' = Cardinality(Busy) - 1 /\ Cardinality(Busy) >= 1
    BY <1>3, <1>typed, EndsBusy DEF RecordFailure
  <2>2. TypeOK'
    BY <1>3, <1>typed DEF RecordFailure, Goto, LastAllowed, TypeOK, Step
  <2>3. CASE locked
    <3>1. recorded + Cardinality(Busy) <= MaxAttempts + Cardinality(Procs) - 1
      BY <2>3 DEF Throttled, Counted
    <3>2. recorded' = recorded + 1 /\ locked'
      BY <1>3, <2>3 DEF RecordFailure
    <3>3. recorded' + Cardinality(Busy)' <= MaxAttempts + Cardinality(Procs) - 1
      BY <1>typed, <1>card, <2>1, <3>1, <3>2
    <3> QED
      BY <2>2, <3>2, <3>3, LockedCounted DEF Throttled
  <2>4. CASE ~locked
    <3>1. recorded <= failures
      BY <2>4 DEF Throttled, Counted
    <3>2. recorded' = recorded + 1
      BY <1>3 DEF RecordFailure
    <3>3. CASE LastAllowed
      <4>1. locked'
        BY <1>3, <3>3 DEF RecordFailure
      <4>2. recorded' + Cardinality(Busy)' <= MaxAttempts + Cardinality(Procs) - 1
        BY <1>typed, <1>card, <2>1, <3>1, <3>2
      <4> QED
        BY <2>2, <4>1, <4>2, LockedCounted DEF Throttled
    <3>4. CASE ~LastAllowed
      <4>1. ~locked'
        BY <1>3, <2>4, <3>4 DEF RecordFailure
      <4>2. failures' = failures + 1
        BY <1>3, <3>4 DEF RecordFailure
      <4>3. recorded' <= failures'
        BY <1>typed, <3>1, <3>2, <4>2
      <4> QED
        BY <2>2, <4>1, <4>3, OpenCounted DEF Throttled
    <3> QED BY <3>3, <3>4
  <2> QED BY <2>3, <2>4
<1>4. ASSUME NEW p \in Procs, ResetThrottle(p) PROVE Throttled'
  <2>1. failures' = 0 /\ recorded' = 0 /\ ~locked' /\ locked' \in BOOLEAN
    BY <1>4 DEF ResetThrottle
  <2>2. TypeOK'
    <3>1. op' = [op EXCEPT ![p] = "idle"]
      BY <1>4 DEF ResetThrottle, Goto
    <3> QED
      BY <1>typed, <2>1, <3>1 DEF TypeOK, Step
  <2> QED
    BY <2>1, <2>2, OpenCounted DEF Throttled
<1>5. ASSUME NEW p \in Procs, Abort(p) PROVE Throttled'
  <2>1. Cardinality(Busy)' = Cardinality(Busy) - 1
    BY <1>5, <1>typed, EndsBusy DEF Abort
  <2>2. TypeOK'
    BY <1>5, <1>typed DEF Abort, Goto, TypeOK, Step
  <2> QED
    BY <1>5, <1>typed, <1>card, <2>1, <2>2 DEF Abort, Throttled, Counted
<1>6. ASSUME LockExpires PROVE Throttled'
  <2>1. failures' = failures /\ recorded' = 0 /\ ~locked' /\ locked' \in BOOLEAN
    BY <1>6 DEF LockExpires
  <2>2. TypeOK'
    <3>1. op' = op
      BY <1>6 DEF LockExpires
    <3> QED
      BY <1>typed, <2>1, <3>1 DEF TypeOK
  <2>3. recorded' <= failures'
    BY <1>typed, <2>1
  <2> QED
    BY <2>1, <2>2, <2>3, OpenCounted DEF Throttled
<1>7. ASSUME Restart PROVE Throttled'
  <2>1. failures' = 0 /\ recorded' = 0 /\ ~locked' /\ locked' \in BOOLEAN
    BY <1>7 DEF Restart
  <2>2. TypeOK'
    <3>1. op' = [q \in Procs |-> "idle"]
      BY <1>7 DEF Restart
    <3> QED
      BY <1>typed, <2>1, <3>1 DEF TypeOK, Step
  <2> QED
    BY <2>1, <2>2, OpenCounted DEF Throttled
<1>8. CASE UNCHANGED vars
  BY <1>8 DEF vars, Throttled, TypeOK, Counted, Busy
<1> QED
  BY <1>1, <1>2, <1>3, <1>4, <1>5, <1>6, <1>7, <1>8 DEF Next

LEMMA AlwaysThrottled == Spec => []Throttled
BY InitThrottled, NextThrottled, PTL DEF Spec

\* Every variable always has its type, and an open name has failures to spare.
THEOREM TypeCorrect == Spec => []TypeOK
<1>1. Throttled => TypeOK
  BY DEF Throttled
<1> QED
  BY <1>1, AlwaysThrottled, PTL

\* Between two openings of a name, logins that all saw it open overshoot the
\* limit by at most the other requests in flight.
THEOREM AttemptsBounded == Spec => []FailuresBounded
<1>1. Throttled => FailuresBounded
  <2> SUFFICES ASSUME Throttled PROVE FailuresBounded
    OBVIOUS
  <2>1. /\ failures \in Nat /\ recorded \in Nat /\ failures <= MaxAttempts - 1
        /\ MaxAttempts \in Nat
    BY MaxAttemptsAssumption DEF Throttled, TypeOK
  <2>2. CASE locked
    BY <2>1, <2>2, BusyFinite DEF Throttled, Counted, FailuresBounded
  <2>3. CASE ~locked
    BY <2>1, <2>3, BusyFinite DEF Throttled, Counted, FailuresBounded
  <2> QED BY <2>2, <2>3
<1> QED
  BY <1>1, AlwaysThrottled, PTL

-----------------------------------------------------------------------------
(* The parts                                                                *)

LEMMA ThrottleStep == [SignInNext]_allVars => [Next]_vars
<1> SUFFICES ASSUME [SignInNext]_allVars PROVE [Next]_vars
  OBVIOUS
<1> USE DEF throttleVars, vars
<1>1. ASSUME NEW p \in Procs, LoginBegin(p) PROVE Next
  BY <1>1 DEF LoginBegin, Next
<1>2. ASSUME NEW p \in Procs, LoginRight(p) \/ LoginWrong(p) PROVE Next
  BY <1>2 DEF LoginRight, LoginWrong, Next, Check
<1>3. ASSUME NEW p \in Procs, Settle(p) PROVE Next
  BY <1>3 DEF Settle, Next
<1>4. ASSUME NEW p \in Procs, AccountStep(p) PROVE UNCHANGED vars
  BY <1>4 DEF AccountStep
<1>5. ASSUME NEW p \in Procs, AbortBoth(p) PROVE Next \/ UNCHANGED vars
  BY <1>5 DEF AbortBoth, Next
<1>6. ASSUME LockEnds \/ RestartBoth PROVE Next
  BY <1>6 DEF LockEnds, RestartBoth, Next
<1>7. CASE UNCHANGED allVars
  BY <1>7 DEF allVars
<1> QED
  BY <1>1, <1>2, <1>3, <1>4, <1>5, <1>6, <1>7 DEF SignInNext

LEMMA AccountsStep == [SignInNext]_allVars => [A!Next]_(A!vars)
<1> SUFFICES ASSUME [SignInNext]_allVars PROVE [A!Next]_(A!vars)
  OBVIOUS
<1> DEFINE Same == UNCHANGED A!vars
<1>0. UNCHANGED accountVars => Same
  BY DEF accountVars, A!vars, A!userVars, A!sessionVars, A!histVars
<1>1. ASSUME NEW p \in Procs, LoginBegin(p) \/ LoginWrong(p) \/ Settle(p)
      PROVE  Same
  BY <1>0, <1>1 DEF LoginBegin, LoginWrong, Settle
<1>2. ASSUME NEW p \in Procs, LoginRight(p) PROVE A!Next
  <2>1. A!Authenticate(p, Target)
    BY <1>2 DEF LoginRight
  <2>2. A!SessionStep(p)
    BY <2>1, TargetAssumption DEF A!SessionStep
  <2> QED
    BY <2>2 DEF A!Next, A!Undisturbed
<1>3. ASSUME NEW p \in Procs, AccountStep(p) PROVE A!Next
  <2>1. A!CreateStep(p) \/ A!SessionStep(p) \/ A!ActivityStep(p)
    BY <1>3, TargetAssumption DEF AccountStep, A!SessionStep
  <2> QED
    BY <2>1 DEF A!Next, A!Undisturbed
<1>4. ASSUME NEW p \in Procs, AbortBoth(p) PROVE A!Next \/ Same
  BY <1>0, <1>4 DEF AbortBoth, A!Next
<1>5. CASE LockEnds
  BY <1>0, <1>5 DEF LockEnds
<1>6. CASE RestartBoth
  BY <1>6 DEF RestartBoth, A!Next
<1>7. CASE UNCHANGED allVars
  BY <1>0, <1>7 DEF allVars
<1> QED
  BY <1>1, <1>2, <1>3, <1>4, <1>5, <1>6, <1>7 DEF SignInNext

\* What login_submit does to the throttle is what LoginThrottle says, and what
\* it does to accounts and sessions is what Accounts says.
THEOREM Composes == SignInSpec => Spec /\ A!Spec
<1>1. SignInInit => Init /\ A!Init
  BY DEF SignInInit
<1> QED
  BY <1>1, ThrottleStep, AccountsStep, PTL DEF SignInSpec, Spec, A!Spec

\* The bound on failed logins holds for logins that open sessions
\* (record_failure).
THEOREM SignInBounded == SignInSpec => []FailuresBounded
BY Composes, AttemptsBounded, PTL

-----------------------------------------------------------------------------
(* Accounts' theorems                                                       *)

\* tlapm keeps apart what A and AP instantiate; each definition unfolds to the
\* same formula.
LEMMA SameVars == A!vars = AP!vars
BY DEF A!vars, AP!vars, A!userVars, AP!userVars, A!sessionVars,
       AP!sessionVars, A!histVars, AP!histVars

LEMMA SameNames == A!NoUser = AP!NoUser /\ A!NoSession = AP!NoSession
BY DEF A!NoUser, AP!NoUser, A!NoSession, AP!NoSession

LEMMA SameSize == \A S : A!Cardinality(S) = AP!Cardinality(S)
BY DEF A!Cardinality, AP!Cardinality

LEMMA SameNext == A!Next <=> AP!Next
<1> USE DEF A!userVars, AP!userVars, A!sessionVars, AP!sessionVars, A!histVars,
            AP!histVars, A!NoUser, AP!NoUser, A!NoSession, AP!NoSession,
            A!Idle, AP!Idle, A!At, AP!At, A!Goto, AP!Goto, A!Finish, AP!Finish,
            A!Exist, AP!Exist, A!Live, AP!Live, A!SessionsOf, AP!SessionsOf
<1>1. \A p \in Procs : A!CreateStep(p) <=> AP!CreateStep(p)
  BY DEF A!CreateStep, AP!CreateStep, A!SetupBegin, AP!SetupBegin,
         A!NoUsersYet, AP!NoUsersYet, A!CreateBegin, AP!CreateBegin, A!SignedIn,
         AP!SignedIn, A!NameFree, AP!NameFree, A!CreateInsert, AP!CreateInsert,
         A!CreateRefused, AP!CreateRefused
<1>2. \A p \in Procs, u \in Users :
        A!Authenticate(p, u) <=> AP!Authenticate(p, u)
  <2>1. A!Room <=> AP!Room
    BY SameSize DEF A!Room, AP!Room, A!Fresh, AP!Fresh
  <2> QED
    BY <2>1 DEF A!Authenticate, AP!Authenticate
<1>3. \A p \in Procs : A!AuthenticateFails(p) <=> AP!AuthenticateFails(p)
  BY DEF A!AuthenticateFails, AP!AuthenticateFails
<1>4. \A p \in Procs, s \in Sessions :
        A!OpenRow(p, s) \/ A!Leave(p, s) <=> AP!OpenRow(p, s) \/ AP!Leave(p, s)
  BY DEF A!OpenRow, AP!OpenRow, A!Fresh, AP!Fresh, A!Leave, AP!Leave
<1>5. \A p \in Procs :
        A!OpenMem(p) \/ A!DropRow(p) <=> AP!OpenMem(p) \/ AP!DropRow(p)
  BY DEF A!OpenMem, AP!OpenMem, A!DropRow, AP!DropRow
<1>6. \A p \in Procs : A!SessionStep(p) <=> AP!SessionStep(p)
  BY <1>2, <1>3, <1>4, <1>5 DEF A!SessionStep, AP!SessionStep
<1>7. \A p \in Procs : A!ActivityStep(p) <=> AP!ActivityStep(p)
  BY DEF A!ActivityStep, AP!ActivityStep, A!DisableBegin, AP!DisableBegin,
         A!EnableBegin, AP!EnableBegin, A!SignedIn, AP!SignedIn, A!Others,
         AP!Others, A!SetInactive, AP!SetInactive, A!OpeningFor, AP!OpeningFor,
         A!EvictMem, AP!EvictMem, A!EvictRows, AP!EvictRows, A!SetActive,
         AP!SetActive
<1>8. A!Restart <=> AP!Restart
  BY DEF A!Restart, AP!Restart
<1>9. \A p \in Procs : A!Abort(p) <=> AP!Abort(p)
  BY DEF A!Abort, AP!Abort
<1> QED
  BY <1>1, <1>6, <1>7, <1>8, <1>9
  DEF A!Next, AP!Next, A!Undisturbed, AP!Undisturbed
LEMMA SameSpec == A!Spec <=> AP!Spec
<1>1. A!Init <=> AP!Init
  BY SameNames DEF A!Init, AP!Init, A!Idle, AP!Idle
<1>2. [A!Next]_(A!vars) <=> [AP!Next]_(AP!vars)
  BY SameNext DEF A!vars, AP!vars, A!userVars, AP!userVars, A!sessionVars,
                  AP!sessionVars, A!histVars, AP!histVars
<1> QED
  BY <1>1, <1>2, PTL DEF A!Spec, AP!Spec

\* Every variable of both parts has its type.
LEMMA AccountsTyped == SignInSpec => []A!TypeOK
<1>1. A!TypeOK <=> AP!TypeOK
  BY SameNames DEF A!TypeOK, AP!TypeOK, A!Exist, AP!Exist, A!Live, AP!Live,
                   A!At, AP!At, A!Request, AP!Request, A!Step, AP!Step
<1>2. AP!Spec => []AP!TypeOK
  BY AP!TypeCorrect, NoneAssumption, SameNames
  DEF A!NoUser, A!NoSession, NoUser, NoSession
<1> QED
  BY <1>1, <1>2, Composes, SameSpec, PTL

\* The disabled stay signed out, whatever the throttle lets in (evict_user).
THEOREM SignInDisabled == SignInSpec => []OnlyLateLoginsOutlive
<1>1. OnlyLateLoginsOutlive <=> AP!OnlyLateLoginsOutlive
  BY SameNames DEF OnlyLateLoginsOutlive, A!OnlyLateLoginsOutlive,
                   AP!OnlyLateLoginsOutlive, A!Live, AP!Live
<1>2. AP!Spec => []AP!OnlyLateLoginsOutlive
  BY AP!DisabledSignedOut, NoneAssumption, SameNames
  DEF A!NoUser, A!NoSession, NoUser, NoSession
<1> QED
  BY <1>1, <1>2, Composes, SameSpec, PTL

\* Nobody's role changes (create_user).
THEOREM SignInRoles == SignInSpec => RolesStay
<1>1. [\A u \in AP!Exist : account'[u] = account[u]]_(AP!vars)
        => [\A u \in A!Exist : account'[u] = account[u]]_(A!vars)
  BY SameNames DEF A!Exist, AP!Exist, A!vars, AP!vars, A!userVars, AP!userVars,
                   A!sessionVars, AP!sessionVars, A!histVars, AP!histVars
<1>2. AP!Spec => AP!RolesStay
  BY AP!RolesPermanent, NoneAssumption, SameNames
  DEF A!NoUser, A!NoSession, NoUser, NoSession
<1> QED
  BY <1>1, <1>2, Composes, SameSpec, PTL
     DEF RolesStay, A!RolesStay, AP!RolesStay

-----------------------------------------------------------------------------
(* The lock                                                                 *)

\* What of SignInTypeOK belongs to neither part, and its inductiveness.
Between ==
  /\ \A p \in Procs : op[p] \in {"check", "fail"} => request[p] = A!Idle
  /\ excused \subseteq Procs

\* While the lock is down whoever is inside has an excuse: the inductive
\* strengthening of LockHolds.
InsideExcused == locked => \A p \in Procs : Inside(p) => p \in excused

LEMMA Following ==
  ASSUME InsideExcused, NEW setup \in SUBSET Procs, Follow(setup),
         locked' => \A p \in Procs : Inside(p)' => Inside(p) \/ p \in setup
  PROVE  InsideExcused'
<1> SUFFICES ASSUME locked', NEW p \in Procs, Inside(p)' PROVE p \in excused'
  BY DEF InsideExcused
<1>1. ~(op'[p] = "idle" /\ request'[p] = A!Idle)
  BY DEF Inside, A!OpeningFor, A!Idle
<1>2. p \in setup \/ (locked /\ p \in excused) \/ (~locked /\ Inside(p))
  BY DEF InsideExcused
<1> QED
  BY <1>1, <1>2 DEF Follow

\* Requests other than p's stay as they are, and p's becomes r.
LEMMA Replaced ==
  ASSUME A!TypeOK, NEW p \in Procs, NEW r, request' = [request EXCEPT ![p] = r]
  PROVE  /\ request'[p] = r
         /\ \A q \in Procs \ {p} : request'[q] = request[q]
BY DEF A!TypeOK

\* No step that Accounts takes alone brings anybody inside, except the login at
\* the end of setup.
LEMMA AccountInside ==
  ASSUME TypeOK, A!TypeOK, Between, NEW p \in Procs, AccountStep(p)
  PROVE  /\ \A q \in Procs : Inside(q)' =>
              Inside(q) \/ q \in (IF request[p].step = "login" THEN {p} ELSE {})
         /\ \A q \in Procs : request[q] = A!Idle /\ q # p => request'[q] = A!Idle
<1> DEFINE Entrants == IF request[p].step = "login" THEN {p} ELSE {}
           Goal == /\ \A q \in Procs : Inside(q)' => Inside(q) \/ q \in Entrants
                   /\ \A q \in Procs : request[q] = A!Idle /\ q # p
                                         => request'[q] = A!Idle
<1>0. op[p] = "idle" /\ op' = op
  BY DEF AccountStep, throttleVars
<1>1. ASSUME NEW r, request' = [request EXCEPT ![p] = r],
             r.step \in {"openRow", "openMem"} =>
               \/ r.user # Target \/ p \in Entrants
               \/ request[p].user = r.user /\ request[p].step = "openRow"
      PROVE  Goal
  <2>1. /\ request'[p] = r
        /\ \A q \in Procs \ {p} : request'[q] = request[q]
    BY <1>1, Replaced
  <2> QED
    BY <1>0, <1>1, <2>1 DEF Inside, A!OpeningFor
<1>2. ASSUME NEW step \in A!Step \ {"openRow", "openMem"}, NEW u \in Users,
             A!Goto(p, step, u)
      PROVE  Goal
  <2> DEFINE r == [A!Idle EXCEPT !.step = step, !.user = u]
  <2>1. r.step = step
    BY DEF A!Idle
  <2>2. request' = [request EXCEPT ![p] = r]
    BY <1>2 DEF A!Goto
  <2> HIDE DEF r, Goal
  <2> QED
    BY <1>1, <2>1, <2>2
<1>3. ASSUME A!Finish(p) PROVE Goal
  BY <1>1, <1>3 DEF A!Finish, A!Idle
<1>4. CASE A!CreateStep(p)
  <2>1. ASSUME NEW u \in Users, A!SetupBegin(p, u) PROVE Goal
    BY <1>2, <2>1 DEF A!SetupBegin, A!Step
  <2>2. ASSUME NEW m \in Users, NEW u \in Users, A!CreateBegin(p, m, u)
        PROVE  Goal
    BY <1>2, <2>2 DEF A!CreateBegin, A!Step
  <2>3. CASE A!CreateInsert(p)
    <3>1. CASE A!Finish(p)
      BY <1>3, <3>1
    <3>2. CASE A!Goto(p, "login", request[p].user)
      <4> DEFINE r == [A!Idle EXCEPT !.step = "login", !.user = request[p].user]
      <4>1. r.step = "login" /\ request' = [request EXCEPT ![p] = r]
        BY <3>2 DEF A!Goto, A!Idle
      <4> HIDE DEF r
      <4> QED
        BY <1>1, <4>1
    <3> QED
      BY <2>3, <3>1, <3>2 DEF A!CreateInsert
  <2>4. CASE A!CreateRefused(p)
    BY <1>3, <2>4 DEF A!CreateRefused
  <2> QED
    BY <1>4, <2>1, <2>2, <2>3, <2>4 DEF A!CreateStep
<1>5. CASE A!ActivityStep(p)
  <2>1. ASSUME NEW m \in Users, NEW u \in Users,
               A!DisableBegin(p, m, u) \/ A!EnableBegin(p, m, u)
        PROVE  Goal
    BY <1>2, <2>1 DEF A!DisableBegin, A!EnableBegin, A!Step
  <2>2. CASE A!SetInactive(p)
    <3>1. \A q \in Procs :
            request'[q] = IF q = p THEN [request[p] EXCEPT !.step = "evictMem"]
                          ELSE IF A!OpeningFor(q) /\ request[q].user = request[p].user
                               THEN [request[q] EXCEPT !.late = TRUE]
                               ELSE request[q]
      BY <2>2 DEF A!SetInactive, A!OpeningFor
    <3>2. request \in [Procs -> A!Request]
      BY DEF A!TypeOK
    <3>3. \A q \in Procs : A!OpeningFor(q)' => q # p
      <4>1. request'[p].step = "evictMem"
        BY <3>1, <3>2 DEF A!Request
      <4> QED
        BY <4>1 DEF A!OpeningFor
    <3>4. \A q \in Procs \ {p} : request'[q].step = request[q].step
                                 /\ request'[q].user = request[q].user
      BY <3>1, <3>2 DEF A!Request
    <3>5. \A q \in Procs : request[q] = A!Idle => ~A!OpeningFor(q)
      BY DEF A!Idle, A!OpeningFor
    <3> QED
      BY <1>0, <3>1, <3>3, <3>4, <3>5 DEF Inside, A!OpeningFor
  <2>3. CASE A!EvictMem(p)
    <3> DEFINE r == [request[p] EXCEPT !.step = "evictRows"]
    <3>1. request[p] \in A!Request
      BY DEF A!TypeOK
    <3>2. r.step = "evictRows"
      BY <3>1 DEF A!Request
    <3>3. request' = [request EXCEPT ![p] = r]
      BY <2>3 DEF A!EvictMem
    <3> HIDE DEF r
    <3> QED
      BY <1>1, <3>2, <3>3
  <2>4. CASE A!EvictRows(p) \/ A!SetActive(p)
    BY <1>3, <2>4 DEF A!EvictRows, A!SetActive
  <2> QED
    BY <1>5, <2>1, <2>2, <2>3, <2>4 DEF A!ActivityStep
<1>6. ASSUME NEW u \in Users, A!Authenticate(p, u),
             u # Target \/ request[p].step = "login"
      PROVE  Goal
  <2> DEFINE r == [A!Idle EXCEPT !.step = "openRow", !.user = u]
  <2>1. r.user = u
    BY DEF A!Idle
  <2>2. request' = [request EXCEPT ![p] = r]
    BY <1>6 DEF A!Authenticate, A!Goto
  <2>3. u # Target \/ p \in Entrants
    BY <1>6
  <2> HIDE DEF r, Goal, Entrants
  <2> QED
    BY <1>1, <2>1, <2>2, <2>3
<1>7. ASSUME NEW s \in Sessions, A!OpenRow(p, s) PROVE Goal
  <2> DEFINE r == [request[p] EXCEPT !.step = "openMem", !.session = s]
  <2>1. request[p] \in A!Request /\ request[p].step = "openRow"
    BY <1>7 DEF A!TypeOK, A!OpenRow, A!At
  <2>2. r.user = request[p].user
    BY <2>1 DEF A!Request
  <2>3. request' = [request EXCEPT ![p] = r]
    BY <1>7 DEF A!OpenRow
  <2> HIDE DEF r, Goal
  <2> QED
    BY <1>1, <2>1, <2>2, <2>3
<1>8. ASSUME NEW s \in Sessions, A!Leave(p, s) PROVE Goal
  <2> DEFINE r == [A!Idle EXCEPT !.step = "dropRow", !.session = s]
  <2>1. r.step = "dropRow"
    BY DEF A!Idle
  <2>2. request' = [request EXCEPT ![p] = r]
    BY <1>8 DEF A!Leave
  <2> HIDE DEF r, Goal
  <2> QED
    BY <1>1, <2>1, <2>2
<1>9. CASE A!AuthenticateFails(p) \/ A!OpenMem(p) \/ A!DropRow(p)
  BY <1>3, <1>9 DEF A!AuthenticateFails, A!OpenMem, A!DropRow
<1> QED
  BY <1>4, <1>5, <1>6, <1>7, <1>8, <1>9, TargetAssumption DEF AccountStep

LEMMA StartKept == SignInInit => Between /\ InsideExcused
BY DEF SignInInit, Init, Between, InsideExcused

LEMMA StepKept ==
  ASSUME TypeOK, A!TypeOK, Between, InsideExcused, [SignInNext]_allVars
  PROVE  Between' /\ InsideExcused'
<1> DEFINE Goal == Between' /\ InsideExcused'
<1>0. ASSUME NEW setup \in SUBSET Procs, Follow(setup) PROVE excused' \subseteq Procs
  BY <1>0 DEF Follow, Between
<1>1. ASSUME NEW p \in Procs, LoginBegin(p) PROVE Goal
  <2>1. ~locked' /\ request' = request /\ Follow({}) /\ request[p] = A!Idle
    BY <1>1 DEF LoginBegin, Enter, Free, accountVars
  <2>2. \A q \in Procs \ {p} : op'[q] = op[q]
    BY <1>1 DEF LoginBegin, Enter, Goto, TypeOK
  <2>3. Between'
    BY <1>0, <2>1, <2>2 DEF Between
  <2> QED
    BY <2>1, <2>3 DEF InsideExcused
<1>2. ASSUME NEW p \in Procs, LoginRight(p) PROVE Goal
  <2> DEFINE r == [A!Idle EXCEPT !.step = "openRow", !.user = Target]
  <2>1. Follow({}) /\ op[p] = "check" /\ op'[p] = "reset"
        /\ \A q \in Procs \ {p} : op'[q] = op[q]
    BY <1>2 DEF LoginRight, Goto, TypeOK
  <2>2. request' = [request EXCEPT ![p] = r]
    BY <1>2 DEF LoginRight, A!Authenticate, A!Goto
  <2>3. \A q \in Procs \ {p} : request'[q] = request[q]
    BY <2>2, Replaced
  <2>4. \A q \in Procs : Inside(q)' => Inside(q)
    BY <2>1, <2>3 DEF Inside, A!OpeningFor
  <2>5. InsideExcused'
    BY <2>1, <2>4, Following
  <2> QED
    BY <1>0, <2>1, <2>3, <2>5 DEF Between
<1>3. ASSUME NEW p \in Procs, LoginWrong(p) PROVE Goal
  <2>1. Follow({}) /\ op[p] = "check" /\ request' = request
        /\ \A q \in Procs \ {p} : op'[q] = op[q]
    BY <1>3 DEF LoginWrong, Goto, TypeOK, accountVars
  <2>2. \A q \in Procs : Inside(q)' => Inside(q)
    BY <2>1 DEF Inside, A!OpeningFor
  <2>3. InsideExcused'
    BY <2>1, <2>2, Following
  <2> QED
    BY <1>0, <2>1, <2>3 DEF Between
<1>4. ASSUME NEW p \in Procs, Settle(p) PROVE Goal
  <2>1. Follow({}) /\ op'[p] = "idle" /\ request' = request
        /\ \A q \in Procs \ {p} : op'[q] = op[q]
    BY <1>4 DEF Settle, RecordFailure, ResetThrottle, Goto, TypeOK, accountVars
  <2>2. \A q \in Procs : Inside(q)' => Inside(q)
    BY <2>1 DEF Inside, A!OpeningFor
  <2>3. InsideExcused'
    BY <2>1, <2>2, Following
  <2> QED
    BY <1>0, <2>1, <2>3 DEF Between
<1>5. ASSUME NEW p \in Procs, AccountStep(p) PROVE Goal
  <2> DEFINE setup == IF request[p].step = "login" THEN {p} ELSE {}
  <2>1. Follow(setup) /\ setup \in SUBSET Procs /\ op' = op /\ op[p] = "idle"
    BY <1>5 DEF AccountStep, throttleVars
  <2>2. \A q \in Procs : Inside(q)' => Inside(q) \/ q \in setup
    BY <1>5, AccountInside
  <2>3. InsideExcused'
    <3> HIDE DEF setup
    <3> QED
      BY <2>1, <2>2, Following
  <2>4. \A q \in Procs : request[q] = A!Idle /\ q # p => request'[q] = A!Idle
    BY <1>5, AccountInside
  <2>5. Between'
    BY <1>0, <2>1, <2>4 DEF Between
  <2> QED
    BY <2>3, <2>5
<1>6. ASSUME NEW p \in Procs, AbortBoth(p) PROVE Goal
  <2>1. Follow({})
    BY <1>6 DEF AbortBoth
  <2>2. /\ op'[p] = "idle"
        /\ \A q \in Procs \ {p} : op'[q] = op[q]
    BY <1>6 DEF AbortBoth, Abort, Goto, TypeOK, throttleVars
  <2>3. /\ request'[p] = A!Idle
        /\ \A q \in Procs \ {p} : request'[q] = request[q]
    BY <1>6 DEF AbortBoth, A!Abort, A!Finish, A!TypeOK, accountVars
  <2>4. \A q \in Procs : Inside(q)' => Inside(q)
    BY <2>2, <2>3 DEF Inside, A!OpeningFor, A!Idle
  <2>5. InsideExcused'
    BY <2>1, <2>4, Following
  <2> QED
    BY <1>0, <2>1, <2>2, <2>3, <2>5 DEF Between
<1>7. CASE LockEnds
  <2>1. ~locked' /\ op' = op /\ request' = request /\ Follow({})
    BY <1>7 DEF LockEnds, LockExpires, accountVars
  <2> QED
    BY <1>0, <2>1 DEF Between, InsideExcused
<1>8. CASE RestartBoth
  <2>1. ~locked' /\ Follow({}) /\ \A q \in Procs : op'[q] = "idle"
    BY <1>8 DEF RestartBoth, Restart
  <2> QED
    BY <1>0, <2>1 DEF Between, InsideExcused
<1>9. CASE UNCHANGED allVars
  BY <1>9 DEF allVars, throttleVars, accountVars, Between, InsideExcused, Inside,
              A!OpeningFor
<1> QED
  BY <1>1, <1>2, <1>3, <1>4, <1>5, <1>6, <1>7, <1>8, <1>9 DEF SignInNext

LEMMA AlwaysBetween ==
  SignInSpec => [](TypeOK /\ A!TypeOK /\ Between /\ InsideExcused)
<1>1. (TypeOK /\ A!TypeOK) /\ (Between /\ InsideExcused) /\ [SignInNext]_allVars
        => (Between /\ InsideExcused)'
  BY StepKept
<1>2. SignInSpec => [](TypeOK /\ A!TypeOK)
  BY Composes, TypeCorrect, AccountsTyped, PTL
<1> QED
  BY <1>1, <1>2, StartKept, PTL DEF SignInSpec

\* Both parts' variables have their types, and a login is between the lock and
\* the check while its request of Accounts has not begun (login_submit).
THEOREM SignInTyped == SignInSpec => []SignInTypeOK
<1>1. TypeOK /\ A!TypeOK /\ Between => SignInTypeOK
  BY DEF SignInTypeOK, Between
<1> QED
  BY <1>1, AlwaysBetween, PTL

\* Under a lock nobody is signed in, and nobody lifts it, but whoever was past it
\* when it fell and setup's own login (locked_message, reset_throttle).
THEOREM LockHolding == SignInSpec => LockHolds
<1>1. InsideExcused =>
        [locked => \A p \in Procs \ excused :
                     /\ ~(ResetThrottle(p))
                     /\ ~(A!OpenMem(p) /\ request[p].user = Target)]_allVars
  BY DEF InsideExcused, Inside, ResetThrottle, A!OpenMem, A!At, A!OpeningFor
<1> QED
  BY <1>1, AlwaysBetween, PTL DEF LockHolds
=================================================================================
