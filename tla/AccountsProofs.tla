----------------------------- MODULE AccountsProofs -----------------------------
(***************************************************************************)
(* Theorems about Accounts, for any users, sessions and requests.          *)
(***************************************************************************)
EXTENDS Accounts, FiniteSetTheorems, TLAPS

\* What a request may be at: it names who and what its step is about, and a
\* login past its check is for an active user or marked late.
Attached == {"login", "openRow", "openMem", "disable", "evictMem", "evictRows",
             "enable"}
Fit(r, exist, enabled) ==
  /\ r.step \in {"createMaster", "createUser"} => r.user \in Users
  /\ r.step \in Attached => r.user \in exist
  /\ r.step \in {"openMem", "dropRow"} => r.session \in Sessions
  /\ r.step \in {"openRow", "openMem"} => r.user \in enabled \/ r.late
OpsFit == \A p \in Procs : Fit(op[p], Exist, active)

\* No two logins open the same session.
Apart ==
  \A p, q \in Procs : p # q /\ At(p, "openMem") /\ At(q, "openMem")
                        => op[p].session # op[q].session

\* The inductive strengthening of TypeOK and OnlyLateLoginsOutlive.
Kept == TypeOK /\ OpsFit /\ Apart /\ OnlyLateLoginsOutlive

LEMMA IdleFits ==
  /\ Idle \in Request /\ Idle.step = "idle"
  /\ \A exist, enabled : Fit(Idle, exist, enabled)
BY DEF Idle, Request, Step, Fit, Attached

\* A request for step about user u.
LEMMA Moved ==
  ASSUME NEW step \in Step, NEW u \in Users
  PROVE  LET r == [Idle EXCEPT !.step = step, !.user = u] IN
         /\ r \in Request
         /\ r.step = step /\ r.user = u /\ r.session = NoSession /\ ~r.late
BY DEF Idle, Request

LEMMA InitKept == Init => Kept
<1> SUFFICES ASSUME Init PROVE Kept
  OBVIOUS
<1>1. op \in [Procs -> Request] /\ \A p \in Procs : op[p] = Idle
  BY IdleFits DEF Init
<1>2. Live = {}
  BY DEF Init, Live
<1>3. TypeOK
  BY <1>1, <1>2, IdleFits DEF Init, TypeOK, Exist, At
<1> QED
  BY <1>1, <1>2, <1>3, IdleFits DEF Kept, OpsFit, Apart, At, OnlyLateLoginsOutlive

\* One request moves on, and nobody is disabled.
LEMMA OneMoves ==
  ASSUME Kept, NEW p \in Procs, NEW r \in Request,
         op' = [op EXCEPT ![p] = r],
         Fit(r, Exist', active'),
         r.step = "openMem" =>
           /\ r.session \notin Live'
           /\ \A q \in Procs \ {p} : op[q].session # r.session,
         \A q \in Procs \ {p} : At(q, "openMem") => op[q].session \notin Live',
         Exist \subseteq Exist', active \subseteq active'
  PROVE  /\ op' \in [Procs -> Request]
         /\ \A q \in Procs : At(q, "openMem")' => op'[q].session \notin Live'
         /\ OpsFit' /\ Apart'
<1>1. /\ op' \in [Procs -> Request]
      /\ op'[p] = r
      /\ \A q \in Procs : q # p => op'[q] = op[q]
  BY DEF Kept, TypeOK
<1>2. \A q \in Procs : At(q, "openMem")' => op'[q].session \notin Live'
  BY <1>1 DEF At
<1>3. OpsFit'
  <2> SUFFICES ASSUME NEW q \in Procs PROVE Fit(op'[q], Exist', active')
    BY DEF OpsFit
  <2>1. CASE q = p
    BY <2>1, <1>1
  <2>2. CASE q # p
    <3>1. Fit(op[q], Exist, active)
      BY DEF Kept, OpsFit
    <3> QED
      BY <3>1, <2>2, <1>1 DEF Fit
  <2> QED
    BY <2>1, <2>2
<1>4. Apart'
  <2> SUFFICES ASSUME NEW q1 \in Procs, NEW q2 \in Procs, q1 # q2,
                      op'[q1].step = "openMem", op'[q2].step = "openMem"
               PROVE  op'[q1].session # op'[q2].session
    BY DEF Apart, At
  <2>1. q1 # p /\ q2 # p => op[q1].session # op[q2].session
    BY <1>1 DEF Kept, Apart, At
  <2> QED
    BY <2>1, <1>1
<1> QED
  BY <1>1, <1>2, <1>3, <1>4

\* One request moves on, and neither accounts nor the session map change.
LEMMA OnlyOneMoves ==
  ASSUME Kept, NEW p \in Procs, NEW r \in Request,
         op' = [op EXCEPT ![p] = r],
         Fit(r, Exist, active),
         r.step = "openMem" =>
           /\ r.session \notin Live
           /\ \A q \in Procs \ {p} : op[q].session # r.session,
         UNCHANGED <<userVars, live, histVars>>,
         row' \in [Sessions -> Exist \cup {NoUser}]
  PROVE  Kept'
<1>1. /\ Exist' = Exist /\ active' = active /\ Live' = Live /\ account' = account
      /\ live' = live /\ late' = late /\ pending' = pending
  BY DEF userVars, histVars, Exist, Live
<1>2. \A q \in Procs : At(q, "openMem") => op[q].session \notin Live'
  BY <1>1 DEF Kept, TypeOK
<1>3. /\ op' \in [Procs -> Request]
      /\ \A q \in Procs : At(q, "openMem")' => op'[q].session \notin Live'
      /\ OpsFit' /\ Apart'
  <2>1. Fit(r, Exist', active')
    BY <1>1
  <2>2. r.step = "openMem" =>
           /\ r.session \notin Live'
           /\ \A q \in Procs \ {p} : op[q].session # r.session
    BY <1>1
  <2>3. Exist \subseteq Exist' /\ active \subseteq active'
    BY <1>1
  <2>4. \A q \in Procs \ {p} : At(q, "openMem") => op[q].session \notin Live'
    BY <1>2
  <2> QED
    BY <2>1, <2>2, <2>3, <2>4, OneMoves
<1>4. TypeOK'
  BY <1>1, <1>3 DEF Kept, TypeOK
<1>5. OnlyLateLoginsOutlive'
  BY <1>1 DEF Kept, OnlyLateLoginsOutlive
<1> QED
  BY <1>3, <1>4, <1>5 DEF Kept

\* A request ends or begins.
LEMMA FinishKept ==
  ASSUME Kept, NEW p \in Procs, Finish(p), UNCHANGED <<userVars, live, histVars>>,
         row' \in [Sessions -> Exist \cup {NoUser}]
  PROVE  Kept'
BY IdleFits, OnlyOneMoves DEF Finish

LEMMA GotoKept ==
  ASSUME Kept, NEW p \in Procs, NEW u \in Users, NEW step \in Step,
         Goto(p, step, u), step \notin {"openMem", "dropRow"},
         step \in Attached => u \in Exist,
         step = "openRow" => u \in active,
         UNCHANGED <<userVars, sessionVars, histVars>>
  PROVE  Kept'
<1> DEFINE r == [Idle EXCEPT !.step = step, !.user = u]
<1>1. r \in Request /\ r.step = step /\ r.user = u
  BY Moved
<1>2. Fit(r, Exist, active)
  BY <1>1 DEF Fit
<1>3. op' = [op EXCEPT ![p] = r]
  BY DEF Goto
<1>4. row' \in [Sessions -> Exist \cup {NoUser}] /\ UNCHANGED live
  BY DEF sessionVars, Kept, TypeOK
<1> QED
  BY <1>1, <1>2, <1>3, <1>4, OnlyOneMoves

-----------------------------------------------------------------------------
(* The steps, one lemma for each group of Next                              *)

LEMMA CreateKept ==
  ASSUME Kept, NEW p \in Procs, CreateStep(p) PROVE Kept'
<1>1. ASSUME NEW u \in Users, SetupBegin(p, u) PROVE Kept'
  <2>1. "createMaster" \in Step /\ "createMaster" \notin Attached
    BY DEF Step, Attached
  <2> QED
    BY <1>1, <2>1, GotoKept DEF SetupBegin
<1>2. ASSUME NEW m \in Users, NEW u \in Users, CreateBegin(p, m, u) PROVE Kept'
  <2>1. "createUser" \in Step /\ "createUser" \notin Attached
    BY DEF Step, Attached
  <2> QED
    BY <1>2, <2>1, GotoKept DEF CreateBegin
<1>3. CASE CreateInsert(p)
  <2> DEFINE u == op[p].user
             r == IF At(p, "createMaster")
                  THEN [Idle EXCEPT !.step = "login", !.user = u] ELSE Idle
  <2>1. u \in Users
    BY <1>3 DEF CreateInsert, Kept, OpsFit, Fit
  <2>2. /\ account' \in [Users -> {"none", "master", "user"}]
        /\ Exist' = Exist \cup {u} /\ Live' = Live
        /\ live' = live /\ row' = row /\ late' = late /\ pending' = pending
        /\ active' = active \cup {u}
    BY <1>3, <2>1 DEF CreateInsert, Kept, TypeOK, Exist, Live, sessionVars, histVars
  <2>3. "login" \in Step /\ "login" \in Attached
    BY DEF Step, Attached
  <2>4. /\ r \in Request /\ r.step \in {"idle", "login"}
        /\ r.step = "login" => r.user = u
    BY <2>1, <2>3, Moved, IdleFits
  <2>5. op' = [op EXCEPT ![p] = r]
    BY <1>3 DEF CreateInsert, Goto, Finish
  <2>6. Fit(r, Exist', active')
    BY <2>2, <2>4 DEF Fit, Attached
  <2>7. \A q \in Procs \ {p} : At(q, "openMem") => op[q].session \notin Live'
    BY <2>2 DEF Kept, TypeOK
  <2>8. Exist \subseteq Exist' /\ active \subseteq active'
    BY <2>2
  <2>9. /\ op' \in [Procs -> Request]
        /\ \A q \in Procs : At(q, "openMem")' => op'[q].session \notin Live'
        /\ OpsFit' /\ Apart'
    BY <2>4, <2>5, <2>6, <2>7, <2>8, OneMoves
  <2>10. TypeOK'
    BY <2>2, <2>9 DEF Kept, TypeOK
  <2>11. OnlyLateLoginsOutlive'
    BY <2>2 DEF Kept, OnlyLateLoginsOutlive
  <2> QED
    BY <2>9, <2>10, <2>11 DEF Kept
<1>4. CASE CreateRefused(p)
  BY <1>4, FinishKept DEF CreateRefused, sessionVars, Kept, TypeOK
<1> QED
  BY <1>1, <1>2, <1>3, <1>4 DEF CreateStep

\* Sessions leave the map, one request moves on, and what the session history
\* owes to the sessions that stay is still owed.
LEMMA SessionsGo ==
  ASSUME Kept, NEW p \in Procs, NEW r \in Request,
         op' = [op EXCEPT ![p] = r], Fit(r, Exist, active), r.step # "openMem",
         NEW gone \in SUBSET Sessions,
         live' = [s \in Sessions |-> IF s \in gone THEN NoUser ELSE live[s]],
         late' = late \ gone, UNCHANGED <<userVars, row>>,
         pending' \subseteq pending,
         \A s \in Live \ gone : live[s] \in pending => live[s] \in pending'
  PROVE  Kept'
<1>1. Exist' = Exist /\ active' = active /\ account' = account /\ row' = row
  BY DEF userVars, Exist
<1>2. Live' = Live \ gone /\ \A s \in Live' : live'[s] = live[s]
  BY DEF Live
<1>3. /\ op' \in [Procs -> Request]
      /\ \A q \in Procs : At(q, "openMem")' => op'[q].session \notin Live'
      /\ OpsFit' /\ Apart'
  <2>1. \A q \in Procs \ {p} : At(q, "openMem") => op[q].session \notin Live'
    BY <1>2 DEF Kept, TypeOK
  <2>2. Fit(r, Exist', active') /\ Exist \subseteq Exist' /\ active \subseteq active'
    BY <1>1
  <2> QED
    BY <2>1, <2>2, OneMoves
<1>4. TypeOK'
  <2>1. live' \in [Sessions -> Exist \cup {NoUser}]
    BY DEF Kept, TypeOK
  <2>2. late' \subseteq Live'
    BY <1>2 DEF Kept, TypeOK
  <2> QED
    BY <1>1, <1>3, <2>1, <2>2 DEF Kept, TypeOK
<1>5. OnlyLateLoginsOutlive'
  BY <1>1, <1>2 DEF Kept, OnlyLateLoginsOutlive
<1> QED
  BY <1>3, <1>4, <1>5 DEF Kept

LEMMA SessionKept ==
  ASSUME Kept, NEW p \in Procs, SessionStep(p) PROVE Kept'
<1>1. ASSUME NEW u \in Users, Authenticate(p, u) PROVE Kept'
  <2>1. "openRow" \in Step
    BY DEF Step
  <2> QED
    BY <1>1, <2>1, GotoKept DEF Authenticate
<1>2. CASE AuthenticateFails(p)
  BY <1>2, FinishKept DEF AuthenticateFails, sessionVars, Kept, TypeOK
<1>3. ASSUME NEW s \in Sessions, OpenRow(p, s) PROVE Kept'
  <2> DEFINE r == [op[p] EXCEPT !.step = "openMem", !.session = s]
  <2>1. op[p] \in Request /\ op[p].step = "openRow" /\ Fit(op[p], Exist, active)
    BY <1>3 DEF OpenRow, At, Kept, TypeOK, OpsFit
  <2>2. /\ r \in Request /\ r.step = "openMem" /\ r.session = s
        /\ r.user = op[p].user /\ r.late = op[p].late
    BY <2>1 DEF Request, Step
  <2>3. Fit(r, Exist, active)
    BY <2>1, <2>2 DEF Fit, Attached
  <2>4. op' = [op EXCEPT ![p] = r]
    BY <1>3 DEF OpenRow
  <2>5. s \notin Live /\ \A q \in Procs \ {p} : op[q].session # s
    BY <1>3 DEF OpenRow, Fresh, Live
  <2>6. op[p].user \in Exist
    BY <2>1 DEF Fit, Attached
  <2>7. row' \in [Sessions -> Exist \cup {NoUser}]
    BY <1>3, <2>6 DEF OpenRow, Kept, TypeOK
  <2> QED
    BY <1>3, <2>2, <2>3, <2>4, <2>5, <2>7, OnlyOneMoves DEF OpenRow
<1>4. CASE OpenMem(p)
  <2> DEFINE s == op[p].session
  <2>1. /\ op[p].step = "openMem" /\ s \in Sessions /\ op[p].user \in Exist
        /\ op[p].user \in active \/ op[p].late
    BY <1>4 DEF OpenMem, At, Kept, OpsFit, Fit, Attached
  <2>2. op[p].user # NoUser
    BY <2>1, NoneAssumption DEF Exist
  <2>3. Exist' = Exist /\ active' = active /\ account' = account /\ row' = row
        /\ pending' = pending
    BY <1>4 DEF OpenMem, userVars, Exist
  <2>4. /\ live' = [live EXCEPT ![s] = op[p].user]
        /\ late' = IF op[p].late THEN late \cup {s} ELSE late
    BY <1>4 DEF OpenMem
  <2>5. Live' = Live \cup {s}
    BY <2>1, <2>2, <2>4 DEF Live, Kept, TypeOK
  <2>6. op' = [op EXCEPT ![p] = Idle]
    BY <1>4 DEF OpenMem, Finish
  <2>7. \A q \in Procs \ {p} : At(q, "openMem") => op[q].session \notin Live'
    BY <2>1, <2>5 DEF Kept, TypeOK, Apart, At
  <2>8. Exist \subseteq Exist' /\ active \subseteq active'
    BY <2>3
  <2>9. /\ op' \in [Procs -> Request]
        /\ \A q \in Procs : At(q, "openMem")' => op'[q].session \notin Live'
        /\ OpsFit' /\ Apart'
    BY <2>6, <2>7, <2>8, IdleFits, OneMoves
  <2>10. TypeOK'
    <3>1. live' \in [Sessions -> Exist \cup {NoUser}]
      BY <2>1, <2>4 DEF Kept, TypeOK
    <3>2. late' \subseteq Live'
      BY <2>4, <2>5 DEF Kept, TypeOK
    <3> QED
      BY <2>3, <2>9, <3>1, <3>2 DEF Kept, TypeOK
  <2>11. OnlyLateLoginsOutlive'
    <3> SUFFICES ASSUME NEW x \in Live'
                 PROVE  live'[x] \in active \cup pending \/ x \in late'
      BY <2>3 DEF OnlyLateLoginsOutlive
    <3>1. CASE x = s
      BY <3>1, <2>1, <2>4 DEF Kept, TypeOK
    <3>2. CASE x # s
      <4>1. x \in Live /\ live'[x] = live[x]
        BY <3>2, <2>1, <2>4, <2>5 DEF Kept, TypeOK
      <4> QED
        BY <4>1, <2>4 DEF Kept, OnlyLateLoginsOutlive
    <3> QED
      BY <3>1, <3>2
  <2> QED
    BY <2>9, <2>10, <2>11 DEF Kept
<1>5. ASSUME NEW s \in Sessions, Leave(p, s) PROVE Kept'
  <2> DEFINE r == [Idle EXCEPT !.step = "dropRow", !.session = s]
  <2>1. r \in Request /\ r.step = "dropRow" /\ r.session = s
    BY DEF Idle, Request, Step
  <2>2. Fit(r, Exist, active)
    BY <2>1 DEF Fit, Attached
  <2>3. /\ op' = [op EXCEPT ![p] = r]
        /\ late' = late \ {s} /\ pending' = pending
        /\ UNCHANGED <<userVars, row>>
    BY <1>5 DEF Leave
  <2>4. live' = [x \in Sessions |-> IF x \in {s} THEN NoUser ELSE live[x]]
    BY <1>5 DEF Leave, Kept, TypeOK
  <2>5. {s} \in SUBSET Sessions
    OBVIOUS
  <2> QED
    BY <2>1, <2>2, <2>3, <2>4, <2>5, SessionsGo
<1>6. CASE DropRow(p)
  BY <1>6, FinishKept DEF DropRow, Kept, TypeOK
<1> QED
  BY <1>1, <1>2, <1>3, <1>4, <1>5, <1>6 DEF SessionStep

LEMMA ActivityKept ==
  ASSUME Kept, NEW p \in Procs, ActivityStep(p) PROVE Kept'
<1>1. ASSUME NEW m \in Users, NEW u \in Users,
             DisableBegin(p, m, u) \/ EnableBegin(p, m, u)
      PROVE  Kept'
  <2>1. "disable" \in Step /\ "enable" \in Step
    BY DEF Step
  <2> QED
    BY <1>1, <2>1, GotoKept DEF DisableBegin, EnableBegin, Others
<1>2. CASE SetInactive(p)
  <2> DEFINE u == op[p].user
  <2>1. op[p].step = "disable" /\ u \in Exist
    BY <1>2 DEF SetInactive, At, Kept, OpsFit, Fit, Attached
  <2>2. /\ Exist' = Exist /\ Live' = Live /\ account' = account /\ live' = live
        /\ row' = row /\ late' = late
        /\ active' = active \ {u} /\ pending' = pending \cup {u}
    BY <1>2 DEF SetInactive, Exist, Live, sessionVars
  <2>3. op' = [q \in Procs |->
                 IF q = p THEN [op[p] EXCEPT !.step = "evictMem"]
                 ELSE IF OpeningFor(q) /\ op[q].user = u
                      THEN [op[q] EXCEPT !.late = TRUE] ELSE op[q]]
    BY <1>2 DEF SetInactive
  <2>4. ASSUME NEW q \in Procs
        PROVE  /\ op'[q] \in Request /\ Fit(op'[q], Exist', active')
               /\ op'[q].session = op[q].session
               /\ op'[q].step = "openMem" => op[q].step = "openMem"
    <3>1. op[q] \in Request /\ Fit(op[q], Exist, active)
      BY DEF Kept, TypeOK, OpsFit
    <3>2. CASE q = p
      <4>1. op'[q] = [op[p] EXCEPT !.step = "evictMem"]
        BY <2>3, <3>2
      <4>2. /\ op'[q] \in Request /\ op'[q].step = "evictMem"
            /\ op'[q].user = u /\ op'[q].session = op[q].session
        BY <3>1, <3>2, <4>1 DEF Request, Step
      <4> QED
        BY <2>1, <2>2, <4>2 DEF Fit
    <3>3. CASE q # p /\ OpeningFor(q) /\ op[q].user = u
      <4>1. op'[q] = [op[q] EXCEPT !.late = TRUE]
        BY <2>3, <3>3
      <4>2. /\ op'[q] \in Request /\ op'[q].step = op[q].step /\ op'[q].late
            /\ op'[q].user = op[q].user /\ op'[q].session = op[q].session
        BY <3>1, <4>1 DEF Request
      <4> QED
        BY <2>2, <3>1, <4>2 DEF Fit
    <3>4. CASE q # p /\ ~(OpeningFor(q) /\ op[q].user = u)
      <4>1. op'[q] = op[q]
        BY <2>3, <3>4
      <4> QED
        BY <2>2, <3>1, <3>4, <4>1 DEF Fit, OpeningFor
    <3> QED
      BY <3>2, <3>3, <3>4
  <2>5. op' \in [Procs -> Request]
    BY <2>3, <2>4
  <2>6. OpsFit' /\ Apart'
    BY <2>4 DEF Kept, OpsFit, Apart, At
  <2>7. TypeOK'
    BY <2>1, <2>2, <2>4, <2>5 DEF Kept, TypeOK, At
  <2>8. OnlyLateLoginsOutlive'
    BY <2>2 DEF Kept, OnlyLateLoginsOutlive
  <2> QED
    BY <2>6, <2>7, <2>8 DEF Kept
<1>3. CASE EvictMem(p)
  <2> DEFINE r == [op[p] EXCEPT !.step = "evictRows"]
             gone == SessionsOf(op[p].user)
  <2>1. op[p] \in Request /\ op[p].step = "evictMem" /\ op[p].user \in Exist
    BY <1>3 DEF EvictMem, At, Kept, TypeOK, OpsFit, Fit, Attached
  <2>2. r \in Request /\ r.step = "evictRows" /\ r.user = op[p].user
    BY <2>1 DEF Request, Step
  <2>3. Fit(r, Exist, active)
    BY <2>1, <2>2 DEF Fit
  <2>4. /\ op' = [op EXCEPT ![p] = r]
        /\ live' = [s \in Sessions |-> IF s \in gone THEN NoUser ELSE live[s]]
        /\ late' = late \ gone /\ pending' = pending \ {op[p].user}
        /\ UNCHANGED <<userVars, row>>
    BY <1>3 DEF EvictMem
  <2>5. gone \in SUBSET Sessions
    BY DEF SessionsOf
  <2>6. \A s \in Live \ gone : live[s] \in pending => live[s] \in pending'
    BY <2>4 DEF SessionsOf, Live
  <2> QED
    BY <2>2, <2>3, <2>4, <2>5, <2>6, SessionsGo
<1>4. CASE EvictRows(p)
  <2>1. row' \in [Sessions -> Exist \cup {NoUser}]
    BY <1>4 DEF EvictRows, Kept, TypeOK
  <2> QED
    BY <1>4, <2>1, FinishKept DEF EvictRows
<1>5. CASE SetActive(p)
  <2>1. op[p].user \in Exist
    BY <1>5 DEF SetActive, At, Kept, OpsFit, Fit, Attached
  <2>2. /\ Exist' = Exist /\ Live' = Live /\ account' = account /\ live' = live
        /\ row' = row /\ late' = late /\ pending' = pending
        /\ active' = active \cup {op[p].user}
    BY <1>5 DEF SetActive, Exist, Live, sessionVars, histVars
  <2>3. op' = [op EXCEPT ![p] = Idle]
    BY <1>5 DEF SetActive, Finish
  <2>4. Exist \subseteq Exist' /\ active \subseteq active'
    BY <2>2
  <2>5. \A q \in Procs \ {p} : At(q, "openMem") => op[q].session \notin Live'
    BY <2>2 DEF Kept, TypeOK
  <2>6. /\ op' \in [Procs -> Request]
        /\ \A q \in Procs : At(q, "openMem")' => op'[q].session \notin Live'
        /\ OpsFit' /\ Apart'
    BY <2>3, <2>4, <2>5, IdleFits, OneMoves
  <2>7. TypeOK'
    BY <2>1, <2>2, <2>6 DEF Kept, TypeOK
  <2>8. OnlyLateLoginsOutlive'
    BY <2>2 DEF Kept, OnlyLateLoginsOutlive
  <2> QED
    BY <2>6, <2>7, <2>8 DEF Kept
<1> QED
  BY <1>1, <1>2, <1>3, <1>4, <1>5 DEF ActivityStep

LEMMA RestartKept ==
  ASSUME Kept, Restart PROVE Kept'
<1>1. op' \in [Procs -> Request] /\ \A p \in Procs : op'[p] = Idle
  BY IdleFits DEF Restart
<1>2. Live' = {} /\ Exist' = Exist
  BY DEF Restart, Live, Exist, userVars
<1>3. TypeOK'
  BY <1>1, <1>2, IdleFits DEF Restart, Kept, TypeOK, At, userVars
<1> QED
  BY <1>1, <1>2, <1>3, IdleFits
     DEF Kept, OpsFit, Apart, At, OnlyLateLoginsOutlive

LEMMA NextKept == Kept /\ [Next]_vars => Kept'
<1> SUFFICES ASSUME Kept, [Next]_vars PROVE Kept'
  OBVIOUS
<1>1. ASSUME NEW p \in Procs, CreateStep(p) PROVE Kept'
  BY <1>1, CreateKept
<1>2. ASSUME NEW p \in Procs, SessionStep(p) PROVE Kept'
  BY <1>2, SessionKept
<1>3. ASSUME NEW p \in Procs, ActivityStep(p) PROVE Kept'
  BY <1>3, ActivityKept
<1>4. CASE Restart
  BY <1>4, RestartKept
<1>5. ASSUME NEW p \in Procs, Abort(p) PROVE Kept'
  BY <1>5, FinishKept DEF Abort, sessionVars, Kept, TypeOK
<1>6. CASE UNCHANGED vars
  BY <1>6 DEF vars, userVars, sessionVars, histVars, Kept, TypeOK, OpsFit, Apart,
              At, OnlyLateLoginsOutlive, Exist, Live
<1> QED
  BY <1>1, <1>2, <1>3, <1>4, <1>5, <1>6 DEF Next, Undisturbed

LEMMA AlwaysKept == Spec => []Kept
BY InitKept, NextKept, PTL DEF Spec

-----------------------------------------------------------------------------
\* Every variable has its type, active users and the users of sessions exist,
\* and no session is opened twice.
THEOREM TypeCorrect == Spec => []TypeOK
<1>1. Kept => TypeOK
  BY DEF Kept
<1> QED
  BY <1>1, AlwaysKept, PTL

\* A disabled user is signed in only while the disable is under way or cut off
\* half-way, or by a login that had passed its check before (evict_user).
THEOREM DisabledSignedOut == Spec => []OnlyLateLoginsOutlive
<1>1. Kept => OnlyLateLoginsOutlive
  BY DEF Kept
<1> QED
  BY <1>1, AlwaysKept, PTL

\* An account never changes its role (create_user, which looks for the username
\* before it inserts).
LEMMA InsertStays ==
  ASSUME Kept, NEW p \in Procs, CreateInsert(p), NEW u \in Exist
  PROVE  account'[u] = account[u]
BY DEF CreateInsert, NameFree, Exist, Kept, TypeOK

LEMMA RoleStep == Kept /\ [Next]_vars => \A u \in Exist : account'[u] = account[u]
<1> SUFFICES ASSUME Kept, [Next]_vars, NEW u \in Exist
             PROVE  account'[u] = account[u]
  OBVIOUS
<1>1. ASSUME NEW p \in Procs, CreateStep(p) PROVE account'[u] = account[u]
  <2>1. CASE CreateInsert(p)
    BY <2>1, InsertStays
  <2>2. CASE ~CreateInsert(p)
    BY <1>1, <2>2 DEF CreateStep, SetupBegin, CreateBegin, CreateRefused, userVars
  <2> QED
    BY <2>1, <2>2
<1>2. ASSUME NEW p \in Procs, SessionStep(p) PROVE account'[u] = account[u]
  BY <1>2 DEF SessionStep, Authenticate, AuthenticateFails, OpenRow, OpenMem,
              Leave, DropRow, userVars
<1>3. ASSUME NEW p \in Procs, ActivityStep(p) PROVE account'[u] = account[u]
  BY <1>3 DEF ActivityStep, DisableBegin, EnableBegin, SetInactive, EvictMem,
              EvictRows, SetActive, userVars
<1>4. CASE Restart
  BY <1>4 DEF Restart, userVars
<1>5. ASSUME NEW p \in Procs, Abort(p) PROVE account'[u] = account[u]
  BY <1>5 DEF Abort, userVars
<1>6. CASE UNCHANGED vars
  BY <1>6 DEF vars, userVars
<1> QED
  BY <1>1, <1>2, <1>3, <1>4, <1>5, <1>6 DEF Next, Undisturbed

THEOREM RolesPermanent == Spec => RolesStay
<1>1. Kept /\ [Next]_vars => [\A u \in Exist : account'[u] = account[u]]_vars
  BY RoleStep
<1> QED
  BY <1>1, AlwaysKept, PTL DEF Spec, RolesStay
-----------------------------------------------------------------------------
(* One master                                                               *)

\* No two setups are between their count and their INSERT at once.
SetupsApart ==
  \A p, q \in Procs : At(p, "createMaster") /\ At(q, "createMaster") => p = q

\* Then a setup about to insert still finds nobody; and a master asked for every
\* user about to be created, so there is somebody.
Begun ==
  /\ \A p \in Procs : At(p, "createMaster") => Exist = {}
  /\ \A p \in Procs : At(p, "createUser") => Exist # {}
SoleMaster ==
  \A u, v \in Users : account[u] = "master" /\ account[v] = "master" => u = v
Alone == Begun /\ SoleMaster

\* Steps that begin no creation and create nobody.
LEMMA NoneCreated ==
  ASSUME Alone, account' = account,
         \A q \in Procs : op'[q].step \in {"createMaster", "createUser"}
                          => op'[q].step = op[q].step
  PROVE  Alone'
BY DEF Alone, Begun, SoleMaster, At, Exist

LEMMA OneAlone ==
  ASSUME Kept, Alone, account' = account, NEW p \in Procs, NEW r,
         op' = [op EXCEPT ![p] = r],
         r.step \notin {"createMaster", "createUser"}
  PROVE  Alone'
BY NoneCreated DEF Kept, TypeOK

LEMMA FinishAlone ==
  ASSUME Kept, Alone, account' = account, NEW p \in Procs, Finish(p)
  PROVE  Alone'
BY OneAlone, IdleFits DEF Finish

LEMMA GotoAlone ==
  ASSUME Kept, Alone, account' = account, NEW p \in Procs, NEW u \in Users,
         NEW step \in Step \ {"createMaster", "createUser"}, Goto(p, step, u)
  PROVE  Alone'
<1> DEFINE r == [Idle EXCEPT !.step = step, !.user = u]
<1>1. r.step = step /\ op' = [op EXCEPT ![p] = r]
  BY Moved DEF Goto
<1> HIDE DEF r
<1> QED
  BY <1>1, OneAlone

\* A request that goes on, in the same record, to another step.
LEMMA StepAlone ==
  ASSUME Kept, Alone, account' = account, NEW p \in Procs,
         \A q \in Procs \ {p} : op'[q].step = op[q].step,
         op'[p].step \notin {"createMaster", "createUser"}
  PROVE  Alone'
BY NoneCreated

LEMMA CreateAlone ==
  ASSUME Kept, Alone, SetupsApart, NEW p \in Procs, CreateStep(p)
  PROVE  Alone'
<1>op. op \in [Procs -> Request]
  BY DEF Kept, TypeOK
<1>1. ASSUME NEW u \in Users, SetupBegin(p, u) PROVE Alone'
  <2>1. account' = account /\ Exist = {} /\ Exist' = {}
    BY <1>1 DEF SetupBegin, NoUsersYet, userVars, Exist
  <2>2. \A q \in Procs : op'[q].step = "createUser" => op[q].step = "createUser"
    BY <1>1, <1>op DEF SetupBegin, Goto, Idle
  <2> QED
    BY <2>1, <2>2 DEF Alone, Begun, SoleMaster, At
<1>2. ASSUME NEW m \in Users, NEW u \in Users, CreateBegin(p, m, u) PROVE Alone'
  <2>1. account' = account /\ Exist # {} /\ Exist' = Exist
    BY <1>2 DEF CreateBegin, userVars, Exist
  <2>2. \A q \in Procs : op'[q].step = "createMaster"
                         => op[q].step = "createMaster"
    BY <1>2, <1>op DEF CreateBegin, Goto, Idle
  <2> QED
    BY <2>1, <2>2 DEF Alone, Begun, SoleMaster, At
<1>3. CASE CreateInsert(p)
  <2> DEFINE u == op[p].user
  <2>1. u \in Users
    BY <1>3 DEF Kept, OpsFit, Fit, CreateInsert, Attached, At
  <2>2. \A q \in Procs \ {p} : op'[q] = op[q]
    BY <1>3, <1>op DEF CreateInsert, Goto, Finish
  <2>3. op'[p].step \in {"login", "idle"}
    <3>1. CASE Goto(p, "login", u)
      <4> DEFINE r == [Idle EXCEPT !.step = "login", !.user = u]
      <4>1. r.step = "login"
        BY DEF Idle
      <4>2. op' = [op EXCEPT ![p] = r]
        BY <3>1 DEF Goto
      <4> HIDE DEF r
      <4> QED
        BY <1>op, <4>1, <4>2
    <3>2. CASE Finish(p)
      BY <3>2, <1>op, IdleFits DEF Finish
    <3> QED
      BY <1>3, <3>1, <3>2 DEF CreateInsert
  <2>4. Exist' # {} /\ \A v \in Users \ {u} : account'[v] = account[v]
    BY <1>3, <2>1 DEF CreateInsert, Exist, Kept, TypeOK
  <2>5. \A q \in Procs : ~At(q, "createMaster")'
    BY <1>3, <2>2, <2>3 DEF CreateInsert, At, Alone, Begun, SetupsApart
  <2>6. SoleMaster'
    <3>1. CASE At(p, "createMaster")
      <4>1. \A v \in Users : account[v] = "none"
        BY <3>1 DEF Alone, Begun, Exist
      <4> QED
        BY <2>4, <4>1 DEF SoleMaster
    <3>2. CASE ~At(p, "createMaster")
      <4>1. account'[u] = "user"
        BY <1>3, <2>1, <3>2 DEF CreateInsert, Kept, TypeOK
      <4> QED
        BY <2>4, <4>1 DEF Alone, SoleMaster
    <3> QED
      BY <3>1, <3>2
  <2> QED
    BY <2>4, <2>5, <2>6 DEF Alone, Begun
<1>4. CASE CreateRefused(p)
  BY <1>4, FinishAlone DEF CreateRefused, userVars
<1> QED
  BY <1>1, <1>2, <1>3, <1>4 DEF CreateStep

LEMMA NextAlone == Kept /\ Alone /\ SetupsApart /\ [Next]_vars => Alone'
<1> SUFFICES ASSUME Kept, Alone, SetupsApart, [Next]_vars PROVE Alone'
  OBVIOUS
<1>op. op \in [Procs -> Request]
  BY DEF Kept, TypeOK
<1>1. ASSUME NEW p \in Procs, CreateStep(p) PROVE Alone'
  BY <1>1, CreateAlone
<1>2. ASSUME NEW p \in Procs, SessionStep(p) PROVE Alone'
  <2>1. account' = account
    BY <1>2 DEF SessionStep, Authenticate, AuthenticateFails, OpenRow, OpenMem,
                Leave, DropRow, userVars
  <2>2. ASSUME NEW u \in Users, Authenticate(p, u) PROVE Alone'
    BY <2>1, <2>2, GotoAlone DEF Authenticate, Step
  <2>3. CASE AuthenticateFails(p) \/ OpenMem(p) \/ DropRow(p)
    BY <2>1, <2>3, FinishAlone DEF AuthenticateFails, OpenMem, DropRow
  <2>4. ASSUME NEW s \in Sessions, OpenRow(p, s) PROVE Alone'
    <3>1. /\ \A q \in Procs \ {p} : op'[q].step = op[q].step
          /\ op'[p].step = "openMem"
      BY <2>4, <1>op DEF OpenRow, Request
    <3> QED
      BY <2>1, <3>1, StepAlone
  <2>5. ASSUME NEW s \in Sessions, Leave(p, s) PROVE Alone'
    <3>1. /\ \A q \in Procs \ {p} : op'[q].step = op[q].step
          /\ op'[p].step = "dropRow"
      BY <2>5, <1>op DEF Leave, Idle
    <3> QED
      BY <2>1, <3>1, StepAlone
  <2> QED
    BY <1>2, <2>2, <2>3, <2>4, <2>5 DEF SessionStep
<1>3. ASSUME NEW p \in Procs, ActivityStep(p) PROVE Alone'
  <2>1. account' = account
    BY <1>3 DEF ActivityStep, DisableBegin, EnableBegin, SetInactive, EvictMem,
                EvictRows, SetActive, userVars
  <2>2. ASSUME NEW m \in Users, NEW u \in Users,
               DisableBegin(p, m, u) \/ EnableBegin(p, m, u)
        PROVE  Alone'
    BY <2>1, <2>2, GotoAlone DEF DisableBegin, EnableBegin, Step
  <2>3. CASE SetInactive(p)
    <3>1. /\ \A q \in Procs \ {p} : op'[q].step = op[q].step
          /\ op'[p].step = "evictMem"
      BY <2>3, <1>op DEF SetInactive, Request
    <3> QED
      BY <2>1, <3>1, StepAlone
  <2>4. CASE EvictMem(p)
    <3>1. /\ \A q \in Procs \ {p} : op'[q].step = op[q].step
          /\ op'[p].step = "evictRows"
      BY <2>4, <1>op DEF EvictMem, Request
    <3> QED
      BY <2>1, <3>1, StepAlone
  <2>5. CASE EvictRows(p) \/ SetActive(p)
    BY <2>1, <2>5, FinishAlone DEF EvictRows, SetActive
  <2> QED
    BY <1>3, <2>2, <2>3, <2>4, <2>5 DEF ActivityStep
<1>4. CASE Restart
  BY <1>4, NoneCreated DEF Restart, Idle, userVars
<1>5. ASSUME NEW p \in Procs, Abort(p) PROVE Alone'
  BY <1>5, FinishAlone DEF Abort, userVars
<1>6. CASE UNCHANGED vars
  BY <1>6, NoneCreated DEF vars, userVars
<1> QED
  BY <1>1, <1>2, <1>3, <1>4, <1>5, <1>6 DEF Next, Undisturbed

\* Setup counts the users and inserts the master in two statements
\* (setup_submit).  Only setups that overlap there can leave two masters behind:
\* as long as none do, there is one at most, whatever else is created, disabled
\* or cut off meanwhile.
THEOREM ApartOneMaster == Spec /\ []SetupsApart => []OneMaster
<1>1. Init => Alone
  BY DEF Init, Alone, Begun, SoleMaster, At, Idle
<1>2. SoleMaster => OneMaster
  <2> SUFFICES ASSUME SoleMaster PROVE OneMaster
    OBVIOUS
  <2> DEFINE masters == {u \in Users : account[u] = "master"}
  <2>1. CASE masters = {}
    BY <2>1, FS_EmptySet DEF OneMaster
  <2>2. CASE masters # {}
    <3>1. PICK u \in masters : TRUE
      BY <2>2
    <3>2. masters = {u}
      BY <3>1 DEF SoleMaster
    <3>3. Cardinality(masters) = 1
      BY <3>2, FS_Singleton
    <3> QED
      BY <3>3 DEF OneMaster
  <2> QED
    BY <2>1, <2>2
<1>3. Alone => SoleMaster
  BY DEF Alone
<1> QED
  BY <1>1, <1>2, <1>3, NextAlone, AlwaysKept, PTL DEF Spec
=================================================================================
