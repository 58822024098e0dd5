------------------------------ MODULE TokensProofs ------------------------------
(***************************************************************************)
(* Theorems about Tokens, for any number of tokens, roles, secret-ids and  *)
(* requests, any lifetimes and any bound on the clock.                     *)
(***************************************************************************)
EXTENDS Tokens, TLAPS

\* A time no later than the longest lifetime from now.
InReach(time) == time # Never => time <= now + MaxTtl

\* What requests carry: an expiry about to be stored is in reach, whoever mints
\* a token does so for somebody, and whoever renews one has found it.
Carries(r) ==
  /\ r.step \in {"renew", "extend"} => r.token \in Minted
  /\ r.step \in {"insert", "extend"} => InReach(r.expires)
  /\ r.step \in {"match", "secret"} => r.role \in Roles
  /\ r.step \in {"mint", "insert"} => r.role \in Roles \cup {Gui}
OpsFit == \A p \in Procs : Carries(op[p])

\* A token not minted yet has no expiry.
UnmintedNever == \A t \in Tokens : t \notin Minted => expires[t] = Never

\* The inductive strengthening of LifetimeBounded.
Bounded == TypeOK /\ OpsFit /\ UnmintedNever /\ LifetimeBounded

LEMMA IdleTyped ==
  /\ Idle \in Request
  /\ Idle.step = "idle" /\ Idle.token = Nobody /\ Idle.role = Nobody
  /\ Idle.expires = Never
BY DEF Idle, Request, Step

\* Updating the record of one request.
LEMMA OpUpdate ==
  ASSUME op \in [Procs -> Request], NEW p \in Procs, NEW r \in Request,
         op' = [op EXCEPT ![p] = r]
  PROVE  /\ op' \in [Procs -> Request]
         /\ op'[p] = r
         /\ \A q \in Procs : q # p => op'[q] = op[q]
OBVIOUS

\* Where a request is after its step, and that all others are where they were.
Becomes(p, r) ==
  /\ r \in Request
  /\ op' \in [Procs -> Request]
  /\ op'[p] = r
  /\ \A q \in Procs : q # p => op'[q] = op[q]

LEMMA FinishBecomes ==
  ASSUME TypeOK, NEW p \in Procs, Finish(p)
  PROVE  Becomes(p, Idle)
BY IdleTyped, OpUpdate DEF Finish, Becomes, TypeOK

LEMMA BeginBecomes ==
  ASSUME TypeOK, NEW p \in Procs, NEW r \in Request, Begin(p, r)
  PROVE  Becomes(p, r)
BY OpUpdate DEF Begin, Becomes, TypeOK

LEMMA UntilInReach ==
  ASSUME TypeOK, NEW ttl \in Ttls \cup {NoTtl}
  PROVE  Until(ttl) \in Nat \cup {Never} /\ InReach(Until(ttl))
BY BoundsAssumption DEF Until, InReach, TypeOK, Ttls, NoTtl, Never

\* The requests that each first or middle step leaves behind.
LEMMA CreateBecomes ==
  ASSUME TypeOK, NEW p \in Procs, NEW ttl \in Ttls \cup {NoTtl},
         CreateBegin(p, ttl)
  PROVE  Becomes(p, [Idle EXCEPT !.step = "mint", !.role = Gui, !.ttl = ttl])
<1>1. [Idle EXCEPT !.step = "mint", !.role = Gui, !.ttl = ttl] \in Request
  BY DEF Idle, Request, Step
<1> QED
  BY <1>1, BeginBecomes DEF CreateBegin

LEMMA MintBecomes ==
  ASSUME TypeOK, NEW p \in Procs, Mint(p)
  PROVE  /\ Until(op[p].ttl) \in Nat \cup {Never}
         /\ InReach(Until(op[p].ttl))
         /\ Becomes(p, [op[p] EXCEPT !.step = "insert",
                                     !.expires = Until(op[p].ttl)])
<1>1. op[p] \in Request /\ op[p].ttl \in Ttls \cup {NoTtl}
  BY DEF TypeOK, Request
<1>2. Until(op[p].ttl) \in Nat \cup {Never} /\ InReach(Until(op[p].ttl))
  BY <1>1, UntilInReach
<1> DEFINE r == [op[p] EXCEPT !.step = "insert", !.expires = Until(op[p].ttl)]
<1>3. r \in Request
  BY <1>1, <1>2 DEF Request, Step
<1>4. op' = [op EXCEPT ![p] = r]
  BY DEF Mint
<1>5. Becomes(p, r)
  BY <1>3, <1>4, OpUpdate DEF Becomes, TypeOK
<1> QED
  BY <1>2, <1>5

LEMMA RenewBecomes ==
  ASSUME TypeOK, NEW p \in Procs, NEW t \in Tokens, NEW ttl \in Ttls,
         RenewBegin(p, t, ttl)
  PROVE  Becomes(p, [Idle EXCEPT !.step = "renew", !.token = t, !.ttl = ttl,
                                 !.expires = expires[t]])
<1>1. expires[t] \in Nat \cup {Never}
  BY DEF TypeOK
<1>2. [Idle EXCEPT !.step = "renew", !.token = t, !.ttl = ttl,
                   !.expires = expires[t]] \in Request
  BY <1>1 DEF Idle, Request, Step
<1> QED
  BY <1>2, BeginBecomes DEF RenewBegin

LEMMA CheckBecomes ==
  ASSUME TypeOK, NEW p \in Procs, RenewCheck(p)
  PROVE  /\ now + op[p].ttl \in Nat
         /\ InReach(now + op[p].ttl)
         /\ Becomes(p, [op[p] EXCEPT !.step = "extend",
                                     !.expires = now + op[p].ttl])
<1>1. op[p] \in Request /\ op[p].ttl \in Ttls \cup {NoTtl}
  BY DEF TypeOK, Request
<1>2. now + op[p].ttl \in Nat /\ InReach(now + op[p].ttl)
  BY <1>1, BoundsAssumption DEF TypeOK, Ttls, NoTtl, InReach
<1> DEFINE r == [op[p] EXCEPT !.step = "extend", !.expires = now + op[p].ttl]
<1>3. r \in Request
  BY <1>1, <1>2 DEF Request, Step
<1>4. op' = [op EXCEPT ![p] = r]
  BY DEF RenewCheck, NewExpiry
<1>5. Becomes(p, r)
  BY <1>3, <1>4, OpUpdate DEF Becomes, TypeOK
<1> QED
  BY <1>2, <1>5

LEMMA SecretBecomes ==
  ASSUME TypeOK, NEW p \in Procs, NEW r \in Roles, SecretBegin(p, r)
  PROVE  Becomes(p, [Idle EXCEPT !.step = "secret", !.role = r])
<1>1. [Idle EXCEPT !.step = "secret", !.role = r] \in Request
  BY DEF Idle, Request, Step
<1> QED
  BY <1>1, BeginBecomes DEF SecretBegin

LEMMA LoginBecomes ==
  ASSUME TypeOK, NEW p \in Procs, NEW r \in Roles, NEW s \in SecretIds,
         LoginBegin(p, r, s)
  PROVE  Becomes(p, [Idle EXCEPT !.step = "match", !.role = r, !.secret = s,
                                 !.ttl = ttlOf[r]])
<1>1. [Idle EXCEPT !.step = "match", !.role = r, !.secret = s,
                   !.ttl = ttlOf[r]] \in Request
  BY DEF Idle, Request, Step, TypeOK
<1> QED
  BY <1>1, BeginBecomes DEF LoginBegin

LEMMA MatchBecomes ==
  ASSUME TypeOK, NEW p \in Procs, LoginMatch(p)
  PROVE  Becomes(p, [op[p] EXCEPT !.step = "mint", !.secret = Nobody])
<1> DEFINE r == [op[p] EXCEPT !.step = "mint", !.secret = Nobody]
<1>1. op[p] \in Request
  BY DEF TypeOK
<1>2. r \in Request
  BY <1>1 DEF Request, Step
<1>3. op' = [op EXCEPT ![p] = r]
  BY DEF LoginMatch
<1> QED
  BY <1>2, <1>3, OpUpdate DEF Becomes, TypeOK

-----------------------------------------------------------------------------
(* Type correctness, and the bound on lifetimes                             *)

LEMMA InitBounded == Init => Bounded
<1> SUFFICES ASSUME Init PROVE Bounded
  OBVIOUS
<1>1. op \in [Procs -> Request] /\ \A p \in Procs : op[p].step = "idle"
  BY IdleTyped DEF Init
<1>2. TypeOK
  BY <1>1, NoneAssumption DEF Init, TypeOK
<1> QED
  BY <1>1, <1>2 DEF Init, Bounded, OpsFit, Carries, UnmintedNever,
                    LifetimeBounded

\* A request that changes nothing but what it carries.
LEMMA RequestStep ==
  ASSUME Bounded, UNCHANGED <<now, tokenVars, roleVars>>,
         NEW p \in Procs, NEW r \in Request, Becomes(p, r),
         Carries(r)
  PROVE  Bounded'
<1>1. TypeOK'
  BY DEF Bounded, TypeOK, Becomes, tokenVars, roleVars
<1>2. OpsFit'
  BY DEF Bounded, OpsFit, Becomes, Carries, InReach, Minted, tokenVars
<1> QED
  BY <1>1, <1>2 DEF Bounded, UnmintedNever, LifetimeBounded, Minted, tokenVars

LEMMA InsertBounded ==
  ASSUME Bounded, NEW p \in Procs, NEW t \in Tokens, MintInsert(p, t)
  PROVE  Bounded'
<1>1. Becomes(p, Idle)
  BY FinishBecomes DEF Bounded, MintInsert
<1>2. op[p] \in Request
  BY DEF Bounded, TypeOK
<1>3. InReach(op[p].expires)
  BY DEF Bounded, OpsFit, Carries, MintInsert, At
<1>4. TypeOK'
  BY <1>1, <1>2 DEF Bounded, TypeOK, Becomes, MintInsert, roleVars, Request
<1>5. OpsFit'
  <2>1. \A u \in Minted : u \in Minted'
    <3>1. op[p].role # Nobody
      BY NoneAssumption DEF Bounded, OpsFit, Carries, MintInsert, At, Gui, Nobody
    <3> QED
      BY <3>1 DEF Bounded, TypeOK, MintInsert, Minted
  <2> QED
    BY <1>1, <2>1, IdleTyped DEF Bounded, OpsFit, Carries, Becomes, InReach,
                                 MintInsert
<1>6. UnmintedNever'
  <2> SUFFICES ASSUME NEW u \in Tokens, origin'[u] = Nobody
               PROVE  expires'[u] = Never
    BY DEF UnmintedNever, Minted
  <2>1. CASE u = t
    <3>1. op[p].role # Nobody
      BY NoneAssumption DEF Bounded, OpsFit, Carries, MintInsert, At, Gui, Nobody
    <3> QED
      BY <2>1, <3>1 DEF Bounded, TypeOK, MintInsert
  <2>2. CASE u # t
    BY <2>2 DEF Bounded, TypeOK, MintInsert, UnmintedNever, Minted
  <2> QED BY <2>1, <2>2
<1>7. LifetimeBounded'
  BY <1>3 DEF Bounded, TypeOK, LifetimeBounded, MintInsert, InReach
<1> QED
  BY <1>4, <1>5, <1>6, <1>7 DEF Bounded

LEMMA ExtendBounded ==
  ASSUME Bounded, NEW p \in Procs, RenewWrite(p)
  PROVE  Bounded'
<1>1. Becomes(p, Idle)
  BY FinishBecomes DEF Bounded, RenewWrite
<1>2. op[p] \in Request
  BY DEF Bounded, TypeOK
<1>3. InReach(op[p].expires)
  BY DEF Bounded, OpsFit, Carries, RenewWrite, At
<1>4. TypeOK'
  BY <1>1, <1>2 DEF Bounded, TypeOK, Becomes, RenewWrite, roleVars, Request
<1>5. OpsFit'
  BY <1>1, IdleTyped DEF Bounded, OpsFit, Carries, Becomes, InReach, RenewWrite,
                               Minted
<1>6. UnmintedNever'
  <2>1. op[p].token \in Minted
    BY DEF Bounded, OpsFit, Carries, RenewWrite, At
  <2> QED
    BY <2>1 DEF Bounded, TypeOK, UnmintedNever, RenewWrite, Minted
<1>7. LifetimeBounded'
  BY <1>3 DEF Bounded, TypeOK, LifetimeBounded, RenewWrite, InReach
<1> QED
  BY <1>4, <1>5, <1>6, <1>7 DEF Bounded

LEMMA Later ==
  ASSUME NEW a \in Int, NEW b \in Int, a <= b, NEW m \in Int, NEW time \in Int,
         time <= a + m
  PROVE  time <= b + m
OBVIOUS

\* Steps that touch neither tokens nor requests.
LEMMA AsideBounded ==
  ASSUME Bounded, UNCHANGED <<tokenVars, op>>, now' \in Nat, now <= now',
         role' \in [Roles -> {"none", "live", "deleted"}],
         ttlOf' \in [Roles -> Ttls \cup {NoTtl}],
         secrets' \subseteq {r \in Roles : role'[r] = "live"} \X SecretIds
  PROVE  Bounded'
<1>1. TypeOK'
  BY DEF Bounded, TypeOK, tokenVars
<1>2. \A time \in Nat \cup {Never} :
        time <= now + MaxTtl => time <= now' + MaxTtl
  <2>1. now \in Nat /\ now' \in Nat /\ now <= now' /\ MaxTtl \in Nat
    BY BoundsAssumption DEF Bounded, TypeOK
  <2>2. Nat \cup {Never} \subseteq Int
    BY DEF Never
  <2>3. \A time \in Int : time <= now + MaxTtl => time <= now' + MaxTtl
    <3> SUFFICES ASSUME NEW time \in Int, time <= now + MaxTtl
                 PROVE  time <= now' + MaxTtl
      OBVIOUS
    <3>1. now \in Int /\ now' \in Int /\ now <= now' /\ MaxTtl \in Int
      BY <2>1
    <3> QED
      BY <3>1, Later
  <2> QED
    BY <2>2, <2>3
<1>3. OpsFit'
  <2> SUFFICES ASSUME NEW p \in Procs PROVE Carries(op[p])'
    BY DEF OpsFit
  <2>1. op[p].expires \in Nat \cup {Never}
    BY DEF Bounded, TypeOK, Request
  <2>2. Carries(op[p]) /\ op' = op /\ Minted' = Minted
    BY DEF Bounded, OpsFit, Minted, tokenVars
  <2>3. InReach(op[p].expires) => InReach(op[p].expires)'
    BY <1>2, <2>1, <2>2 DEF InReach
  <2> QED
    BY <2>2, <2>3 DEF Carries
<1>4. UnmintedNever'
  BY DEF Bounded, UnmintedNever, Minted, tokenVars
<1>5. LifetimeBounded'
  BY BoundsAssumption DEF Bounded, TypeOK, LifetimeBounded, tokenVars
<1> QED
  BY <1>1, <1>3, <1>4, <1>5 DEF Bounded

LEMMA NextBounded == Bounded /\ [Next]_vars => Bounded'
<1> SUFFICES ASSUME Bounded, [Next]_vars PROVE Bounded'
  OBVIOUS
<1>typed. TypeOK
  BY DEF Bounded
<1>1. ASSUME NEW p \in Procs, NEW ttl \in Ttls \cup {NoTtl}, CreateBegin(p, ttl)
      PROVE  Bounded'
  <2> DEFINE r == [Idle EXCEPT !.step = "mint", !.role = Gui, !.ttl = ttl]
  <2>1. Becomes(p, r)
    BY <1>1, <1>typed, CreateBecomes
  <2>2. r.step = "mint" /\ r.role = Gui
    BY DEF Idle
  <2>3. Carries(r)
    BY <2>2, NoneAssumption DEF Carries, Gui, Nobody
  <2> QED
    BY <1>1, <2>1, <2>3, RequestStep DEF CreateBegin, Becomes
<1>2. ASSUME NEW p \in Procs, Mint(p) PROVE Bounded'
  <2> DEFINE r == [op[p] EXCEPT !.step = "insert", !.expires = Until(op[p].ttl)]
  <2>1. InReach(Until(op[p].ttl)) /\ Becomes(p, r)
    BY <1>2, <1>typed, MintBecomes
  <2>2. op[p] \in Request /\ Carries(op[p]) /\ op[p].step = "mint"
    BY <1>2 DEF Bounded, TypeOK, OpsFit, Mint, At
  <2>3. r.step = "insert" /\ r.expires = Until(op[p].ttl) /\ r.role = op[p].role
    BY <2>2 DEF Request
  <2>4. Carries(r)
    BY <2>1, <2>2, <2>3 DEF Carries
  <2> QED
    BY <1>2, <2>1, <2>4, RequestStep DEF Mint, Becomes
<1>3. ASSUME NEW p \in Procs, NEW t \in Tokens, MintInsert(p, t) PROVE Bounded'
  BY <1>3, InsertBounded
<1>4. ASSUME NEW t \in Tokens, RevokeToken(t) \/ RevokeSelf(t) PROVE Bounded'
  BY <1>4 DEF Bounded, TypeOK, OpsFit, Carries, InReach, UnmintedNever,
              LifetimeBounded, Minted, RevokeToken,
              RevokeSelf, roleVars
<1>5. ASSUME NEW p \in Procs, NEW t \in Tokens, NEW ttl \in Ttls,
             RenewBegin(p, t, ttl)
      PROVE  Bounded'
  <2> DEFINE r == [Idle EXCEPT !.step = "renew", !.token = t, !.ttl = ttl,
                               !.expires = expires[t]]
  <2>1. Becomes(p, r)
    BY <1>5, <1>typed, RenewBecomes
  <2>2. r.step = "renew" /\ r.token = t
    BY DEF Idle
  <2>3. Carries(r)
    BY <1>5, <2>2 DEF Carries, RenewBegin
  <2> QED
    BY <1>5, <2>1, <2>3, RequestStep DEF RenewBegin, Becomes
<1>6. ASSUME NEW p \in Procs, RenewCheck(p) PROVE Bounded'
  <2> DEFINE r == [op[p] EXCEPT !.step = "extend", !.expires = now + op[p].ttl]
  <2>1. InReach(now + op[p].ttl) /\ Becomes(p, r)
    BY <1>6, <1>typed, CheckBecomes
  <2>2. op[p] \in Request /\ Carries(op[p]) /\ op[p].step = "renew"
    BY <1>6 DEF Bounded, TypeOK, OpsFit, RenewCheck, At
  <2>3. r.step = "extend" /\ r.expires = now + op[p].ttl /\ r.token = op[p].token
    BY <2>2 DEF Request
  <2>4. Carries(r)
    BY <2>1, <2>2, <2>3 DEF Carries
  <2> QED
    BY <1>6, <2>1, <2>4, RequestStep DEF RenewCheck, Becomes
<1>7. ASSUME NEW p \in Procs, RenewWrite(p) PROVE Bounded'
  BY <1>7, ExtendBounded
<1>8. ASSUME NEW r \in Roles, NEW ttl \in Ttls \cup {NoTtl}, CreateRole(r, ttl)
      PROVE  Bounded'
  <2>1. /\ role' \in [Roles -> {"none", "live", "deleted"}]
        /\ ttlOf' \in [Roles -> Ttls \cup {NoTtl}]
        /\ secrets' \subseteq {q \in Roles : role'[q] = "live"} \X SecretIds
    BY <1>8, <1>typed DEF CreateRole, TypeOK
  <2> QED
    BY <1>8, <1>typed, <2>1, AsideBounded DEF CreateRole, TypeOK
<1>9. ASSUME NEW p \in Procs, NEW r \in Roles, SecretBegin(p, r) PROVE Bounded'
  <2> DEFINE req == [Idle EXCEPT !.step = "secret", !.role = r]
  <2>1. Becomes(p, req)
    BY <1>9, <1>typed, SecretBecomes
  <2>2. req.step = "secret" /\ req.role = r
    BY DEF Idle
  <2>3. Carries(req)
    BY <2>2 DEF Carries
  <2> QED
    BY <1>9, <2>1, <2>3, RequestStep DEF SecretBegin, Becomes
<1>10. ASSUME NEW p \in Procs, NEW s \in SecretIds, SecretInsert(p, s)
       PROVE  Bounded'
  <2>1. Becomes(p, Idle)
    BY <1>10, <1>typed, FinishBecomes DEF SecretInsert
  <2>role. op[p].role \in Roles
    BY <1>10 DEF Bounded, OpsFit, Carries, SecretInsert, At
  <2>2. TypeOK'
    BY <1>10, <1>typed, <2>1, <2>role
    DEF SecretInsert, RoleExists, TypeOK, Becomes, tokenVars
  <2>3. OpsFit'
    BY <1>10, <2>1, IdleTyped DEF Bounded, OpsFit, Carries, Becomes, InReach,
       Minted, SecretInsert, tokenVars
  <2> QED
    BY <1>10, <2>2, <2>3 DEF Bounded, UnmintedNever, LifetimeBounded, Minted,
       SecretInsert, tokenVars
<1>11. ASSUME NEW r \in Roles, DeleteRole(r) PROVE Bounded'
  <2>1. /\ role' \in [Roles -> {"none", "live", "deleted"}]
        /\ secrets' \subseteq {q \in Roles : role'[q] = "live"} \X SecretIds
    BY <1>11, <1>typed DEF DeleteRole, SecretsWithout, TypeOK
  <2> QED
    BY <1>11, <1>typed, <2>1, AsideBounded DEF DeleteRole, TypeOK
<1>12. ASSUME NEW p \in Procs, NEW r \in Roles, NEW s \in SecretIds,
              LoginBegin(p, r, s)
       PROVE  Bounded'
  <2> DEFINE req == [Idle EXCEPT !.step = "match", !.role = r, !.secret = s,
                                 !.ttl = ttlOf[r]]
  <2>1. Becomes(p, req)
    BY <1>12, <1>typed, LoginBecomes
  <2>2. req.step = "match" /\ req.role = r
    BY DEF Idle
  <2>3. Carries(req)
    BY <2>2, NoneAssumption DEF Carries
  <2> QED
    BY <1>12, <2>1, <2>3, RequestStep DEF LoginBegin, Becomes
<1>13. ASSUME NEW p \in Procs, LoginMatch(p) PROVE Bounded'
  <2> DEFINE req == [op[p] EXCEPT !.step = "mint", !.secret = Nobody]
  <2>1. Becomes(p, req)
    BY <1>13, <1>typed, MatchBecomes
  <2>2. op[p] \in Request /\ Carries(op[p]) /\ op[p].step = "match"
    BY <1>13 DEF Bounded, TypeOK, OpsFit, LoginMatch, At
  <2>3. req.step = "mint" /\ req.role = op[p].role
    BY <2>2 DEF Request
  <2>4. Carries(req)
    BY <2>2, <2>3 DEF Carries
  <2> QED
    BY <1>13, <2>1, <2>4, RequestStep DEF LoginMatch, Becomes
<1>14. ASSUME NEW p \in Procs, Abort(p) PROVE Bounded'
  <2>1. Becomes(p, Idle)
    BY <1>14, <1>typed, FinishBecomes DEF Abort
  <2>2. Carries(Idle)
    BY IdleTyped DEF Carries
  <2> QED
    BY <1>14, <2>1, <2>2, RequestStep DEF Abort, Becomes
<1>15. ASSUME Tick PROVE Bounded'
  <2>1. now' \in Nat /\ now <= now'
    BY <1>15, <1>typed DEF Tick, TypeOK
  <2> QED
    BY <1>15, <1>typed, <2>1, AsideBounded DEF Tick, TypeOK, roleVars
<1>16. CASE UNCHANGED vars
  BY <1>16, <1>typed, AsideBounded DEF vars, roleVars, TypeOK
<1> QED
  BY <1>1, <1>2, <1>3, <1>4, <1>5, <1>6, <1>7, <1>8, <1>9, <1>10, <1>11, <1>12,
     <1>13, <1>14, <1>15, <1>16 DEF Next

LEMMA AlwaysBounded == Spec => []Bounded
BY InitBounded, NextBounded, PTL DEF Spec

\* Every variable always has its type, and secret-ids belong to live roles.
THEOREM TypeCorrect == Spec => []TypeOK
<1>1. Bounded => TypeOK
  BY DEF Bounded
<1> QED
  BY <1>1, AlwaysBounded, PTL

\* However renewals of a token overlap, its expiry is never further away than
\* the longest lifetime that may be asked for.
THEOREM LifetimesStayBounded == Spec => []LifetimeBounded
<1>1. Bounded => LifetimeBounded
  BY DEF Bounded
<1> QED
  BY <1>1, AlwaysBounded, PTL

-----------------------------------------------------------------------------
(* Dead tokens stay dead                                                    *)

LEMMA PassedStays ==
  ASSUME TypeOK, NEW time \in Nat \cup {Never}, now' \in Nat, now <= now',
         Passed(time)
  PROVE  Passed(time)'
<1>1. time \in Int /\ now \in Int /\ now' \in Int
  BY DEF TypeOK, Never
<1> QED
  BY <1>1 DEF Passed

\* A dead token is safe from a request that becomes one not reviving it.
LEMMA DeadByRequest ==
  ASSUME NEW t \in Tokens, Dead(t), UNCHANGED <<now, expires, revoked>>,
         NEW p \in Procs, NEW r \in Request, Becomes(p, r),
         r.step \notin {"renew", "extend"} \/ r.token # t \/
           (r.step = "renew" /\ Passed(r.expires))
  PROVE  Dead(t)'
BY DEF Dead, Expired, Passed, RevivedBy, At, Becomes

\* Steps that leave tokens and requests alone.
LEMMA DeadAside ==
  ASSUME Bounded, NEW t \in Tokens, Dead(t), UNCHANGED <<tokenVars, op>>,
         now' \in Nat, now <= now'
  PROVE  Dead(t)'
<1>1. TypeOK /\ expires' = expires /\ revoked' = revoked /\ op' = op
  BY DEF Bounded, tokenVars
<1>2. expires[t] \in Nat \cup {Never}
  BY <1>1 DEF TypeOK
<1>3. Expired(t) => Expired(t)'
  BY <1>1, <1>2, PassedStays DEF Expired, Passed
<1>4. \A p \in Procs : op[p].expires \in Nat \cup {Never}
  BY <1>1 DEF TypeOK, Request
<1>5. \A p \in Procs : Passed(op[p].expires) => Passed(op[p].expires)'
  BY <1>1, <1>4, PassedStays
<1>6. \A p \in Procs : ~RevivedBy(p, t) => ~RevivedBy(p, t)'
  BY <1>1, <1>5 DEF RevivedBy, At, Passed
<1> QED
  BY <1>1, <1>3, <1>6 DEF Dead

LEMMA DeadByMint ==
  ASSUME Bounded, NEW t \in Tokens, Dead(t), NEW p \in Procs, NEW u \in Tokens,
         MintInsert(p, u)
  PROVE  Dead(t)'
<1>1. CASE t \in revoked
  BY <1>1 DEF Dead, MintInsert
<1>2. CASE t \notin revoked
  <2>1. Expired(t) /\ \A q \in Procs : ~RevivedBy(q, t)
    BY <1>2 DEF Dead
  <2>2. t # u
    BY <2>1 DEF Bounded, UnmintedNever, Expired, Passed, MintInsert
  <2>3. expires'[t] = expires[t] /\ now' = now
    BY <2>2 DEF Bounded, TypeOK, MintInsert
  <2>4. Becomes(p, Idle)
    BY FinishBecomes DEF Bounded, MintInsert
  <2>5. Expired(t)'
    BY <2>1, <2>3 DEF Expired, Passed
  <2>6. \A q \in Procs : ~RevivedBy(q, t)'
    BY <2>1, <2>3, <2>4, IdleTyped DEF RevivedBy, At, Becomes, Passed
  <2> QED
    BY <2>5, <2>6 DEF Dead
<1> QED
  BY <1>1, <1>2

LEMMA DeadByRenewal ==
  ASSUME Bounded, NEW t \in Tokens, Dead(t), NEW p \in Procs, RenewWrite(p)
  PROVE  Dead(t)'
<1>1. CASE t \in revoked
  BY <1>1 DEF Dead, RenewWrite
<1>2. CASE t \notin revoked
  <2>1. Expired(t) /\ \A q \in Procs : ~RevivedBy(q, t)
    BY <1>2 DEF Dead
  <2>2. op[p].token # t
    BY <2>1 DEF RevivedBy, RenewWrite
  <2>3. expires'[t] = expires[t] /\ now' = now
    BY <2>2 DEF Bounded, TypeOK, RenewWrite
  <2>4. Becomes(p, Idle)
    BY FinishBecomes DEF Bounded, RenewWrite
  <2>5. Expired(t)'
    BY <2>1, <2>3 DEF Expired, Passed
  <2>6. \A q \in Procs : ~RevivedBy(q, t)'
    BY <2>1, <2>3, <2>4, IdleTyped DEF RevivedBy, At, Becomes, Passed
  <2> QED
    BY <2>5, <2>6 DEF Dead
<1> QED
  BY <1>1, <1>2

LEMMA DeadStep ==
  ASSUME Bounded, [Next]_vars, NEW t \in Tokens, Dead(t)
  PROVE  Dead(t)'
<1>typed. TypeOK
  BY DEF Bounded
<1>1. ASSUME NEW p \in Procs, NEW ttl \in Ttls \cup {NoTtl}, CreateBegin(p, ttl)
      PROVE  Dead(t)'
  <2> DEFINE r == [Idle EXCEPT !.step = "mint", !.role = Gui, !.ttl = ttl]
  <2>1. Becomes(p, r) /\ r.step = "mint"
    BY <1>1, <1>typed, CreateBecomes DEF Idle
  <2> QED
    BY <1>1, <2>1, DeadByRequest DEF CreateBegin, Becomes, tokenVars
<1>2. ASSUME NEW p \in Procs, Mint(p) PROVE Dead(t)'
  <2> DEFINE r == [op[p] EXCEPT !.step = "insert", !.expires = Until(op[p].ttl)]
  <2>1. Becomes(p, r)
    BY <1>2, <1>typed, MintBecomes
  <2>2. op[p] \in Request
    BY <1>typed DEF TypeOK
  <2>3. r.step = "insert"
    BY <2>2 DEF Request
  <2> QED
    BY <1>2, <2>1, <2>3, DeadByRequest DEF Mint, Becomes, tokenVars
<1>3. ASSUME NEW p \in Procs, NEW u \in Tokens, MintInsert(p, u) PROVE Dead(t)'
  BY <1>3, DeadByMint
<1>4. ASSUME NEW u \in Tokens, RevokeToken(u) \/ RevokeSelf(u) PROVE Dead(t)'
  BY <1>4 DEF Dead, Expired, Passed, RevivedBy, At, RevokeToken, RevokeSelf
<1>5. ASSUME NEW p \in Procs, NEW u \in Tokens, NEW ttl \in Ttls,
             RenewBegin(p, u, ttl)
      PROVE  Dead(t)'
  <2> DEFINE r == [Idle EXCEPT !.step = "renew", !.token = u, !.ttl = ttl,
                               !.expires = expires[u]]
  <2>1. Becomes(p, r)
    BY <1>5, <1>typed, RenewBecomes
  <2>2. r.step = "renew" /\ r.token = u /\ r.expires = expires[u]
    BY DEF Idle
  <2>3. u = t => Passed(expires[u])
    BY <1>5 DEF Dead, Expired, RenewBegin
  <2> QED
    BY <1>5, <2>1, <2>2, <2>3, DeadByRequest DEF RenewBegin, Becomes, tokenVars
<1>6. ASSUME NEW p \in Procs, RenewCheck(p) PROVE Dead(t)'
  <2> DEFINE r == [op[p] EXCEPT !.step = "extend", !.expires = now + op[p].ttl]
  <2>1. Becomes(p, r)
    BY <1>6, <1>typed, CheckBecomes
  <2>2. op[p] \in Request
    BY <1>typed DEF TypeOK
  <2>3. r.token = op[p].token
    BY <2>2 DEF Request
  <2>4. CASE t \in revoked
    BY <1>6, <2>4 DEF Dead, RenewCheck, tokenVars
  <2>5. CASE t \notin revoked
    <3>1. op[p].token # t
      BY <1>6, <2>5 DEF Dead, RevivedBy, RenewCheck, RenewAllowed
    <3>2. r \in Request /\ r.token # t
      BY <2>1, <2>3, <3>1 DEF Becomes
    <3>3. UNCHANGED <<now, expires, revoked>>
      BY <1>6 DEF RenewCheck, tokenVars
    <3> HIDE DEF r
    <3> QED
      BY <2>1, <3>2, <3>3, DeadByRequest
  <2> QED BY <2>4, <2>5
<1>7. ASSUME NEW p \in Procs, RenewWrite(p) PROVE Dead(t)'
  BY <1>7, DeadByRenewal
<1>8. ASSUME NEW r \in Roles, NEW ttl \in Ttls \cup {NoTtl}, CreateRole(r, ttl)
      PROVE  Dead(t)'
  BY <1>8, <1>typed, DeadAside DEF CreateRole, TypeOK
<1>9. ASSUME NEW p \in Procs, NEW r \in Roles, SecretBegin(p, r) PROVE Dead(t)'
  <2> DEFINE req == [Idle EXCEPT !.step = "secret", !.role = r]
  <2>1. Becomes(p, req) /\ req.step = "secret"
    BY <1>9, <1>typed, SecretBecomes DEF Idle
  <2> QED
    BY <1>9, <2>1, DeadByRequest DEF SecretBegin, Becomes, tokenVars
<1>10. ASSUME NEW p \in Procs, NEW s \in SecretIds, SecretInsert(p, s)
       PROVE  Dead(t)'
  <2>1. Becomes(p, Idle)
    BY <1>10, <1>typed, FinishBecomes DEF SecretInsert
  <2> QED
    BY <1>10, <2>1, IdleTyped, DeadByRequest DEF SecretInsert, tokenVars
<1>11. ASSUME NEW r \in Roles, DeleteRole(r) PROVE Dead(t)'
  BY <1>11, <1>typed, DeadAside DEF DeleteRole, TypeOK
<1>12. ASSUME NEW p \in Procs, NEW r \in Roles, NEW s \in SecretIds,
              LoginBegin(p, r, s)
       PROVE  Dead(t)'
  <2> DEFINE req == [Idle EXCEPT !.step = "match", !.role = r, !.secret = s,
                                 !.ttl = ttlOf[r]]
  <2>1. Becomes(p, req) /\ req.step = "match"
    BY <1>12, <1>typed, LoginBecomes DEF Idle
  <2> QED
    BY <1>12, <2>1, DeadByRequest DEF LoginBegin, Becomes, tokenVars
<1>13. ASSUME NEW p \in Procs, LoginMatch(p) PROVE Dead(t)'
  <2> DEFINE req == [op[p] EXCEPT !.step = "mint", !.secret = Nobody]
  <2>1. Becomes(p, req)
    BY <1>13, <1>typed, MatchBecomes
  <2>2. op[p] \in Request
    BY <1>typed DEF TypeOK
  <2>3. req.step = "mint"
    BY <2>2 DEF Request
  <2> QED
    BY <1>13, <2>1, <2>3, DeadByRequest DEF LoginMatch, Becomes, tokenVars
<1>14. ASSUME NEW p \in Procs, Abort(p) PROVE Dead(t)'
  <2>1. Becomes(p, Idle)
    BY <1>14, <1>typed, FinishBecomes DEF Abort
  <2> QED
    BY <1>14, <2>1, IdleTyped, DeadByRequest DEF Abort, tokenVars
<1>15. ASSUME Tick PROVE Dead(t)'
  <2>1. now' \in Nat /\ now <= now'
    BY <1>15, <1>typed DEF Tick, TypeOK
  <2> QED
    BY <1>15, <2>1, DeadAside DEF Tick
<1>16. CASE UNCHANGED vars
  BY <1>16, <1>typed, DeadAside DEF vars, TypeOK
<1> QED
  BY <1>1, <1>2, <1>3, <1>4, <1>5, <1>6, <1>7, <1>8, <1>9, <1>10, <1>11, <1>12,
     <1>13, <1>14, <1>15, <1>16 DEF Next

\* A token that was revoked, or that expired with no renewal that found it
\* alive, is never valid again.
THEOREM NoResurrection == Spec => DeadStaysDead
<1>1. Bounded /\ [Next]_vars => [\A t \in Tokens : Dead(t) => Dead(t)']_vars
  BY DeadStep
<1> QED
  BY <1>1, AlwaysBounded, PTL DEF Spec, DeadStaysDead

-----------------------------------------------------------------------------
(* Retired roles mint nothing                                               *)

\* A retired role stays retired when a request becomes one that does not mint
\* for it.
LEMMA RetiredByRequest ==
  ASSUME NEW r \in Roles, Retired(r), role' = role,
         NEW p \in Procs, NEW req \in Request, Becomes(p, req),
         req.step \in {"mint", "insert"} => req.role # r
  PROVE  Retired(r)'
BY DEF Retired, Becomes

LEMMA RetiredStep ==
  ASSUME TypeOK, [Next]_vars, NEW r \in Roles, Retired(r)
  PROVE  Retired(r)' /\ \A t \in Tokens : origin'[t] = r => origin[t] = r
<1>1. ASSUME NEW p \in Procs, NEW ttl \in Ttls \cup {NoTtl}, CreateBegin(p, ttl)
      PROVE  Retired(r)' /\ origin' = origin
  <2> DEFINE req == [Idle EXCEPT !.step = "mint", !.role = Gui, !.ttl = ttl]
  <2>1. Becomes(p, req) /\ req.role = Gui
    BY <1>1, CreateBecomes DEF Idle
  <2>2. Gui # r
    BY NoneAssumption
  <2> QED
    BY <1>1, <2>1, <2>2, RetiredByRequest
    DEF CreateBegin, Becomes, roleVars, tokenVars
<1>2. ASSUME NEW p \in Procs, Mint(p) PROVE Retired(r)' /\ origin' = origin
  <2> DEFINE req == [op[p] EXCEPT !.step = "insert", !.expires = Until(op[p].ttl)]
  <2>1. Becomes(p, req)
    BY <1>2, MintBecomes
  <2>2. op[p] \in Request /\ op[p].role # r
    BY <1>2 DEF TypeOK, Retired, Mint, At
  <2>3. req.role # r
    BY <2>2 DEF Request
  <2>4. role' = role /\ origin' = origin
    BY <1>2 DEF Mint, roleVars, tokenVars
  <2>5. req \in Request
    BY <2>1 DEF Becomes
  <2> HIDE DEF req
  <2> QED
    BY <2>1, <2>3, <2>4, <2>5, RetiredByRequest
<1>3. ASSUME NEW p \in Procs, NEW t \in Tokens, MintInsert(p, t)
      PROVE  Retired(r)' /\ \A u \in Tokens : origin'[u] = r => origin[u] = r
  <2>1. Becomes(p, Idle)
    BY <1>3, FinishBecomes DEF MintInsert
  <2>2. Retired(r)'
    BY <1>3, <2>1, IdleTyped, RetiredByRequest DEF MintInsert, roleVars
  <2>3. op[p].role # r
    BY <1>3 DEF Retired, MintInsert, At
  <2>4. \A u \in Tokens : origin'[u] = r => origin[u] = r
    BY <1>3, <2>3 DEF MintInsert, TypeOK
  <2> QED BY <2>2, <2>4
<1>4. ASSUME NEW u \in Tokens, RevokeToken(u) \/ RevokeSelf(u) PROVE Retired(r)' /\ origin' = origin
  BY <1>4 DEF RevokeToken, RevokeSelf, Retired, roleVars
<1>5. ASSUME NEW p \in Procs, NEW u \in Tokens, NEW ttl \in Ttls,
             RenewBegin(p, u, ttl)
      PROVE  Retired(r)' /\ origin' = origin
  <2> DEFINE req == [Idle EXCEPT !.step = "renew", !.token = u, !.ttl = ttl,
                                 !.expires = expires[u]]
  <2>1. Becomes(p, req) /\ req.step = "renew"
    BY <1>5, RenewBecomes DEF Idle
  <2> QED
    BY <1>5, <2>1, RetiredByRequest DEF RenewBegin, Becomes, roleVars, tokenVars
<1>6. ASSUME NEW p \in Procs, RenewCheck(p) PROVE Retired(r)' /\ origin' = origin
  <2> DEFINE req == [op[p] EXCEPT !.step = "extend", !.expires = now + op[p].ttl]
  <2>1. Becomes(p, req)
    BY <1>6, CheckBecomes
  <2>2. op[p] \in Request
    BY DEF TypeOK
  <2>3. req.step = "extend"
    BY <2>2 DEF Request
  <2> QED
    BY <1>6, <2>1, <2>3, RetiredByRequest
    DEF RenewCheck, Becomes, roleVars, tokenVars
<1>7. ASSUME NEW p \in Procs, RenewWrite(p) PROVE Retired(r)' /\ origin' = origin
  <2>1. Becomes(p, Idle)
    BY <1>7, FinishBecomes DEF RenewWrite
  <2> QED
    BY <1>7, <2>1, IdleTyped, RetiredByRequest DEF RenewWrite, roleVars
<1>8. ASSUME NEW q \in Roles, NEW ttl \in Ttls \cup {NoTtl}, CreateRole(q, ttl)
      PROVE  Retired(r)' /\ origin' = origin
  BY <1>8 DEF CreateRole, Retired, TypeOK, tokenVars
<1>9. ASSUME NEW p \in Procs, NEW q \in Roles, SecretBegin(p, q)
      PROVE  Retired(r)' /\ origin' = origin
  <2> DEFINE req == [Idle EXCEPT !.step = "secret", !.role = q]
  <2>1. Becomes(p, req) /\ req.step = "secret"
    BY <1>9, SecretBecomes DEF Idle
  <2> QED
    BY <1>9, <2>1, RetiredByRequest DEF SecretBegin, Becomes, roleVars, tokenVars
<1>10. ASSUME NEW p \in Procs, NEW s \in SecretIds, SecretInsert(p, s)
       PROVE  Retired(r)' /\ origin' = origin
  <2>1. Becomes(p, Idle)
    BY <1>10, FinishBecomes DEF SecretInsert
  <2> QED
    BY <1>10, <2>1, IdleTyped, RetiredByRequest DEF SecretInsert, tokenVars
<1>11. ASSUME NEW q \in Roles, DeleteRole(q) PROVE Retired(r)' /\ origin' = origin
  BY <1>11 DEF DeleteRole, Retired, TypeOK, tokenVars
<1>12. ASSUME NEW p \in Procs, NEW q \in Roles, NEW s \in SecretIds,
              LoginBegin(p, q, s)
       PROVE  Retired(r)' /\ origin' = origin
  <2> DEFINE req == [Idle EXCEPT !.step = "match", !.role = q, !.secret = s,
                                 !.ttl = ttlOf[q]]
  <2>1. Becomes(p, req) /\ req.step = "match"
    BY <1>12, LoginBecomes DEF Idle
  <2> QED
    BY <1>12, <2>1, RetiredByRequest DEF LoginBegin, Becomes, roleVars, tokenVars
<1>13. ASSUME NEW p \in Procs, LoginMatch(p) PROVE Retired(r)' /\ origin' = origin
  <2> DEFINE req == [op[p] EXCEPT !.step = "mint", !.secret = Nobody]
  <2>1. Becomes(p, req)
    BY <1>13, MatchBecomes
  <2>2. op[p].role # r
    \* Deleting r removed its secret-ids.
    <3>1. role[op[p].role] = "live"
      BY <1>13 DEF LoginMatch, TypeOK
    <3> QED
      BY <3>1 DEF Retired
  <2>3. op[p] \in Request
    BY DEF TypeOK
  <2>4. req.role # r
    BY <2>2, <2>3 DEF Request
  <2>5. req \in Request /\ role' = role /\ origin' = origin
    BY <1>13, <2>1 DEF LoginMatch, Becomes, roleVars, tokenVars
  <2> HIDE DEF req
  <2> QED
    BY <2>1, <2>4, <2>5, RetiredByRequest
<1>14. ASSUME NEW p \in Procs, Abort(p) PROVE Retired(r)' /\ origin' = origin
  <2>1. Becomes(p, Idle)
    BY <1>14, FinishBecomes DEF Abort
  <2> QED
    BY <1>14, <2>1, IdleTyped, RetiredByRequest DEF Abort, roleVars, tokenVars
<1>15. ASSUME Tick PROVE Retired(r)' /\ origin' = origin
  BY <1>15 DEF Tick, Retired, tokenVars, roleVars
<1>16. CASE UNCHANGED vars
  BY <1>16 DEF vars, Retired, tokenVars, roleVars
<1> QED
  BY <1>1, <1>2, <1>3, <1>4, <1>5, <1>6, <1>7, <1>8, <1>9, <1>10, <1>11, <1>12,
     <1>13, <1>14, <1>15, <1>16 DEF Next

\* Once a role is deleted and the logins past its secret-id check are through,
\* no token is minted for it any more.
THEOREM DeletionRetires == Spec => RetiredRolesMintNothing
<1>1. TypeOK /\ [Next]_vars =>
        [\A r \in Roles : Retired(r) =>
           Retired(r)' /\ \A t \in Tokens : origin'[t] = r => origin[t] = r]_vars
  BY RetiredStep
<1> QED
  BY <1>1, TypeCorrect, PTL DEF Spec, RetiredRolesMintNothing
=============================================================================
