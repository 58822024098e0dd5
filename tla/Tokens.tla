-------------------------------- MODULE Tokens --------------------------------
(***************************************************************************)
(* How long API tokens live (src/tokens.rs, src/api/routes/auth_token.rs)  *)
(* and the AppRoles whose logins mint them (src/approle.rs), for one       *)
(* vault.  Renewals and logins are several SQL statements each, with time  *)
(* and other requests passing in between.  The keys a token carries are    *)
(* the subject of VaultKeys.                                               *)
(*                                                                         *)
(* A request that is refused before it changes anything is no step.  Who   *)
(* may use the GUI handlers is the subject of Accounts and VaultKeys.      *)
(* Ids, tokens and secret-ids are random, hence never handed out twice.    *)
(* Role names are left out: they decide only whether a role can be         *)
(* created.                                                                *)
(*                                                                         *)
(* Definitions marked "mutant" are no part of the specification: each is a *)
(* plausible mistake in the definition that follows it, put in its place   *)
(* to see that a property notices.                                         *)
(***************************************************************************)
EXTENDS Integers, FiniteSets

CONSTANTS
  Tokens,    \* bound: tokens ever minted
  Roles,     \* bound: AppRoles ever created
  SecretIds, \* bound: secret-ids that exist at once
  Procs,     \* requests that may be in flight at once
  MaxTtl,    \* longest TTL and longest renewal asked for
  MaxTime    \* bound: the clock stops here

ASSUME BoundsAssumption == MaxTtl \in Nat \ {0} /\ MaxTime \in Nat

NoTtl == 0     \* ttl_seconds, token_ttl or renew_period is NULL
Never == -1    \* expires_at is NULL
Gui == "gui"   \* minted by tokens_create, not by a login
Nobody == "nobody"
ASSUME NoneAssumption ==
  Gui \notin Roles /\ Nobody \notin Roles \cup Tokens \cup SecretIds

VARIABLES
  now,     \* the clock
  origin,  \* origin[t]: the role whose login minted t, Gui, or Nobody yet
  expires, \* api_tokens.expires_at
  period,  \* api_tokens.renew_period; renewable says that there is one
  revoked, \* api_tokens.revoked
  role,    \* role[r]: "none", "live", or "deleted" for good
  ttlOf,   \* approles.token_ttl
  secrets, \* rows of approle_secrets: <<role, secret-id>>
  op       \* op[p]: what request p has read and is about to do

tokenVars == <<origin, expires, period, revoked>>
roleVars  == <<role, ttlOf, secrets>>
vars == <<now, tokenVars, roleVars, op>>

Ttls == 1..MaxTtl
Step == {"idle", "mint", "insert", "match", "secret", "renew", "extend"}
Request == [step : Step, token : Tokens \cup {Nobody},
            role : Roles \cup {Gui, Nobody}, secret : SecretIds \cup {Nobody},
            ttl : Ttls \cup {NoTtl}, expires : Nat \cup {Never}]
Idle == [step |-> "idle", token |-> Nobody, role |-> Nobody, secret |-> Nobody,
         ttl |-> NoTtl, expires |-> Never]
At(p, step) == op[p].step = step
Begin(p, request) == op[p] = Idle /\ op' = [op EXCEPT ![p] = request]
Finish(p) == op' = [op EXCEPT ![p] = Idle]

Minted == {t \in Tokens : origin[t] # Nobody}
Until(ttl) == IF ttl = NoTtl THEN Never ELSE now + ttl
Passed(time) == time # Never /\ time <= now

\* authenticate_token, lookup and renew refuse an expired token.
Expired(t) == Passed(expires[t])

Init ==
  /\ now = 0
  /\ origin = [t \in Tokens |-> Nobody]
  /\ expires = [t \in Tokens |-> Never]
  /\ period = [t \in Tokens |-> NoTtl]
  /\ revoked = {}
  /\ role = [r \in Roles |-> "none"]
  /\ ttlOf = [r \in Roles |-> NoTtl]
  /\ secrets = {}
  /\ op = [p \in Procs |-> Idle]

-----------------------------------------------------------------------------
(* Minting and revoking                                                     *)

\* tokens_create, with or without a lifetime.
CreateBegin(p, ttl) ==
  /\ Begin(p, [Idle EXCEPT !.step = "mint", !.role = Gui, !.ttl = ttl])
  /\ UNCHANGED <<now, tokenVars, roleVars>>

\* mint: expires_at counts from here.
Mint(p) ==
  /\ At(p, "mint")
  /\ op' = [op EXCEPT ![p].step = "insert", ![p].expires = Until(op[p].ttl)]
  /\ UNCHANGED <<now, tokenVars, roleVars>>

\* The INSERT of mint: a token with a TTL is renewable by that TTL.
MintInsert(p, t) ==
  /\ At(p, "insert")
  /\ t \notin Minted
  /\ origin' = [origin EXCEPT ![t] = op[p].role]
  /\ expires' = [expires EXCEPT ![t] = op[p].expires]
  /\ period' = [period EXCEPT ![t] = op[p].ttl]
  /\ Finish(p)
  /\ UNCHANGED <<now, revoked, roleVars>>

\* revoke_token, from the GUI.
RevokeToken(t) ==
  /\ t \in Minted
  /\ revoked' = revoked \cup {t}
  /\ UNCHANGED <<now, origin, expires, period, roleVars, op>>

\* revoke_self, by the token's holder: refused once revoked, not when expired.
RevokeSelf(t) ==
  /\ t \in Minted \ revoked
  /\ revoked' = revoked \cup {t}
  /\ UNCHANGED <<now, origin, expires, period, roleVars, op>>

-----------------------------------------------------------------------------
(* Renewal                                                                  *)

\* renew reads the row: not revoked, and renewable.  The caller names an
\* increment, or takes the stored period.
RenewBegin(p, t, ttl) ==
  /\ t \in Minted \ revoked
  /\ period[t] # NoTtl
  /\ Begin(p, [Idle EXCEPT !.step = "renew", !.token = t, !.ttl = ttl,
                           !.expires = expires[t]])
  /\ UNCHANGED <<now, tokenVars, roleVars>>

\* The row that was read had not expired.
RenewUnchecked(p) == TRUE \* mutant
RenewAllowed(p) == ~Passed(op[p].expires)

\* The new expiry counts from now, whatever the old one was.
ExtendedExpiry(p) == op[p].expires + op[p].ttl \* mutant
NewExpiry(p) == now + op[p].ttl

RenewCheck(p) ==
  /\ At(p, "renew")
  /\ RenewAllowed(p)
  /\ op' = [op EXCEPT ![p].step = "extend", ![p].expires = NewExpiry(p)]
  /\ UNCHANGED <<now, tokenVars, roleVars>>

\* The UPDATE of renew finds the token by its hash alone.
RenewWrite(p) ==
  /\ At(p, "extend")
  /\ expires' = [expires EXCEPT ![op[p].token] = op[p].expires]
  /\ Finish(p)
  /\ UNCHANGED <<now, origin, period, revoked, roleVars>>

-----------------------------------------------------------------------------
(* AppRoles                                                                 *)

\* create_role.
CreateRole(r, ttl) ==
  /\ role[r] = "none"
  /\ role' = [role EXCEPT ![r] = "live"]
  /\ ttlOf' = [ttlOf EXCEPT ![r] = ttl]
  /\ UNCHANGED <<now, tokenVars, secrets, op>>

\* approle_secret_id finds the role on its vault.
SecretBegin(p, r) ==
  /\ role[r] = "live"
  /\ Begin(p, [Idle EXCEPT !.step = "secret", !.role = r])
  /\ UNCHANGED <<now, tokenVars, roleVars>>

\* Foreign key of approle_secrets.
RoleUnchecked(r) == TRUE \* mutant
RoleExists(r) == role[r] = "live"

\* A random secret-id: neither stored nor presented by anyone.
FreshSecret(s) == s \notin {row[2] : row \in secrets} \cup {op[q].secret : q \in Procs}

\* generate_secret_id.
SecretInsert(p, s) ==
  /\ At(p, "secret")
  /\ FreshSecret(s)
  /\ RoleExists(op[p].role)
  /\ secrets' = secrets \cup {<<op[p].role, s>>}
  /\ Finish(p)
  /\ UNCHANGED <<now, tokenVars, role, ttlOf>>

\* ON DELETE CASCADE.
SecretsKept(r) == secrets \* mutant
SecretsWithout(r) == {row \in secrets : row[1] # r}

\* delete_role.
DeleteRole(r) ==
  /\ role[r] = "live"
  /\ role' = [role EXCEPT ![r] = "deleted"]
  /\ secrets' = SecretsWithout(r)
  /\ UNCHANGED <<now, tokenVars, ttlOf, op>>

\* A login with some role's secret-id; get_by_role_id finds the role.
LoginBegin(p, r, s) ==
  /\ role[r] = "live"
  /\ s \in {row[2] : row \in secrets}
  /\ Begin(p, [Idle EXCEPT !.step = "match", !.role = r, !.secret = s,
                           !.ttl = ttlOf[r]])
  /\ UNCHANGED <<now, tokenVars, roleVars>>

\* The secret-id is one of the role's; what follows is create_token_via_master.
LoginMatch(p) ==
  /\ At(p, "match")
  /\ <<op[p].role, op[p].secret>> \in secrets
  /\ op' = [op EXCEPT ![p].step = "mint", ![p].secret = Nobody]
  /\ UNCHANGED <<now, tokenVars, roleVars>>

-----------------------------------------------------------------------------
\* A request ends between two steps, with an error or because it is cut off.
Abort(p) ==
  /\ op[p] # Idle
  /\ Finish(p)
  /\ UNCHANGED <<now, tokenVars, roleVars>>

Tick ==
  /\ now < MaxTime
  /\ now' = now + 1
  /\ UNCHANGED <<tokenVars, roleVars, op>>

Next ==
  \/ \E p \in Procs :
       \/ Mint(p) \/ RenewCheck(p) \/ RenewWrite(p) \/ LoginMatch(p) \/ Abort(p)
       \/ \E ttl \in Ttls \cup {NoTtl} : CreateBegin(p, ttl)
       \/ \E t \in Tokens : MintInsert(p, t)
       \/ \E t \in Tokens, ttl \in Ttls : RenewBegin(p, t, ttl)
       \/ \E r \in Roles : SecretBegin(p, r)
       \/ \E s \in SecretIds : SecretInsert(p, s)
       \/ \E r \in Roles, s \in SecretIds : LoginBegin(p, r, s)
  \/ \E t \in Tokens : RevokeToken(t) \/ RevokeSelf(t)
  \/ \E r \in Roles : DeleteRole(r)
  \/ \E r \in Roles, ttl \in Ttls \cup {NoTtl} : CreateRole(r, ttl)
  \/ Tick

Spec == Init /\ [][Next]_vars

-----------------------------------------------------------------------------
\* Every variable has its type, and every stored secret-id belongs to a role
\* that exists.
TypeOK ==
  /\ now \in Nat
  /\ origin \in [Tokens -> Roles \cup {Gui, Nobody}]
  /\ expires \in [Tokens -> Nat \cup {Never}]
  /\ period \in [Tokens -> Ttls \cup {NoTtl}]
  /\ revoked \subseteq Tokens
  /\ role \in [Roles -> {"none", "live", "deleted"}]
  /\ ttlOf \in [Roles -> Ttls \cup {NoTtl}]
  /\ secrets \subseteq {r \in Roles : role[r] = "live"} \X SecretIds
  /\ op \in [Procs -> Request]

\* Renewals do not pile up: however many overlap, a token that expires does so
\* within the longest lifetime anybody may ask for (renew in tokens.rs counts
\* from the present, not from the old expiry).
LifetimeBounded ==
  \A t \in Tokens : expires[t] # Never => expires[t] <= now + MaxTtl

\* Renewal p has found t alive: it is past its check, or will pass it.
RevivedBy(p, t) ==
  /\ op[p].token = t
  /\ At(p, "extend") \/ (At(p, "renew") /\ ~Passed(op[p].expires))

\* Token t has been revoked, or has expired with no renewal that found it alive.
Dead(t) == t \in revoked \/ (Expired(t) /\ \A p \in Procs : ~RevivedBy(p, t))

\* A dead token stays dead: only a renewal under way since before the token
\* expired can bring it back, and none can once it is revoked (renew in
\* tokens.rs; that a shorter renewal expires a token under a longer one that
\* read it earlier is part of it).
DeadStaysDead == [][\A t \in Tokens : Dead(t) => Dead(t)']_vars

\* Role r is deleted, and no login is past the check of its secret-id.
Retired(r) ==
  role[r] = "deleted" /\ \A p \in Procs : op[p].step \in {"mint", "insert"} => op[p].role # r

\* A retired role mints no more tokens: only logins that had matched their
\* secret-id before the deletion still get theirs (login and delete_role in
\* approle.rs with the cascade of migrations/004_approle.sql).
RetiredRolesMintNothing ==
  [][\A r \in Roles : Retired(r) =>
       Retired(r)' /\ \A t \in Tokens : origin'[t] = r => origin[t] = r]_vars
=============================================================================
