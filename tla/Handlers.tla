-------------------------------- MODULE Handlers --------------------------------
(***************************************************************************)
(* What stands between a request and its effect, and what of it reaches    *)
(* the audit log: the handlers of src/web/mod.rs and src/api/routes/kv.rs  *)
(* as sequences of gates, an effect and a row, over sessions, seal, roles  *)
(* on one vault and tokens that other requests change in between.  One     *)
(* request is followed at a time: the others act on it only through the    *)
(* system, by Interference, and it acts on them no otherwise               *)
(* (OthersAreInterference).                                                *)
(*                                                                         *)
(* Each route is a record: the gates its handler passes in order, what it  *)
(* does to the system or shows, and whether its row is written after that, *)
(* before it, or never.  Routes with equal records behave alike.  What an  *)
(* effect does in detail, statement by statement, is the subject of        *)
(* VaultKeys, SecretStore, SealLifecycle, Accounts and Tokens; here it is  *)
(* one step on the part of the state that gates look at.  A row is what is *)
(* written about its own request; retention is the subject of AuditLog.    *)
(*                                                                         *)
(* Definitions marked "mutant" are no part of the specification: each is a *)
(* plausible mistake in the definition that follows it, put in its place   *)
(* to see that a property notices.                                         *)
(***************************************************************************)
EXTENDS AccessRules, FiniteSets

CONSTANTS
  Users,      \* users with a GUI account
  Master,     \* the user among them with is_master
  Tokens,     \* API tokens of the vault
  ReadOnly,   \* the tokens that may not write
  PatternsOf, \* PatternsOf[t]: the path patterns token t was minted with
  SubnetsOf,  \* SubnetsOf[t]: the addresses it may be used from
  Stored,     \* paths of secrets in the vault
  Asked,      \* paths clients ask for
  Arrivals,   \* the ways by which requests to the API arrive
  Proxies     \* security.trusted_proxies

ASSUME UsersAssumption == Master \in Users /\ Users \cap Tokens = {}
ASSUME RulesAssumption ==
  \A t \in Tokens : PatternsOf[t] \subseteq Pattern /\ SubnetsOf[t] \subseteq Subnet
ASSUME PathsAssumption == Stored \cup Asked \subseteq Path

\* The network: a request comes from its client directly, with the header that
\* was sent, or through reverse proxies, the last of which is the peer.  The first
\* of them writes the client's address in place of the header that was sent, or
\* behind it, and the others add those of the proxies before them (via); or the
\* header is dropped on the way.
Ways == {"direct", "overwritten", "appended", "dropped"}
ASSUME ArrivalsAssumption ==
  Arrivals \subseteq [client : Address, sent : Seq(Hop), way : Ways,
                      via : Seq(Hop), proxy : Address]

VARIABLES
  system, \* what the gates look at: whether the instance is unsealed, the
          \* users signed in, everybody's role on the vault, the live tokens
  request \* the request followed, how far it is, and what became of it

vars == <<system, request>>

Roles == {"none", "viewer", "editor", "admin"}

\* Role's can_read, can_write and can_assign, with Access for the master.
CanRead(sys, who) == sys.role[who] # "none"
CanWrite(sys, who) == sys.role[who] \in {"editor", "admin"}
CanAssign(sys, who) == who = Master \/ sys.role[who] = "admin"

-----------------------------------------------------------------------------
(* Routes: the GUI                                                          *)

Page(gates, effect) ==
  [gates |-> <<"session">> \o gates, effect |-> effect, row |-> "never"]
Action(gates, effect) ==
  [gates |-> <<"session">> \o gates, effect |-> effect, row |-> "after"]

\* The dashboard asks for the seal before it asks who is there.
GuiRoot == [gates |-> <<"unsealed", "session">>, effect |-> "own",
            row |-> "never"]

UsersList == Page(<<"master">>, "manage")
UsersCreate == Page(<<"master">>, "manage")
UserDisable == Action(<<"master">>, "disable")
UserEnable == Action(<<"master">>, "enable")
PasswordForm == Page(<<>>, "own")
PasswordChange == Action(<<>>, "password")
AuditView == Page(<<"master", "unsealed">>, "found")
AuditRetentionSet == Page(<<"master">>, "manage")
AuditPruneNow == Page(<<"master">>, "manage")

\* Audit before sealing: afterwards the key that signs rows is gone.
SealInstance == [gates |-> <<"session", "master">>, effect |-> "seal",
                 row |-> "before"]

VaultNewForm == Page(<<"unsealed", "master">>, "found")
VaultCreate == Page(<<"unsealed", "master", "unsealed">>, "found")

\* For who may view but not read, that is the master, the page lists no paths.
VaultDetail == Page(<<"unsealed", "read">>, "names")
VaultSettings == Page(<<"unsealed", "assign">>, "members")
VaultAssign == Action(<<"unsealed", "assign", "unsealed">>, "grant")
VaultRevoke == Action(<<"unsealed", "assign", "unsealed">>, "revoke")
VaultRotate == Action(<<"unsealed", "assign", "unsealed">>, "rotate")

SecretNewForm == Page(<<"unsealed", "write">>, "form")
WriteUngated == Action(<<"unsealed", "read", "wrap">>, "change") \* mutant
SecretWrite == Action(<<"unsealed", "write", "wrap">>, "change")
SecretView == Action(<<"unsealed", "read", "wrap">>, "value")
SecretDelete == Action(<<"unsealed", "write">>, "change")

TokensList == Page(<<"unsealed", "write">>, "form")
TokensCreate == Page(<<"unsealed", "write", "unsealed", "wrap">>, "mint")
TokensRevoke == Page(<<"unsealed", "write">>, "endToken")
ApprolesList == Page(<<"unsealed", "write">>, "form")
ApprolesCreate == Page(<<"unsealed", "write">>, "mint")
ApproleSecretId == Page(<<"unsealed", "write">>, "mint")
ApproleDelete == Page(<<"unsealed", "write">>, "mint")

\* The password is checked in SignIn; whoever fails is answered like any other
\* request that is refused.
LoginSubmit == [gates |-> <<>>, effect |-> "openSession", row |-> "before"]
Logout == [gates |-> <<>>, effect |-> "closeSession", row |-> "never"]

GuiRoutes ==
  {GuiRoot, UsersList, UsersCreate, UserDisable, UserEnable, PasswordForm,
   PasswordChange, AuditView, AuditRetentionSet, AuditPruneNow, SealInstance,
   VaultNewForm, VaultCreate, VaultDetail, VaultSettings, VaultAssign,
   VaultRevoke, VaultRotate, SecretNewForm, SecretWrite, SecretView,
   SecretDelete, TokensList, TokensCreate, TokensRevoke, ApprolesList,
   ApprolesCreate, ApproleSecretId, ApproleDelete, LoginSubmit, Logout}

-----------------------------------------------------------------------------
(* Routes: the API                                                          *)

\* begin: the master key is copied, for the whole request; then the token and
\* its rules.
ApiGates == <<"unsealed", "token", "rules">>
ApiRoute(gates, effect) ==
  [gates |-> ApiGates \o gates, effect |-> effect, row |-> "after"]

Read == ApiRoute(<<>>, "value")
WriteUnchecked == ApiRoute(<<>>, "change") \* mutant
Write == ApiRoute(<<"writable">>, "change")
Delete == ApiRoute(<<"writable">>, "change")
MetadataList == ApiRoute(<<>>, "names")

ApiRoutes == {Read, Write, Delete, MetadataList}

-----------------------------------------------------------------------------
(* The request followed                                                     *)

NoRoute == [gates |-> <<>>, effect |-> "nothing", row |-> "never"]

\* Its route, its user or token, its next gate or what follows the gates;
\* whether its path and address passed the token's rules; what it asked for
\* and was shown (LIST).  History: what its effect demands and has not been the
\* case since it began; what became of it; its row; whether the instance was
\* sealed, or the INSERT failed, before it was answered.
Idle == [route |-> NoRoute, who |-> Master, step |-> "idle", gate |-> 1,
         admitted |-> FALSE, asked |-> Root, shown |-> {},
         missing |-> {}, outcome |-> "none", row |-> "none",
         sealed |-> FALSE, lost |-> FALSE]

At(step) == request.step = step
Api == request.who \in Tokens
Effect == request.route.effect
Ahead == request.route.row = "before"

\* The conditions a gate may ask for, and an effect demand; whether the rules
\* are met is no matter of the system.
Conditions == {"session", "master", "unsealed", "read", "wrap", "write",
               "assign", "token", "rules", "writable"}
Holds(sys, condition, who) ==
  \/ condition = "session" /\ who \in sys.signedIn
  \/ condition = "master" /\ who = Master
  \/ condition = "unsealed" /\ sys.unsealed
  \/ condition \in {"read", "wrap"} /\ CanRead(sys, who)
  \/ condition = "write" /\ CanWrite(sys, who)
  \/ condition = "assign" /\ CanAssign(sys, who)
  \/ condition = "token" /\ who \in sys.live
  \/ condition = "writable" /\ who \notin ReadOnly

\* What an effect demands of its request, by what it does and for whom.
Demands(effect, who) ==
  IF who \in Tokens
  THEN {"unsealed", "token", "rules"}
         \cup (IF effect = "change" THEN {"writable"} ELSE {})
  ELSE CASE effect \in {"openSession", "closeSession"} -> {}
         [] effect \in {"own", "password"} -> {"session"}
         [] effect \in {"manage", "disable", "enable", "seal"} -> {"session", "master"}
         [] effect = "found" -> {"session", "unsealed", "master"}
         [] effect \in {"names", "value"} -> {"session", "unsealed", "read"}
         [] effect \in {"change", "form", "mint", "endToken"} ->
              {"session", "unsealed", "write"}
         [] effect \in {"members", "grant", "revoke", "rotate"} ->
              {"session", "unsealed", "assign"}

\* The request becomes r, in a step to system'; its history is brought up to
\* date while it runs.
Become(r) ==
  request' = IF r.step \in {"idle", "answered"} THEN r
             ELSE [r EXCEPT !.missing = {d \in @ : ~Holds(system', d, r.who)},
                            !.sealed = @ \/ ~system'.unsealed]
Answer(outcome) ==
  Become([request EXCEPT !.step = "answered", !.outcome = outcome])

Init ==
  /\ system = [unsealed |-> FALSE, signedIn |-> {}, live |-> Tokens,
               role |-> [u \in Users |-> "none"]]
  /\ request = Idle

\* Where a request goes when its last gate let it pass.
AfterGates(route) == IF route.row = "before" THEN "record" ELSE "effect"
Start(route, who) ==
  [Idle EXCEPT !.route = route, !.who = who,
               !.step = IF route.gates = <<>> THEN AfterGates(route) ELSE "gate",
               !.missing = Demands(route.effect, who)]

GuiBegin(route, u) ==
  /\ At("idle")
  /\ UNCHANGED system
  /\ Become(Start(route, u))

\* What the instance sees of an arrival.
Peer(a) == IF a.way = "direct" THEN a.client ELSE a.proxy
Header(a) ==
  CASE a.way = "direct" -> a.sent
    [] a.way = "overwritten" -> <<a.client>> \o a.via
    [] a.way = "appended" -> a.sent \o <<a.client>> \o a.via
    [] a.way = "dropped" -> NoHeader

\* Path and address are inside the token's rules as the code decides it.
Admits(t, asked, arrival) ==
  /\ PathAllowed(Patterns({PatternText(q) : q \in PatternsOf[t]}), Text(asked))
  /\ IpAllowed(SubnetsOf[t], ClientIp(Peer(arrival), Header(arrival), Proxies))

\* The network shows the client's address: no proxy is between, or the peer is a
\* listed one, and nothing that the client wrote comes before the address.
\* docs/operations.md asks only for the proxy to be listed.
Promised(a) == \* mutant
  IF a.way = "direct" THEN a.client \notin Proxies ELSE a.proxy \in Proxies
Vouched(a) ==
  \/ a.way = "direct" /\ a.client \notin Proxies
  \/ a.way = "overwritten" /\ a.proxy \in Proxies
  \/ a.way = "appended" /\ a.proxy \in Proxies /\ a.sent = NoHeader

\* Path and address are inside the rules as they are meant, the address as far
\* as the network shows it.
Within(t, asked, arrival) ==
  /\ PatternsOf[t] = {} \/ \E q \in PatternsOf[t] : Stands(q, asked)
  /\ Vouched(arrival) =>
       SubnetsOf[t] = {} \/ \E s \in SubnetsOf[t] : InSubnet(s, arrival.client)

\* The empty path reaches metadata_list_root, and none of the others.
ApiBegin(route, t, asked, arrival) ==
  /\ At("idle")
  /\ asked = Root => route = MetadataList
  /\ UNCHANGED system
  /\ LET r == Start(route, t) IN
     Become([r EXCEPT
       !.admitted = Admits(t, asked, arrival),
       !.asked = IF route = MetadataList THEN asked ELSE Root,
       !.missing = IF Within(t, asked, arrival) THEN @ \ {"rules"} ELSE @])

-----------------------------------------------------------------------------
(* Gates                                                                    *)

Gate == request.route.gates[request.gate]
LastGate == request.gate = Len(request.route.gates)
Passes ==
  IF Gate = "rules" THEN request.admitted ELSE Holds(system, Gate, request.who)

GatePasses ==
  /\ At("gate")
  /\ Passes
  /\ UNCHANGED system
  /\ Become(IF LastGate
            THEN [request EXCEPT !.step = AfterGates(request.route), !.gate = 1]
            ELSE [request EXCEPT !.gate = @ + 1])

\* record_deny, and the 403s of write and delete: the API records what it
\* denies, and SQL errors of authenticate_token with it.
ApiDenies ==
  /\ At("gate")
  /\ Api /\ Gate # "unsealed"
  /\ ~Passes \/ Gate = "token"
  /\ UNCHANGED system
  /\ Become([request EXCEPT !.step = "record", !.gate = 1, !.outcome = "denied"])

\* The guards, access_denied, and a sealed API leave no row.
GateRefuses ==
  /\ At("gate")
  /\ ~Api \/ Gate = "unsealed"
  /\ ~Passes
  /\ UNCHANGED system
  /\ Answer("failed")

\* A bad form, an unknown vault or user, a wrong password, an SQL error.
Fail ==
  /\ At("effect") \/ (At("gate") /\ ~Api)
  /\ UNCHANGED system
  /\ Answer("failed")

-----------------------------------------------------------------------------
(* Effects                                                                  *)

SetSignedIn(users) == [system EXCEPT !.signedIn = users]
SetRole(u, role) == [system EXCEPT !.role[u] = role]

\* assign refuses to make the master a member.
AnybodyElse == Users \* mutant
Assignable == Users \ {Master}

\* What the system may be after the effect.
Outcomes ==
  CASE Effect = "disable" ->
         {SetSignedIn(system.signedIn \ {u}) : u \in Users \ {request.who}}
    [] Effect = "openSession" -> {SetSignedIn(system.signedIn \cup {request.who})}
    [] Effect = "closeSession" -> {SetSignedIn(system.signedIn \ {request.who})}
    [] Effect = "grant" ->
         {SetRole(u, role) : u \in Assignable, role \in Roles \ {"none"}}
    [] Effect = "revoke" -> {SetRole(u, "none") : u \in Users}
    [] Effect = "endToken" -> {[system EXCEPT !.live = @ \ {t}] : t \in Tokens}
    [] Effect = "seal" -> {[system EXCEPT !.unsealed = FALSE]}
    [] OTHER -> {system}

Take ==
  /\ At("effect")
  /\ system' \in Outcomes
  /\ Become([request EXCEPT
       !.step = IF request.route.row = "after" THEN "record" ELSE "answered",
       !.outcome = "done",
       !.shown = IF request.route = MetadataList
                 THEN Listed(Stored, request.asked) ELSE {}])

\* The path has no live version: 404.
FindNothing ==
  /\ At("effect")
  /\ Effect = "value"
  /\ UNCHANGED system
  /\ Become([request EXCEPT !.step = "record", !.outcome = "missing"])

-----------------------------------------------------------------------------
(* Rows                                                                     *)

\* The API signs with the key it copied at the beginning, the GUI with the
\* one in memory, if there is one.
KeyInMemory == system.unsealed \* mutant
CanSign == Api \/ system.unsealed

\* The code that the row states.
Success == "ok" \* mutant
Code == IF request.outcome \in {"denied", "missing"} THEN request.outcome ELSE "ok"

Recorded(row, lost) ==
  /\ At("record")
  /\ UNCHANGED system
  /\ Become([request EXCEPT !.step = IF Ahead THEN "effect" ELSE "answered",
                            !.row = row, !.lost = lost])

\* audit_gui, record_deny, audit_ok.
Record == Recorded(IF CanSign THEN Code ELSE "none", FALSE)

\* Best effort: an INSERT that fails is a warning in the server's own log.
RecordFails == CanSign /\ Recorded("none", TRUE)

\* The answer is out, or the client hung up before.
End ==
  /\ ~At("idle")
  /\ UNCHANGED system
  /\ Become(Idle)

-----------------------------------------------------------------------------
(* What happens around the request                                          *)

\* Other requests, sessions and tokens that run out, and the share holders
\* change the system one thing at a time.
Changes ==
  {[system EXCEPT !.unsealed = unsealed] : unsealed \in BOOLEAN}
    \cup {SetSignedIn(system.signedIn \cup {u}) : u \in Users}
    \cup {SetSignedIn(system.signedIn \ {u}) : u \in Users}
    \cup {SetRole(u, role) : u \in Users \ {Master}, role \in Roles}
    \cup {[system EXCEPT !.live = @ \ {t}] : t \in Tokens}

Interference ==
  /\ system' \in Changes
  /\ Become(request)

\* The process stops and starts again, sealed and with nobody signed in.
Restart ==
  /\ system' = [system EXCEPT !.unsealed = FALSE, !.signedIn = {}]
  /\ request' = Idle

-----------------------------------------------------------------------------
Begin ==
  \/ \E route \in GuiRoutes, u \in Users : GuiBegin(route, u)
  \/ \E route \in ApiRoutes, t \in Tokens, asked \in Asked, a \in Arrivals :
       ApiBegin(route, t, asked, a)

Next ==
  \/ Begin
  \/ GatePasses \/ ApiDenies \/ GateRefuses \/ Fail
  \/ Take \/ FindNothing
  \/ Record \/ RecordFails
  \/ End
  \/ Interference \/ Restart

Spec == Init /\ [][Next]_vars

-----------------------------------------------------------------------------
\* Every variable has its type, the master has no role on the vault, a token's
\* request is one to the API, and only such a request passes rules or lists
\* paths.
TypeOK ==
  /\ system \in [unsealed : BOOLEAN, signedIn : SUBSET Users,
                 live : SUBSET Tokens, role : [Users -> Roles]]
  /\ system.role[Master] = "none"
  /\ request \in [route : GuiRoutes \cup ApiRoutes \cup {NoRoute},
                  who : Users \cup Tokens,
                  step : {"idle", "gate", "effect", "record", "answered"},
                  gate : Nat, admitted : BOOLEAN, asked : Path,
                  shown : SUBSET Stored, missing : SUBSET Conditions,
                  outcome : {"none", "done", "missing", "denied", "failed"},
                  row : {"none", "ok", "missing", "denied"},
                  sealed : BOOLEAN, lost : BOOLEAN]
  /\ request.route \in IF Api THEN ApiRoutes ELSE GuiRoutes \cup {NoRoute}
  /\ request.gate \in 1..(Len(request.route.gates) + 1)
  /\ request.admitted \/ request.shown # {} => Api

\* However sessions end, roles change, tokens run out and seals interleave with
\* a request, what it does or shows is something its user or token was entitled
\* to at some moment since it began: each condition that the effect demands,
\* with the token's rules as they are meant, was met (the guards of web/mod.rs
\* and begin in kv.rs).  The rule about addresses is claimed for requests whose
\* client's address the network shows (Vouched), and for no others: client_ip
\* believes the first hop that a listed proxy passes on, and behind a proxy that
\* appends to the header it is given, the client writes that hop; behind one
\* that drops the header, or is not listed, the proxy itself is judged.
EffectsEarned == request.outcome = "done" => request.missing = {}

\* The effects that leave a row: secrets read and written, and the management
\* of members, accounts and seal (not the creation of users, vaults, tokens
\* and AppRoles, nor retention, which no handler records).
Audited ==
  \/ Effect \in {"value", "change"}
  \/ Api /\ Effect = "names"
  \/ Effect \in {"disable", "enable", "password", "grant", "revoke", "rotate",
                 "seal", "openSession"}

\* An answered request that did something audited, or was denied by the API,
\* has its row, and the row says so, unless the INSERT failed or, in the GUI,
\* the instance was sealed while the request ran: the API writes its row even
\* after a seal (docs/operations.md: "every secret read and write (including
\* denials)"; audit_gui, audit_ok and record_deny).
UseIsRecorded ==
  At("answered") /\ ~request.lost /\ (Api \/ ~request.sealed) =>
    /\ request.outcome = "done" /\ Audited => request.row = "ok"
    /\ request.outcome \in {"missing", "denied"} => request.row = request.outcome

\* No row claims what did not happen, except that those of a seal and of a
\* login are written ahead of it.
RowsAreTrue ==
  \/ request.row = "none"
  \/ request.row = "ok" /\ request.outcome = "done"
  \/ request.row = "ok" /\ Effect \in {"seal", "openSession"}
  \/ request.row \in {"missing", "denied"} /\ request.row = request.outcome

\* LIST returns the stored paths that have the asked one as a prefix, segment
\* by segment, although the code compares text (metadata_list_inner in kv.rs).
ListsAreExact ==
  request.outcome = "done" /\ request.route = MetadataList =>
    request.shown = Below(Stored, request.asked)

\* Whatever a request does to the system, another request sees as Interference:
\* what holds of one request holds of every one of any number.
OthersAreInterference == [][Take => system' \in Changes]_vars
=================================================================================
