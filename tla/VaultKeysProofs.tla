--------------------------- MODULE VaultKeysProofs ---------------------------
(***************************************************************************)
(* Theorems about VaultKeys, for any number of users, tokens, secrets and  *)
(* requests in flight.                                                     *)
(***************************************************************************)
EXTENDS VaultKeys, TLAPS

\* The part of TypeOK that speaks of the requests in flight.
OpsOK == /\ op \in [Procs -> Request]
         /\ \A p \in Procs : op[p].key <= escrow /\ RequestOK(op[p])

\* Init establishes the type invariant.
LEMMA InitTypeOK == Init => TypeOK
BY MaxEpochAssumption
   DEF Init, TypeOK, Idle, Request, Step, Role, Holding, RequestOK, Written

\* A request that takes its first step carries a well-formed record.
LEMMA BeginOK ==
  ASSUME TypeOK, NEW p \in Procs, NEW step \in Step,
         NEW user \in Users \cup {NoUser}, NEW ro \in Role \cup {"none"},
         NEW key \in 0..escrow,
         RequestOK([step |-> step, user |-> user, role |-> ro, key |-> key]),
         Begin(p, step, user, ro, key), escrow' = escrow
  PROVE  OpsOK'
<1> DEFINE q == [step |-> step, user |-> user, role |-> ro, key |-> key]
<1>1. op' = [op EXCEPT ![p] = q]
  BY DEF Begin
<1>2. q \in Request /\ q.key <= escrow /\ RequestOK(q)
  BY MaxEpochAssumption DEF TypeOK, Request
<1> HIDE DEF q
<1> QED
  BY <1>1, <1>2 DEF TypeOK, OpsOK

\* So does one that now holds the key of its member.
LEMMA KeyHeldOK ==
  ASSUME TypeOK, NEW p \in Procs, NEW step \in {"write", "mint"},
         NEW key \in 1..escrow, escrow' = escrow,
         op' = [op EXCEPT ![p] = [step |-> step, user |-> NoUser,
                                  role |-> "none", key |-> key]]
  PROVE  OpsOK'
<1> DEFINE q == [step |-> step, user |-> NoUser, role |-> "none", key |-> key]
<1>1. q \in Request /\ q.key <= escrow /\ RequestOK(q)
  BY MaxEpochAssumption DEF TypeOK, Request, RequestOK, Step, Holding
<1> HIDE DEF q
<1>2. op' = [op EXCEPT ![p] = q]
  BY DEF q
<1> QED
  BY <1>1, <1>2 DEF TypeOK, OpsOK

\* A request that ends is idle again; the others keep what they hold.
LEMMA FinishOK ==
  ASSUME TypeOK, NEW p \in Procs, Finish(p), escrow' \in Nat, escrow' >= escrow
  PROVE  OpsOK'
<1>1. Idle \in Request /\ Idle.key = 0 /\ RequestOK(Idle)
  BY MaxEpochAssumption DEF Idle, Request, Step, RequestOK, Holding
<1>2. op' \in [Procs -> Request]
  BY <1>1 DEF TypeOK, Finish
<1>3. ASSUME NEW x \in Procs PROVE op'[x].key <= escrow' /\ RequestOK(op'[x])
  <2>1. CASE x = p
    BY <2>1, <1>1 DEF TypeOK, Finish
  <2>2. CASE x # p
    <3>1. op'[x] = op[x]
      BY <2>2 DEF TypeOK, Finish
    <3>2. op[x].key \in Nat /\ op[x].key <= escrow /\ RequestOK(op[x])
      BY DEF TypeOK, Request
    <3> QED BY <3>1, <3>2 DEF TypeOK
  <2> QED BY <2>1, <2>2
<1> QED BY <1>2, <1>3 DEF OpsOK

\* What a request at a given step carries, as the steps below use it.
LEMMA CarriedOK ==
  ASSUME TypeOK, NEW p \in Procs
  PROVE  /\ op[p].key \in 0..escrow
         /\ op[p].step \in Holding => op[p].key \in 1..escrow
         /\ op[p].step \in {"writer", "minter", "assign", "grant", "regrade",
                             "deleted"} => op[p].user \in Users
         /\ op[p].step \in {"assign", "grant", "regrade"} => op[p].role \in Role
         /\ op[p].user \in Users \cup {NoUser}
         /\ op[p].role \in Role \cup {"none"}
BY DEF TypeOK, RequestOK, Request

\* Every step preserves the type invariant.
LEMMA StepTypeOK == TypeOK /\ [Next]_vars => TypeOK'
<1> SUFFICES ASSUME TypeOK, [Next]_vars PROVE TypeOK'
  OBVIOUS
<1> USE DEF memberVars, tokenVars, rowVars
<1>0. escrow \in Nat /\ escrow >= 1 /\ escrow <= MaxEpoch
  BY MaxEpochAssumption DEF TypeOK
<1>1. ASSUME NEW p \in Procs, SecretStep(p) PROVE TypeOK'
  <2>1. ASSUME NEW u \in Users, WriteBegin(p, u) PROVE TypeOK'
    <3>1. OpsOK'
      BY <2>1, <1>0, BeginOK DEF WriteBegin, RequestOK, Step, Holding
    <3> QED BY <2>1, <3>1 DEF WriteBegin, OpsOK, TypeOK, Written
  <2>2. ASSUME NEW t \in Tokens, TokenWriteBegin(p, t) PROVE TypeOK'
    <3>1. tokKey[t] \in 1..escrow
      BY <2>2, <1>0 DEF TokenWriteBegin, LiveTokens, TypeOK
    <3>2. OpsOK'
      BY <2>2, <3>1, BeginOK DEF TokenWriteBegin, RequestOK, Step, Holding
    <3> QED BY <2>2, <3>2 DEF TokenWriteBegin, OpsOK, TypeOK, Written
  <2>3. ASSUME NEW t \in Tokens, ReadBegin(p, t) PROVE TypeOK'
    <3>1. tokKey[t] \in 1..escrow
      BY <2>3, <1>0 DEF ReadBegin, LiveTokens, TypeOK
    <3>2. OpsOK'
      BY <2>3, <3>1, BeginOK DEF ReadBegin, RequestOK, Step, Holding
    <3> QED BY <2>3, <3>2 DEF ReadBegin, OpsOK, TypeOK, Written
  <2>4. ASSUME NEW r \in Rows, WriteInsert(p, r) PROVE TypeOK'
    <3>1. OpsOK'
      BY <2>4, <1>0, FinishOK DEF WriteInsert
    <3>2. op[p].key \in 1..escrow
      BY <2>4, CarriedOK DEF WriteInsert, At, Holding
    <3>3. rowKey' \in [Rows -> 0..escrow] /\ wiped' \subseteq Written'
      BY <2>4, <3>2, <1>0 DEF WriteInsert, TypeOK, Written
    <3> QED BY <2>4, <3>1, <3>3 DEF WriteInsert, OpsOK, TypeOK
  <2>5. ASSUME NEW r \in Rows, ReadBurns(p, r) PROVE TypeOK'
    <3>1. OpsOK'
      BY <2>5, <1>0, FinishOK DEF ReadBurns
    <3> QED BY <2>5, <3>1 DEF ReadBurns, Readable, OpsOK, TypeOK, Written
  <2>6. ASSUME ReadKeeps(p) PROVE TypeOK'
    <3>1. OpsOK'
      BY <2>6, <1>0, FinishOK DEF ReadKeeps
    <3> QED BY <2>6, <3>1 DEF ReadKeeps, OpsOK, TypeOK, Written
  <2>7. ASSUME ResolveKey(p) PROVE TypeOK'
    <3>1. op[p].user \in Users
      BY <2>7, CarriedOK DEF ResolveKey, At
    <3>2. wrap[op[p].user] \in 1..escrow
      BY <2>7, <3>1, <1>0 DEF ResolveKey, TypeOK
    <3>3. Resolved(op[p].step) \in {"write", "mint"}
      BY DEF Resolved
    <3>4. OpsOK'
      BY <2>7, <3>2, <3>3, KeyHeldOK DEF ResolveKey
    <3> QED BY <2>7, <3>4 DEF ResolveKey, OpsOK, TypeOK, Written
  <2>8. ASSUME ResolveRefused(p) PROVE TypeOK'
    <3>1. OpsOK'
      BY <2>8, <1>0, FinishOK DEF ResolveRefused
    <3> QED BY <2>8, <3>1 DEF ResolveRefused, OpsOK, TypeOK, Written
  <2> QED
    BY <1>1, <2>1, <2>2, <2>3, <2>4, <2>5, <2>6, <2>7, <2>8 DEF SecretStep
<1>2. ASSUME NEW p \in Procs, TokenStep(p) PROVE TypeOK'
  <2>1. ASSUME NEW u \in Users, MintBegin(p, u) PROVE TypeOK'
    <3>1. OpsOK'
      BY <2>1, <1>0, BeginOK DEF MintBegin, RequestOK, Step, Holding
    <3> QED BY <2>1, <3>1 DEF MintBegin, OpsOK, TypeOK, Written
  <2>2. ASSUME MintBeginViaMaster(p) PROVE TypeOK'
    <3>1. OpsOK'
      BY <2>2, <1>0, BeginOK DEF MintBeginViaMaster, RequestOK, Step, Holding
    <3> QED BY <2>2, <3>1 DEF MintBeginViaMaster, OpsOK, TypeOK, Written
  <2>3. ASSUME NEW t \in Tokens, MintInsert(p, t) PROVE TypeOK'
    <3>1. OpsOK'
      BY <2>3, <1>0, FinishOK DEF MintInsert
    <3>2. op[p].key \in 1..escrow
      BY <2>3, CarriedOK DEF MintInsert, At, Holding
    <3> QED BY <2>3, <3>1, <3>2, <1>0 DEF MintInsert, OpsOK, TypeOK, Written
  <2> QED BY <1>2, <2>1, <2>2, <2>3 DEF TokenStep
<1>3. ASSUME NEW p \in Procs, MemberStep(p) PROVE TypeOK'
  <2>1. ASSUME NEW u \in Users, NEW ro \in GrantRoles, AssignBegin(p, u, ro)
        PROVE TypeOK'
    <3>1. OpsOK'
      BY <2>1, <1>0, BeginOK, GrantRolesAssumption
         DEF AssignBegin, RequestOK, Step, Holding
    <3> QED BY <2>1, <3>1 DEF AssignBegin, OpsOK, TypeOK, Written
  <2>2. ASSUME NEW u \in Users, NEW ro \in GrantRoles, RegradeBegin(p, u, ro)
        PROVE TypeOK'
    <3>1. OpsOK'
      BY <2>2, <1>0, BeginOK, GrantRolesAssumption
         DEF RegradeBegin, RequestOK, Step, Holding
    <3> QED BY <2>2, <3>1 DEF RegradeBegin, OpsOK, TypeOK, Written
  <2>3. ASSUME AssignInsert(p) PROVE TypeOK'
    <3>1. OpsOK'
      BY <2>3, <1>0, FinishOK DEF AssignInsert
    <3>2. /\ op[p].key \in 1..escrow /\ op[p].user \in Users
          /\ op[p].role \in Role
      BY <2>3, CarriedOK DEF AssignInsert, At, Holding
    <3>3. /\ role' \in [Users -> Role \cup {"none"}]
          /\ wrap' \in [Users -> 0..escrow]
          /\ \A u \in Users : role'[u] = "none" <=> wrap'[u] = 0
          /\ known' \in [Users -> SUBSET (1..escrow)]
          /\ lockedOut' \subseteq Users
      BY <2>3, <3>2, <1>0 DEF AssignInsert, TypeOK, Role
    <3> QED BY <2>3, <3>1, <3>3 DEF AssignInsert, OpsOK, TypeOK, Written
  <2>4. ASSUME AssignRefused(p) PROVE TypeOK'
    <3>1. OpsOK'
      BY <2>4, <1>0, FinishOK DEF AssignRefused
    <3> QED BY <2>4, <3>1 DEF AssignRefused, OpsOK, TypeOK, Written
  <2>5. ASSUME RegradeUpdate(p) PROVE TypeOK'
    <3>1. OpsOK'
      BY <2>5, <1>0, FinishOK DEF RegradeUpdate
    <3>2. op[p].user \in Users /\ op[p].role \in Role
      BY <2>5, CarriedOK DEF RegradeUpdate, At
    <3>3. /\ role' \in [Users -> Role \cup {"none"}]
          /\ \A u \in Users : role'[u] = "none" <=> role[u] = "none"
      BY <2>5, <3>2 DEF RegradeUpdate, TypeOK, Role
    <3> QED BY <2>5, <3>1, <3>3 DEF RegradeUpdate, OpsOK, TypeOK, Written
  <2>6. ASSUME NEW u \in Users, RevokeDelete(p, u) PROVE TypeOK'
    <3>1. OpsOK'
      BY <2>6, <1>0, BeginOK DEF RevokeDelete, RequestOK, Step, Holding
    <3>2. /\ role' \in [Users -> Role \cup {"none"}]
          /\ wrap' \in [Users -> 0..escrow]
          /\ \A v \in Users : role'[v] = "none" <=> wrap'[v] = 0
      BY <2>6, <1>0 DEF RevokeDelete, TypeOK
    <3> QED BY <2>6, <3>1, <3>2 DEF RevokeDelete, OpsOK, TypeOK, Written
  <2>7. ASSUME ResolveEscrow(p) PROVE TypeOK'
    <3>1. OpsOK'
      BY <2>7, <1>0, CarriedOK, MaxEpochAssumption
         DEF ResolveEscrow, At, OpsOK, TypeOK, Request, RequestOK, Step, Holding
    <3> QED BY <2>7, <3>1 DEF ResolveEscrow, OpsOK, TypeOK, Written
  <2> QED
    BY <1>3, <2>1, <2>2, <2>3, <2>4, <2>5, <2>6, <2>7 DEF MemberStep
<1>4. ASSUME NEW p \in Procs, RotateStep(p) PROVE TypeOK'
  <2>1. ASSUME RotateBegin(p) PROVE TypeOK'
    <3>1. OpsOK'
      BY <2>1, <1>0, BeginOK DEF RotateBegin, RequestOK, Step, Holding
    <3> QED BY <2>1, <3>1 DEF RotateBegin, OpsOK, TypeOK, Written
  <2>2. ASSUME RevokeRotate(p) PROVE TypeOK'
    <3>1. OpsOK'
      BY <2>2, <1>0, CarriedOK, MaxEpochAssumption
         DEF RevokeRotate, At, OpsOK, TypeOK, Request, RequestOK, Step, Holding
    <3> QED BY <2>2, <3>1 DEF RevokeRotate, OpsOK, TypeOK, Written
  <2>3. ASSUME RotateCommit(p) PROVE TypeOK'
    <3>1. escrow' = escrow + 1 /\ escrow' \in 1..MaxEpoch
      BY <2>3, <1>0, MaxEpochAssumption DEF RotateCommit, NextEpoch
    <3>2. OpsOK'
      BY <2>3, <3>1, <1>0, FinishOK DEF RotateCommit
    <3>3. /\ wrap' \in [Users -> 0..escrow']
          /\ \A u \in Users : role'[u] = "none" <=> wrap'[u] = 0
          /\ known' \in [Users -> SUBSET (1..escrow')]
      BY <2>3, <3>1, <1>0 DEF RotateCommit, RewrapMembers, TypeOK, Members
    <3>4. /\ tokKey' \in [Tokens -> 0..escrow']
          /\ revoked' \subseteq {t \in Tokens : tokKey'[t] # 0}
      BY <2>3, <3>1, <1>0 DEF RotateCommit, RewrapTokens, TypeOK, LiveTokens
    <3>5. rowKey' \in [Rows -> 0..escrow'] /\ wiped' \subseteq Written'
      BY <2>3, <3>1, <1>0 DEF RotateCommit, ReencryptRows, TypeOK, Written
    <3>6. lockedOut' \subseteq Users
      BY <2>3, CarriedOK DEF RotateCommit, TypeOK
    <3>7. role' \in [Users -> Role \cup {"none"}]
      BY <2>3 DEF RotateCommit, TypeOK
    <3> QED BY <3>1, <3>2, <3>3, <3>4, <3>5, <3>6, <3>7 DEF OpsOK, TypeOK
  <2>4. ASSUME RotateFail(p) PROVE TypeOK'
    <3>1. OpsOK'
      BY <2>4, <1>0, FinishOK DEF RotateFail
    <3> QED BY <2>4, <3>1 DEF RotateFail, OpsOK, TypeOK, Written
  <2> QED BY <1>4, <2>1, <2>2, <2>3, <2>4 DEF RotateStep
<1>5. ASSUME NEW t \in Tokens, RevokeToken(t) PROVE TypeOK'
  BY <1>5 DEF RevokeToken, LiveTokens, TypeOK, Written
<1>6. ASSUME NEW p \in Procs, Abort(p) PROVE TypeOK'
  <2>1. OpsOK'
    BY <1>6, <1>0, FinishOK DEF Abort
  <2> QED BY <1>6, <2>1 DEF Abort, OpsOK, TypeOK, Written
<1>7. CASE UNCHANGED vars
  BY <1>7 DEF vars, TypeOK, Written
<1> QED
  BY <1>1, <1>2, <1>3, <1>4, <1>5, <1>6, <1>7 DEF Next, Undisturbed

\* Every variable always has its type; no wrap, row or request ever holds a
\* key later than the escrow's (vault/mod.rs).
THEOREM TypeCorrect == Spec => []TypeOK
BY InitTypeOK, StepTypeOK, PTL DEF Spec

-----------------------------------------------------------------------------
\* One step never leaves an up-to-date wrap or row behind.
LEMMA StepStaysCurrent ==
  ASSUME TypeOK, [Next]_vars
  PROVE  /\ \A u \in Users : role[u] # "none" /\ role'[u] # "none"
                             /\ wrap[u] = escrow => wrap'[u] = escrow'
         /\ \A t \in Tokens : tokKey[t] = escrow /\ t \notin revoked
                              => tokKey'[t] = escrow'
         /\ \A r \in Rows : rowKey[r] = escrow /\ r \notin wiped
                            => rowKey'[r] = escrow'
<1> DEFINE Goal == /\ \A u \in Users : role[u] # "none" /\ role'[u] # "none"
                                 /\ wrap[u] = escrow => wrap'[u] = escrow'
                   /\ \A t \in Tokens : tokKey[t] = escrow /\ t \notin revoked
                                        => tokKey'[t] = escrow'
                   /\ \A r \in Rows : rowKey[r] = escrow /\ r \notin wiped
                                      => rowKey'[r] = escrow'
<1> USE DEF memberVars, tokenVars, rowVars
<1>0. escrow \in Nat /\ escrow >= 1
  BY MaxEpochAssumption DEF TypeOK
<1>1. ASSUME NEW p \in Procs, SecretStep(p) PROVE Goal
  BY <1>0, <1>1 DEF SecretStep, ResolveKey, ResolveRefused, WriteBegin,
                    TokenWriteBegin, ReadBegin, WriteInsert, ReadBurns,
                    ReadKeeps, TypeOK
<1>2. ASSUME NEW p \in Procs, TokenStep(p) PROVE Goal
  BY <1>0, <1>2 DEF TokenStep, MintBegin, MintBeginViaMaster, MintInsert, TypeOK
<1>3. ASSUME NEW p \in Procs, MemberStep(p) PROVE Goal
  <2>1. ASSUME AssignInsert(p) PROVE Goal
    BY <2>1 DEF AssignInsert, TypeOK
  <2>2. ASSUME RegradeUpdate(p) PROVE Goal
    BY <2>2 DEF RegradeUpdate, TypeOK
  <2>3. ASSUME NEW u \in Users, RevokeDelete(p, u) PROVE Goal
    BY <2>3 DEF RevokeDelete, TypeOK
  <2> QED
    BY <1>3, <2>1, <2>2, <2>3
       DEF MemberStep, AssignBegin, ResolveEscrow, RegradeBegin, AssignRefused
<1>4. ASSUME NEW p \in Procs, RotateStep(p) PROVE Goal
  <2>1. ASSUME RotateCommit(p) PROVE Goal
    BY <2>1, <1>0
       DEF RotateCommit, NextEpoch, ReencryptRows, RewrapMembers,
           RewrapTokens, Members, LiveTokens, Written, TypeOK
  <2> QED
    BY <1>4, <2>1 DEF RotateStep, RotateBegin, RevokeRotate, RotateFail
<1>5. ASSUME NEW t \in Tokens, RevokeToken(t) PROVE Goal
  BY <1>5 DEF RevokeToken
<1>6. ASSUME NEW p \in Procs, Abort(p) PROVE Goal
  BY <1>6 DEF Abort
<1>7. CASE UNCHANGED vars
  BY <1>7 DEF vars
<1> QED
  BY <1>1, <1>2, <1>3, <1>4, <1>5, <1>6, <1>7 DEF Next, Undisturbed

\* A member, live token or secret that is under the current key stays under
\* the current key through every rotation and every race of requests
\* (vault/mod.rs, rotate_vault and assign).
THEOREM CurrentFollowsRotation == Spec => CurrentStaysCurrent
<1>1. TypeOK /\ [Next]_vars =>
        [/\ \A u \in Users : role[u] # "none" /\ role'[u] # "none"
                             /\ wrap[u] = escrow => wrap'[u] = escrow'
         /\ \A t \in Tokens : tokKey[t] = escrow /\ t \notin revoked
                              => tokKey'[t] = escrow'
         /\ \A r \in Rows : rowKey[r] = escrow /\ r \notin wiped
                            => rowKey'[r] = escrow']_vars
  BY StepStaysCurrent
<1> QED
  BY <1>1, TypeCorrect, PTL DEF Spec, CurrentStaysCurrent

-----------------------------------------------------------------------------
\* A step keeps a successfully revoked user away from the vault's key.
LEMMA StepLockedOut ==
  TypeOK /\ LockedOutKeyless /\ [Next]_vars => LockedOutKeyless'
<1> SUFFICES ASSUME TypeOK, LockedOutKeyless, [Next]_vars,
                    NEW u \in lockedOut'
             PROVE  role'[u] = "none" /\ escrow' \notin known'[u]
  BY DEF LockedOutKeyless
<1> DEFINE Goal == role'[u] = "none" /\ escrow' \notin known'[u]
<1> USE DEF memberVars
<1>0. u \in lockedOut => role[u] = "none" /\ escrow \notin known[u]
  BY DEF LockedOutKeyless
<1>1. ASSUME NEW p \in Procs, SecretStep(p) PROVE Goal
  BY <1>0, <1>1 DEF SecretStep, ResolveKey, ResolveRefused, WriteBegin,
                    TokenWriteBegin, ReadBegin, WriteInsert, ReadBurns,
                    ReadKeeps
<1>2. ASSUME NEW p \in Procs, TokenStep(p) PROVE Goal
  BY <1>0, <1>2 DEF TokenStep, MintBegin, MintBeginViaMaster, MintInsert
<1>3. ASSUME NEW p \in Procs, MemberStep(p) PROVE Goal
  <2>1. ASSUME AssignInsert(p) PROVE Goal
    BY <2>1, <1>0 DEF AssignInsert, TypeOK
  <2>2. ASSUME RegradeUpdate(p) PROVE Goal
    BY <2>2, <1>0 DEF RegradeUpdate, TypeOK
  <2>3. ASSUME NEW v \in Users, RevokeDelete(p, v) PROVE Goal
    BY <2>3, <1>0 DEF RevokeDelete, TypeOK
  <2> QED
    BY <1>0, <1>3, <2>1, <2>2, <2>3
       DEF MemberStep, AssignBegin, ResolveEscrow, RegradeBegin, AssignRefused
<1>4. ASSUME NEW p \in Procs, RotateStep(p) PROVE Goal
  <2>1. ASSUME RotateCommit(p) PROVE Goal
    <3>1. u \in Users /\ u \notin Members
      BY <2>1, <1>0, CarriedOK DEF RotateCommit, TypeOK, Members
    <3>2. known'[u] = known[u] /\ escrow' = escrow + 1 /\ role' = role
      BY <2>1, <3>1 DEF RotateCommit, NextEpoch
    <3>3. known[u] \subseteq 1..escrow /\ escrow \in Nat
      BY <3>1, MaxEpochAssumption DEF TypeOK
    <3> QED BY <3>1, <3>2, <3>3 DEF Members
  <2> QED
    BY <1>0, <1>4, <2>1 DEF RotateStep, RotateBegin, RevokeRotate, RotateFail
<1>5. ASSUME NEW t \in Tokens, RevokeToken(t) PROVE Goal
  BY <1>0, <1>5 DEF RevokeToken
<1>6. ASSUME NEW p \in Procs, Abort(p) PROVE Goal
  BY <1>0, <1>6 DEF Abort
<1>7. CASE UNCHANGED vars
  BY <1>0, <1>7 DEF vars
<1> QED
  BY <1>1, <1>2, <1>3, <1>4, <1>5, <1>6, <1>7 DEF Next, Undisturbed

\* A user whose revocation succeeded is no member and has never held the key
\* in use, until granted access again (vault/mod.rs, revoke).
THEOREM RevokedStayLockedOut == Spec => []LockedOutKeyless
<1>1. Init => LockedOutKeyless
  BY DEF Init, LockedOutKeyless
<1> QED
  BY <1>1, StepLockedOut, TypeCorrect, PTL DEF Spec

-----------------------------------------------------------------------------
\* Only a committed rotation changes the escrow, and it needs every row of
\* the vault to open; a burned one never does (vault/mod.rs, decrypt_blob).
THEOREM BurnBlocksRotation == Spec => BurnPinsKey
<1>1. [Next]_vars => [wiped # {} => escrow' = escrow]_vars
  BY DEF Next, Undisturbed, SecretStep, TokenStep, MemberStep, RotateStep,
         ResolveKey, ResolveRefused, WriteBegin, TokenWriteBegin, ReadBegin,
         WriteInsert, ReadBurns, ReadKeeps, MintBegin, MintBeginViaMaster,
         MintInsert, AssignBegin, ResolveEscrow, AssignInsert, AssignRefused,
         RegradeBegin, RegradeUpdate, RevokeDelete, RotateBegin, RevokeRotate,
         RotateCommit, RotateFail, RowsOpenUnder, RevokeToken, Abort
<1> QED
  BY <1>1, PTL DEF Spec, BurnPinsKey

-----------------------------------------------------------------------------
\* While no request holds an old key, every step keeps every wrap and row
\* current, and only a rotation can turn the key of another request old.
LEMMA StepAllCurrent ==
  ASSUME TypeOK, AllCurrent, HeldCurrent, [Next]_vars
  PROVE  AllCurrent' /\ (HeldCurrent' \/ \E p \in Procs : RotateCommit(p))
<1> USE DEF memberVars, tokenVars, rowVars
<1> DEFINE Goal == AllCurrent' /\ (HeldCurrent' \/ \E p \in Procs : RotateCommit(p))
<1>0. escrow \in Nat /\ escrow >= 1
  BY MaxEpochAssumption DEF TypeOK
<1>a. ASSUME NEW p \in Procs, Finish(p), escrow' = escrow PROVE HeldCurrent'
  BY <1>a DEF Finish, HeldCurrent, Idle, Holding, TypeOK
<1>b. ASSUME NEW p \in Procs, NEW s, NEW u, NEW ro, NEW k,
             Begin(p, s, u, ro, k), s \in Holding => k = escrow,
             escrow' = escrow
      PROVE  HeldCurrent'
  BY <1>b DEF Begin, HeldCurrent, TypeOK
<1>1. ASSUME NEW p \in Procs, SecretStep(p) PROVE Goal
  <2>1. ASSUME NEW u \in Users, WriteBegin(p, u) PROVE Goal
    <3>1. HeldCurrent'
      BY <2>1, <1>b DEF WriteBegin, Holding
    <3> QED BY <2>1, <3>1 DEF WriteBegin, AllCurrent, Members, LiveTokens,
                              Readable, Written
  <2>2. ASSUME NEW t \in Tokens, TokenWriteBegin(p, t) \/ ReadBegin(p, t)
        PROVE Goal
    <3>1. tokKey[t] = escrow
      BY <2>2 DEF TokenWriteBegin, ReadBegin, AllCurrent
    <3>2. HeldCurrent'
      BY <2>2, <3>1, <1>b DEF TokenWriteBegin, ReadBegin
    <3> QED BY <2>2, <3>2 DEF TokenWriteBegin, ReadBegin, AllCurrent, Members,
                              LiveTokens, Readable, Written
  <2>3. ASSUME NEW r \in Rows, WriteInsert(p, r) PROVE Goal
    <3>1. op[p].key = escrow
      BY <2>3 DEF WriteInsert, At, HeldCurrent, Holding
    <3>2. HeldCurrent'
      BY <2>3, <1>a DEF WriteInsert
    <3> QED BY <2>3, <3>1, <3>2 DEF WriteInsert, AllCurrent, Members,
                                LiveTokens, Readable, Written, TypeOK
  <2>4. ASSUME NEW r \in Rows, ReadBurns(p, r) PROVE Goal
    BY <2>4, <1>a DEF ReadBurns, AllCurrent, Members, LiveTokens, Readable,
                      Written
  <2>5. ASSUME ReadKeeps(p) PROVE Goal
    BY <2>5, <1>a DEF ReadKeeps, AllCurrent, Members, LiveTokens, Readable,
                      Written
  <2>6. ASSUME ResolveKey(p) PROVE Goal
    <3>1. wrap[op[p].user] = escrow
      BY <2>6, CarriedOK DEF ResolveKey, At, AllCurrent, Members
    <3>2. HeldCurrent'
      BY <2>6, <3>1 DEF ResolveKey, HeldCurrent, TypeOK
    <3> QED BY <2>6, <3>2 DEF ResolveKey, AllCurrent, Members, LiveTokens,
                              Readable, Written
  <2>7. ASSUME ResolveRefused(p) PROVE Goal
    BY <2>7, <1>a DEF ResolveRefused, AllCurrent, Members, LiveTokens,
                      Readable, Written
  <2> QED
    BY <1>1, <2>1, <2>2, <2>3, <2>4, <2>5, <2>6, <2>7 DEF SecretStep
<1>2. ASSUME NEW p \in Procs, TokenStep(p) PROVE Goal
  <2>1. ASSUME NEW u \in Users, MintBegin(p, u) PROVE Goal
    <3>1. HeldCurrent'
      BY <2>1, <1>b DEF MintBegin, Holding
    <3> QED BY <2>1, <3>1 DEF MintBegin, AllCurrent, Members, LiveTokens,
                              Readable, Written
  <2>2. ASSUME MintBeginViaMaster(p) PROVE Goal
    <3>1. HeldCurrent'
      BY <2>2, <1>b DEF MintBeginViaMaster
    <3> QED BY <2>2, <3>1 DEF MintBeginViaMaster, AllCurrent, Members,
                              LiveTokens, Readable, Written
  <2>3. ASSUME NEW t \in Tokens, MintInsert(p, t) PROVE Goal
    <3>1. op[p].key = escrow
      BY <2>3 DEF MintInsert, At, HeldCurrent, Holding
    <3>2. HeldCurrent'
      BY <2>3, <1>a DEF MintInsert
    <3> QED BY <2>3, <3>1, <3>2 DEF MintInsert, AllCurrent, Members,
                                LiveTokens, Readable, Written, TypeOK
  <2> QED BY <1>2, <2>1, <2>2, <2>3 DEF TokenStep
<1>3. ASSUME NEW p \in Procs, MemberStep(p) PROVE Goal
  <2>1. ASSUME NEW u \in Users, NEW ro \in GrantRoles,
               AssignBegin(p, u, ro) \/ RegradeBegin(p, u, ro)
        PROVE Goal
    <3>1. HeldCurrent'
      BY <2>1, <1>b DEF AssignBegin, RegradeBegin, Holding
    <3> QED BY <2>1, <3>1 DEF AssignBegin, RegradeBegin, AllCurrent, Members,
                              LiveTokens, Readable, Written
  <2>2. ASSUME AssignInsert(p) PROVE Goal
    <3>1. op[p].key = escrow
      BY <2>2 DEF AssignInsert, At, HeldCurrent, Holding
    <3>2. HeldCurrent'
      BY <2>2, <1>a DEF AssignInsert
    <3> QED BY <2>2, <3>1, <3>2 DEF AssignInsert, AllCurrent, Members,
                                LiveTokens, Readable, Written, TypeOK
  <2>3. ASSUME AssignRefused(p) PROVE Goal
    BY <2>3, <1>a DEF AssignRefused, AllCurrent, Members, LiveTokens,
                      Readable, Written
  <2>4. ASSUME RegradeUpdate(p) PROVE Goal
    BY <2>4, <1>a DEF RegradeUpdate, AllCurrent, Members, LiveTokens,
                      Readable, Written, TypeOK
  <2>5. ASSUME NEW u \in Users, RevokeDelete(p, u) PROVE Goal
    <3>1. HeldCurrent'
      BY <2>5, <1>b DEF RevokeDelete, Holding
    <3> QED BY <2>5, <3>1 DEF RevokeDelete, AllCurrent, Members, LiveTokens,
                              Readable, Written, TypeOK
  <2>6. ASSUME ResolveEscrow(p) PROVE Goal
    <3>1. HeldCurrent'
      BY <2>6 DEF ResolveEscrow, HeldCurrent, TypeOK, Request
    <3> QED BY <2>6, <3>1 DEF ResolveEscrow, AllCurrent, Members, LiveTokens,
                              Readable, Written
  <2> QED BY <1>3, <2>1, <2>2, <2>3, <2>4, <2>5, <2>6 DEF MemberStep
<1>4. ASSUME NEW p \in Procs, RotateStep(p) PROVE Goal
  <2>1. ASSUME RotateBegin(p) PROVE Goal
    <3>1. HeldCurrent'
      BY <2>1, <1>b DEF RotateBegin
    <3> QED BY <2>1, <3>1 DEF RotateBegin, AllCurrent, Members, LiveTokens,
                              Readable, Written
  <2>2. ASSUME RevokeRotate(p) PROVE Goal
    <3>1. HeldCurrent'
      BY <2>2 DEF RevokeRotate, HeldCurrent, TypeOK, Request
    <3> QED BY <2>2, <3>1 DEF RevokeRotate, AllCurrent, Members, LiveTokens,
                              Readable, Written
  <2>3. ASSUME RotateCommit(p) PROVE Goal
    <3> QED BY <2>3, <1>0
       DEF RotateCommit, NextEpoch, ReencryptRows, RewrapMembers,
           RewrapTokens, AllCurrent, Members, LiveTokens, Readable, Written,
           TypeOK
  <2>4. ASSUME RotateFail(p) PROVE Goal
    BY <2>4, <1>a DEF RotateFail, AllCurrent, Members, LiveTokens, Readable,
                      Written
  <2> QED BY <1>4, <2>1, <2>2, <2>3, <2>4 DEF RotateStep
<1>5. ASSUME NEW t \in Tokens, RevokeToken(t) PROVE Goal
  BY <1>5 DEF RevokeToken, AllCurrent, HeldCurrent, Members, LiveTokens,
              Readable, Written
<1>6. ASSUME NEW p \in Procs, Abort(p) PROVE Goal
  BY <1>6, <1>a DEF Abort, AllCurrent, Members, LiveTokens, Readable, Written
<1>7. CASE UNCHANGED vars
  BY <1>7 DEF vars, AllCurrent, HeldCurrent, Members, LiveTokens, Readable,
              Written
<1> QED
  BY <1>1, <1>2, <1>3, <1>4, <1>5, <1>6, <1>7 DEF Next, Undisturbed

\* Whatever runs concurrently, members, live tokens and readable secrets part
\* ways only over a key that a request held across a rotation.
THEOREM DisagreementIsStale == Spec => OnlyStaleDisagree
<1>1. TypeOK /\ [Next]_vars => [AllCurrent /\ HeldCurrent => AllCurrent']_vars
  BY StepAllCurrent
<1> QED
  BY <1>1, TypeCorrect, PTL DEF Spec, OnlyStaleDisagree

\* One request at a time is never overtaken by a rotation.
LEMMA SerialKeys ==
  ASSUME \A p, q \in Procs : p = q
  PROVE  Spec => [](AllCurrent /\ HeldCurrent)
<1>1. Init => AllCurrent /\ HeldCurrent
  BY DEF Init, AllCurrent, HeldCurrent, Members, LiveTokens, Readable,
         Written, Idle, Holding
<1>2. TypeOK /\ AllCurrent /\ HeldCurrent /\ [Next]_vars
      => AllCurrent' /\ HeldCurrent'
  <2> SUFFICES ASSUME TypeOK, AllCurrent, HeldCurrent, [Next]_vars
               PROVE  AllCurrent' /\ HeldCurrent'
    OBVIOUS
  <2>1. ASSUME NEW p \in Procs, RotateCommit(p) PROVE HeldCurrent'
    BY <2>1 DEF RotateCommit, Finish, HeldCurrent, Idle, Holding, TypeOK
  <2> QED
    BY <2>1, StepAllCurrent
<1> QED
  BY <1>1, <1>2, TypeCorrect, PTL DEF Spec

\* If the server handled one request at a time, every member, every live token
\* and every readable secret would always be under the vault's current key,
\* also when requests die between two statements (vault/mod.rs, tokens.rs).
THEOREM SerialAgreement ==
  ASSUME \A p, q \in Procs : p = q
  PROVE  Spec => []AllCurrent
BY SerialKeys, PTL

\* So handled, nobody whose revocation succeeded could open a secret written or
\* re-encrypted later: what breaks the promise of docs/security.md is a write
\* under a key read before the revocation.
THEOREM SerialLockout ==
  ASSUME \A p, q \in Procs : p = q
  PROVE  Spec => []RemovedCannotDecrypt
<1>1. AllCurrent /\ LockedOutKeyless => RemovedCannotDecrypt
  BY DEF AllCurrent, LockedOutKeyless, RemovedCannotDecrypt
<1> QED
  BY <1>1, SerialAgreement, RevokedStayLockedOut, PTL

-----------------------------------------------------------------------------
(* Revocation, one request at a time                                        *)

\* Who is no member and knows the key is being revoked, as long as nothing was
\* burned.
BeingRevoked(u) ==
  \E p \in Procs : op[p].step \in {"deleted", "rotate"} /\ op[p].user = u
KnowersGo ==
  wiped = {} => \A u \in Users \ Members : escrow \in known[u] => BeingRevoked(u)

\* When no request is at work, KnowersGo says that there is nobody of the kind.
LEMMA IdleKnowers ==
  ASSUME TypeOK, KnowersGo, wiped = {}, \A q \in Procs : op[q] = Idle
  PROVE  \A u \in Users \ Members : escrow \notin known[u]
BY DEF KnowersGo, BeingRevoked, Idle

\* Steps that touch neither keys nor membership, and no revocation under way.
LEMMA KnowersStay ==
  ASSUME TypeOK, KnowersGo, UNCHANGED <<escrow, memberVars>>, wiped \subseteq wiped',
         \A u \in Users : BeingRevoked(u) => BeingRevoked(u)'
  PROVE  KnowersGo'
BY DEF KnowersGo, Members, memberVars

\* A request at a step outside of revocation, alone, moves on.
LEMMA OthersMove ==
  ASSUME TypeOK, KnowersGo, \A q, r \in Procs : q = r,
         NEW p \in Procs, op[p].step \notin {"deleted", "rotate"},
         UNCHANGED <<escrow, memberVars>>, wiped \subseteq wiped'
  PROVE  KnowersGo'
<1>1. \A u \in Users : ~BeingRevoked(u)
  BY DEF BeingRevoked
<1> QED
  BY <1>1, KnowersStay

\* Nobody keeps the key but who is being revoked: a rotation that could fail
\* would need a row that does not open.
LEMMA StepKnowers ==
  ASSUME \A q, r \in Procs : q = r,
         TypeOK, AllCurrent, HeldCurrent, KnowersGo, [Undisturbed]_vars
  PROVE  KnowersGo'
<1>idle. ASSUME NEW p \in Procs, op[p] = Idle
         PROVE  op[p].step \notin {"deleted", "rotate"}
  BY <1>idle DEF Idle
<1>1. ASSUME NEW p \in Procs, SecretStep(p) PROVE KnowersGo'
  <2>1. op[p].step \notin {"deleted", "rotate"}
    BY <1>1, <1>idle DEF SecretStep, WriteBegin, TokenWriteBegin, ReadBegin, Begin,
       ResolveKey, ResolveRefused, WriteInsert, ReadBurns, ReadKeeps, At
  <2>2. UNCHANGED <<escrow, memberVars>> /\ wiped \subseteq wiped'
    BY <1>1 DEF SecretStep, WriteBegin, TokenWriteBegin, ReadBegin, ResolveKey,
       ResolveRefused, WriteInsert, ReadBurns, ReadKeeps, rowVars
  <2> QED
    BY <2>1, <2>2, OthersMove
<1>2. ASSUME NEW p \in Procs, TokenStep(p) PROVE KnowersGo'
  <2>1. op[p].step \notin {"deleted", "rotate"}
    BY <1>2, <1>idle DEF TokenStep, MintBegin, MintBeginViaMaster, MintInsert,
       Begin, At
  <2>2. UNCHANGED <<escrow, memberVars>> /\ wiped \subseteq wiped'
    BY <1>2 DEF TokenStep, MintBegin, MintBeginViaMaster, MintInsert, rowVars
  <2> QED
    BY <2>1, <2>2, OthersMove
<1>3. ASSUME NEW p \in Procs, MemberStep(p) PROVE KnowersGo'
  <2>1. ASSUME NEW u \in Users, NEW ro \in GrantRoles,
               AssignBegin(p, u, ro) \/ RegradeBegin(p, u, ro)
        PROVE KnowersGo'
    BY <2>1, <1>idle, OthersMove DEF AssignBegin, RegradeBegin, Begin, rowVars
  <2>2. CASE ResolveEscrow(p) \/ AssignRefused(p)
    BY <2>2, OthersMove DEF ResolveEscrow, AssignRefused, At, rowVars
  <2>3. CASE AssignInsert(p)
    <3>1. \A u \in Users : ~BeingRevoked(u)
      BY <2>3 DEF AssignInsert, At, BeingRevoked
    <3>2. \A u \in Users \ {op[p].user} :
            known'[u] = known[u] /\ role'[u] = role[u]
      BY <2>3 DEF AssignInsert, TypeOK
    <3>3. role'[op[p].user] # "none"
      BY <2>3, CarriedOK DEF AssignInsert, At, TypeOK, Role
    <3> QED
      BY <2>3, <3>1, <3>2, <3>3 DEF AssignInsert, KnowersGo, Members, rowVars
  <2>4. CASE RegradeUpdate(p)
    <3>1. \A u \in Users : ~BeingRevoked(u)
      BY <2>4 DEF RegradeUpdate, At, BeingRevoked
    <3>2. Members' = Members
      BY <2>4, CarriedOK DEF RegradeUpdate, At, TypeOK, Members, Role
    <3> QED
      BY <2>4, <3>1, <3>2 DEF RegradeUpdate, KnowersGo, rowVars
  <2>5. ASSUME NEW u \in Users, RevokeDelete(p, u) PROVE KnowersGo'
    <3>1. wiped = {} => \A v \in Users \ Members : escrow \notin known[v]
      BY <2>5, IdleKnowers DEF RevokeDelete, Begin
    <3>2. BeingRevoked(u)'
      BY <2>5 DEF RevokeDelete, Begin, BeingRevoked, TypeOK
    <3>3. Users \ Members' \subseteq (Users \ Members) \cup {u}
      BY <2>5 DEF RevokeDelete, Members, TypeOK
    <3> QED
      BY <2>5, <3>1, <3>2, <3>3 DEF RevokeDelete, KnowersGo, rowVars
  <2> QED
    BY <1>3, <2>1, <2>2, <2>3, <2>4, <2>5 DEF MemberStep
<1>4. ASSUME NEW p \in Procs, RotateStep(p) PROVE KnowersGo'
  <2>1. CASE RotateBegin(p)
    BY <2>1, <1>idle, OthersMove DEF RotateBegin, Begin, rowVars
  <2>2. CASE RevokeRotate(p)
    <3>1. op'[p].step = "rotate" /\ op'[p].user = op[p].user
      BY <2>2 DEF RevokeRotate, TypeOK, Request
    <3>2. \A u \in Users : BeingRevoked(u) => BeingRevoked(u)'
      BY <3>1 DEF BeingRevoked
    <3> QED
      BY <2>2, <3>2, KnowersStay DEF RevokeRotate, rowVars
  <2>3. CASE RotateCommit(p)
    <3>1. \A u \in Users : escrow + 1 \notin known[u]
      BY DEF TypeOK
    <3>2. \A u \in Users \ Members : known'[u] = known[u]
      BY <2>3 DEF RotateCommit
    <3> QED
      BY <2>3, <3>1, <3>2 DEF RotateCommit, NextEpoch, KnowersGo, Members
  <2>4. CASE RotateFail(p)
    <3>1. op[p].key = escrow
      BY <2>4 DEF RotateFail, At, HeldCurrent, Holding
    <3>2. wiped # {}
      BY <2>4, <3>1 DEF RotateFail, RowsOpenUnder, AllCurrent, Readable
    <3> QED
      BY <2>4, <3>2 DEF RotateFail, KnowersGo, rowVars
  <2> QED
    BY <1>4, <2>1, <2>2, <2>3, <2>4 DEF RotateStep
<1>5. ASSUME NEW t \in Tokens, RevokeToken(t) PROVE KnowersGo'
  BY <1>5, KnowersStay DEF RevokeToken, rowVars, BeingRevoked
<1>6. CASE UNCHANGED vars
  BY <1>6, KnowersStay DEF vars, memberVars, BeingRevoked
<1> QED
  BY <1>1, <1>2, <1>3, <1>4, <1>5, <1>6 DEF Undisturbed

\* "Revoking a member's access rotates the vault key" (docs/security.md), if
\* requests come one at a time and run to their answer, until a version of a
\* secret is burned: what breaks the promise is a burned row (secrets.rs,
\* read_and_consume), a rotation that was cut off, or an overlap.
THEOREM SerialRevocation ==
  ASSUME \A p, q \in Procs : p = q
  PROVE  UndisturbedSpec => [](wiped = {} => RevocationRotates)
<1>1. UndisturbedSpec => Spec
  <2>1. [Undisturbed]_vars => [Next]_vars
    BY DEF Next
  <2> QED
    BY <2>1, PTL DEF UndisturbedSpec, Spec
<1>2. Init => KnowersGo
  BY DEF Init, KnowersGo
<1>3. TypeOK /\ AllCurrent /\ HeldCurrent /\ KnowersGo /\ [Undisturbed]_vars
      => KnowersGo'
  BY StepKnowers
<1>4. TypeOK /\ KnowersGo => (wiped = {} => RevocationRotates)
  BY IdleKnowers DEF RevocationRotates, Quiet
<1> QED
  BY <1>1, <1>2, <1>3, <1>4, TypeCorrect, SerialKeys, PTL DEF UndisturbedSpec
=============================================================================
