------------------------------ MODULE VaultKeys ------------------------------
(***************************************************************************)
(* The key hierarchy of one vault (src/vault/mod.rs, src/tokens.rs and the *)
(* key-bearing side of src/secrets.rs), with the HTTP requests that work   *)
(* on it in flight at the same time.                                       *)
(*                                                                         *)
(* A vault key is identified by its epoch: 1 for the key create_vault      *)
(* draws, one more for every key a rotation installs.  A ciphertext is     *)
(* identified by the epoch of the key that opens it; AES-GCM makes opening *)
(* with any other key an error.  The same vault key lives sealed in four   *)
(* places: the master escrow, one wrap per member, one per API token, and  *)
(* it seals every secret version.  A handler reads the key in one SQL      *)
(* statement and uses it in a later one, so the model keeps the key an     *)
(* in-flight request holds.  Single statements and the transaction of      *)
(* rotate_vault are atomic, as SQLite makes them.                          *)
(*                                                                         *)
(* A vault never touches another's rows, so one vault is enough.  Paths,   *)
(* versions and read counts are the subject of SecretStore; here a row is  *)
(* only a ciphertext, which a consuming read may burn.  Token expiry does  *)
(* not matter to rotation (it re-wraps every unrevoked token).             *)
(*                                                                         *)
(* Definitions marked "mutant" are no part of the specification: each is a *)
(* plausible mistake in the definition that follows it, put in its place   *)
(* to see that a property notices.                                         *)
(***************************************************************************)
EXTENDS Naturals, FiniteSets

CONSTANTS
  Users,      \* users that may become members (never the blind master)
  Tokens,     \* API tokens that may be minted for the vault
  Rows,       \* secret versions that may be written
  Procs,      \* requests that may be in flight at once
  GrantRoles, \* the roles handed out, a subset of Role
  MaxEpoch    \* bound: rotations stop at this epoch

Role == {"viewer", "editor", "admin"}
CanWrite(r) == r \in {"editor", "admin"}

ASSUME GrantRolesAssumption == GrantRoles \subseteq Role
ASSUME MaxEpochAssumption == MaxEpoch \in Nat \ {0}

NoUser == "nobody"
ASSUME NoUserAssumption == NoUser \notin Users

VARIABLES
  escrow,    \* epoch of the key in vaults.vault_key_enc_master
  role,      \* role[u]: vault_user_keys.role, "none" without a row
  wrap,      \* wrap[u]: epoch of the key in u's row, 0 without a row
  tokKey,    \* tokKey[t]: epoch of the key in t's row, 0 if never minted
  revoked,   \* tokens with api_tokens.revoked = 1
  rowKey,    \* rowKey[r]: epoch that sealed the row, 0 if not written
  wiped,     \* rows burned by a last allowed read: empty nonce, no ciphertext
  op,        \* op[p]: what request p has read so far and is about to do
  known,     \* history: epochs each user's wrap has ever held
  lockedOut  \* history: users whose revocation was answered with success

vars == <<escrow, role, wrap, tokKey, revoked, rowKey, wiped, op,
          known, lockedOut>>
memberVars == <<role, wrap, known, lockedOut>>
tokenVars  == <<tokKey, revoked>>
rowVars    == <<rowKey, wiped>>

Step == {"idle", "writer", "write", "read", "minter", "mint", "assign",
         "grant", "regrade", "deleted", "rotate"}
Request == [step : Step, user : Users \cup {NoUser},
            role : Role \cup {"none"}, key : 0..MaxEpoch]
Holding == {"write", "read", "mint", "grant", "rotate"} \* these hold a key
Idle == [step |-> "idle", user |-> NoUser, role |-> "none", key |-> 0]

Members    == {u \in Users : role[u] # "none"}
LiveTokens == {t \in Tokens : tokKey[t] # 0} \ revoked
Written    == {r \in Rows : rowKey[r] # 0}
Readable   == Written \ wiped

\* Request p, idle so far, has taken its first step and waits for the next.
Begin(p, step, user, ro, key) ==
  /\ op[p] = Idle
  /\ op' = [op EXCEPT ![p] = [step |-> step, user |-> user,
                              role |-> ro, key |-> key]]
At(p, step) == op[p].step = step
Finish(p) == op' = [op EXCEPT ![p] = Idle]

\* create_vault has escrowed the first key; the blind master gets no row.
Init ==
  /\ escrow = 1
  /\ role = [u \in Users |-> "none"]
  /\ wrap = [u \in Users |-> 0]
  /\ tokKey = [t \in Tokens |-> 0]
  /\ revoked = {}
  /\ rowKey = [r \in Rows |-> 0]
  /\ wiped = {}
  /\ op = [p \in Procs |-> Idle]
  /\ known = [u \in Users |-> {}]
  /\ lockedOut = {}

-----------------------------------------------------------------------------
(* A member's own key, for GUI requests that checked the member's role.     *)

Resolved(step) == IF step = "writer" THEN "write" ELSE "mint"

\* resolve_vault_key: the wrap yields the vault key ...
ResolveKey(p) ==
  LET u == op[p].user IN
  /\ At(p, "writer") \/ At(p, "minter")
  /\ role[u] # "none"
  /\ op' = [op EXCEPT ![p] = [step |-> Resolved(op[p].step), user |-> NoUser,
                              role |-> "none", key |-> wrap[u]]]
  /\ UNCHANGED <<escrow, memberVars, tokenVars, rowVars>>

\* ... unless the membership was revoked since the role was checked.
ResolveRefused(p) ==
  /\ At(p, "writer") \/ At(p, "minter")
  /\ role[op[p].user] = "none"
  /\ Finish(p)
  /\ UNCHANGED <<escrow, memberVars, tokenVars, rowVars>>

-----------------------------------------------------------------------------
(* Writing and reading secrets.                                             *)

\* GUI write (secret_write): u's role allows writing.
WriteBegin(p, u) ==
  /\ CanWrite(role[u])
  /\ Begin(p, "writer", u, "none", 0)
  /\ UNCHANGED <<escrow, memberVars, tokenVars, rowVars>>

\* KV write (kv::write): the token is not revoked and unwraps to the vault
\* key.  A read-only token is one that never does this.
TokenWriteBegin(p, t) ==
  /\ t \in LiveTokens
  /\ Begin(p, "write", NoUser, "none", tokKey[t])
  /\ UNCHANGED <<escrow, memberVars, tokenVars, rowVars>>

\* secrets::write inserts the value sealed under the key read earlier.
WriteInsert(p, r) ==
  /\ At(p, "write")
  /\ rowKey[r] = 0
  /\ rowKey' = [rowKey EXCEPT ![r] = op[p].key]
  /\ Finish(p)
  /\ UNCHANGED <<escrow, memberVars, tokenVars, wiped>>

\* KV read (kv::read): the token unwraps to the vault key.
ReadBegin(p, t) ==
  /\ t \in LiveTokens
  /\ Begin(p, "read", NoUser, "none", tokKey[t])
  /\ UNCHANGED <<escrow, memberVars, tokenVars, rowVars>>

\* The consuming read's transaction opens the row and uses up its last read:
\* the row is destroyed and its ciphertext wiped.
ReadBurns(p, r) ==
  /\ At(p, "read")
  /\ r \in Readable
  /\ rowKey[r] = op[p].key
  /\ wiped' = wiped \cup {r}
  /\ Finish(p)
  /\ UNCHANGED <<escrow, memberVars, tokenVars, rowKey>>

\* Any other outcome leaves the ciphertexts alone: no live version, reads
\* left over, or a row that does not open under the key held.
ReadKeeps(p) ==
  /\ At(p, "read")
  /\ Finish(p)
  /\ UNCHANGED <<escrow, memberVars, tokenVars, rowVars>>

-----------------------------------------------------------------------------
(* API tokens.                                                              *)

\* GUI (tokens_create): u's role allows making tokens; the vault key in it
\* will come from u's own wrap.
MintBegin(p, u) ==
  /\ CanWrite(role[u])
  /\ Begin(p, "minter", u, "none", 0)
  /\ UNCHANGED <<escrow, memberVars, tokenVars, rowVars>>

\* AppRole login (approle::login): the master escrow yields the key.
MintBeginViaMaster(p) ==
  /\ Begin(p, "mint", NoUser, "none", escrow)
  /\ UNCHANGED <<escrow, memberVars, tokenVars, rowVars>>

MintInsert(p, t) ==
  /\ At(p, "mint")
  /\ tokKey[t] = 0
  /\ tokKey' = [tokKey EXCEPT ![t] = op[p].key]
  /\ Finish(p)
  /\ UNCHANGED <<escrow, memberVars, revoked, rowVars>>

\* revoke_token and revoke_self: one UPDATE.
RevokeToken(t) ==
  /\ t \in LiveTokens
  /\ revoked' = revoked \cup {t}
  /\ UNCHANGED <<escrow, memberVars, tokKey, rowVars, op>>

-----------------------------------------------------------------------------
(* Membership.  The caller is the master, or an admin of the vault.         *)

\* assign (the GUI's vault_assign) finds no row for u ...
AssignBegin(p, u, ro) ==
  /\ role[u] = "none"
  /\ Begin(p, "assign", u, ro, 0)
  /\ UNCHANGED <<escrow, memberVars, tokenVars, rowVars>>

\* ... and resolve_vault_key_via_master unwraps the escrow for u.
ResolveEscrow(p) ==
  /\ At(p, "assign")
  /\ op' = [op EXCEPT ![p].step = "grant", ![p].key = escrow]
  /\ UNCHANGED <<escrow, memberVars, tokenVars, rowVars>>

\* The INSERT of assign.  The primary key refuses a second row for u, and
\* the request ends with that error.
AssignInsert(p) ==
  LET u == op[p].user IN
  /\ At(p, "grant")
  /\ role[u] = "none"
  /\ role' = [role EXCEPT ![u] = op[p].role]
  /\ wrap' = [wrap EXCEPT ![u] = op[p].key]
  /\ known' = [known EXCEPT ![u] = @ \cup {op[p].key}]
  /\ lockedOut' = lockedOut \ {u}
  /\ Finish(p)
  /\ UNCHANGED <<escrow, tokenVars, rowVars>>

AssignRefused(p) ==
  /\ At(p, "grant")
  /\ role[op[p].user] # "none"
  /\ Finish(p)
  /\ UNCHANGED <<escrow, memberVars, tokenVars, rowVars>>

\* assign finds a row for u: it will only change the role.
RegradeBegin(p, u, ro) ==
  /\ role[u] # "none"
  /\ Begin(p, "regrade", u, ro, 0)
  /\ UNCHANGED <<escrow, memberVars, tokenVars, rowVars>>

\* The UPDATE of assign, answered with success also when no row is left.
RegradeUpdate(p) ==
  LET u == op[p].user IN
  /\ At(p, "regrade")
  /\ role' = IF role[u] = "none" THEN role
             ELSE [role EXCEPT ![u] = op[p].role]
  /\ Finish(p)
  /\ UNCHANGED <<escrow, wrap, known, lockedOut, tokenVars, rowVars>>

\* revoke's DELETE commits on its own; the rotation is still to come.
RevokeDelete(p, u) ==
  /\ Begin(p, "deleted", u, "none", 0)
  /\ role' = [role EXCEPT ![u] = "none"]
  /\ wrap' = [wrap EXCEPT ![u] = 0]
  /\ UNCHANGED <<escrow, known, lockedOut, tokenVars, rowVars>>

-----------------------------------------------------------------------------
(* Rotation.                                                                *)

\* rotate_vault reads the old key from the escrow before its transaction:
\* on demand (the GUI's vault_rotate) ...
RotateBegin(p) ==
  /\ Begin(p, "rotate", NoUser, "none", escrow)
  /\ UNCHANGED <<escrow, memberVars, tokenVars, rowVars>>

\* ... or as the second half of revoke (the GUI's vault_revoke).
RevokeRotate(p) ==
  /\ At(p, "deleted")
  /\ op' = [op EXCEPT ![p].step = "rotate", ![p].key = escrow]
  /\ UNCHANGED <<escrow, memberVars, tokenVars, rowVars>>

\* Every secret row of the vault, burned ones included, must open under the
\* old key, or the transaction is rolled back.
RowsOpenUnderUnlessWiped(key) == \A r \in Readable : rowKey[r] = key \* mutant
RowsOpenUnder(key) == wiped = {} /\ \A r \in Written : rowKey[r] = key

\* The new vault key, random and so never seen before.
OldEpoch == escrow \* mutant
NextEpoch == escrow + 1

\* What the transaction makes of the rows, the wraps and the live tokens.
RowsForgotten(new) == rowKey \* mutant
ReencryptRows(new) == [r \in Rows |-> IF r \in Written THEN new ELSE 0]

WrapForEverybody(new) == [u \in Users |-> new] \* mutant
RewrapMembers(new) == [u \in Users |-> IF u \in Members THEN new ELSE 0]

TokensForgotten(new) == tokKey \* mutant
RewrapTokens(new) ==
  [t \in Tokens |-> IF t \in LiveTokens THEN new ELSE tokKey[t]]

\* The transaction: re-encrypt every row, re-seal the escrow, re-wrap for
\* every member and every unrevoked token.
RotateCommit(p) ==
  LET new == NextEpoch IN
  /\ At(p, "rotate")
  /\ escrow < MaxEpoch
  /\ RowsOpenUnder(op[p].key)
  /\ escrow' = new
  /\ rowKey' = ReencryptRows(new)
  /\ wrap' = RewrapMembers(new)
  /\ known' = [u \in Users |-> IF u \in Members THEN known[u] \cup {new}
                               ELSE known[u]]
  /\ tokKey' = RewrapTokens(new)
  /\ lockedOut' = lockedOut \cup ({op[p].user} \ (Members \cup {NoUser}))
  /\ Finish(p)
  /\ UNCHANGED <<role, revoked, wiped>>

\* A row does not open: rotate_vault answers with an error, nothing changes.
RotateFail(p) ==
  /\ At(p, "rotate")
  /\ ~RowsOpenUnder(op[p].key)
  /\ Finish(p)
  /\ UNCHANGED <<escrow, memberVars, tokenVars, rowVars>>

\* A request ends at an await without its next statement taking effect: an
\* SQL error such as SQLITE_BUSY, a client that hung up, a crash.
Abort(p) ==
  /\ op[p] # Idle
  /\ Finish(p)
  /\ UNCHANGED <<escrow, memberVars, tokenVars, rowVars>>

-----------------------------------------------------------------------------
SecretStep(p) ==
  \/ \E u \in Users : WriteBegin(p, u)
  \/ ResolveKey(p) \/ ResolveRefused(p)
  \/ \E t \in Tokens : TokenWriteBegin(p, t) \/ ReadBegin(p, t)
  \/ \E r \in Rows : WriteInsert(p, r) \/ ReadBurns(p, r)
  \/ ReadKeeps(p)

TokenStep(p) ==
  \/ \E u \in Users : MintBegin(p, u)
  \/ MintBeginViaMaster(p)
  \/ \E t \in Tokens : MintInsert(p, t)

MemberStep(p) ==
  \/ \E u \in Users, ro \in GrantRoles : AssignBegin(p, u, ro)
                                         \/ RegradeBegin(p, u, ro)
  \/ ResolveEscrow(p)
  \/ AssignInsert(p)
  \/ AssignRefused(p)
  \/ RegradeUpdate(p)
  \/ \E u \in Users : RevokeDelete(p, u)

RotateStep(p) ==
  \/ RotateBegin(p)
  \/ RevokeRotate(p)
  \/ RotateCommit(p)
  \/ RotateFail(p)

\* Steps of a system in which every started request runs to its answer.
Undisturbed ==
  \/ \E p \in Procs : SecretStep(p) \/ TokenStep(p) \/ MemberStep(p)
                      \/ RotateStep(p)
  \/ \E t \in Tokens : RevokeToken(t)

Next == Undisturbed \/ \E p \in Procs : Abort(p)

Spec == Init /\ [][Next]_vars
UndisturbedSpec == Init /\ [][Undisturbed]_vars

-----------------------------------------------------------------------------
(* Properties that hold.                                                    *)

\* What a request carries fits the step it is at.
RequestOK(q) ==
  /\ q.step \in Holding <=> q.key # 0
  /\ q.step \in {"writer", "minter", "assign", "grant", "regrade", "deleted"}
     => q.user \in Users
  /\ q.step \in {"assign", "grant", "regrade"} => q.role \in Role

\* Every variable has its type, and no key of a later epoch than the
\* escrow's exists anywhere: not in a wrap, a row, or a request in flight.
TypeOK ==
  /\ escrow \in 1..MaxEpoch
  /\ role \in [Users -> Role \cup {"none"}]
  /\ wrap \in [Users -> 0..escrow]
  /\ \A u \in Users : role[u] = "none" <=> wrap[u] = 0
  /\ tokKey \in [Tokens -> 0..escrow]
  /\ revoked \subseteq {t \in Tokens : tokKey[t] # 0}
  /\ rowKey \in [Rows -> 0..escrow]
  /\ wiped \subseteq Written
  /\ op \in [Procs -> Request]
  /\ \A p \in Procs : op[p].key <= escrow /\ RequestOK(op[p])
  /\ known \in [Users -> SUBSET (1..escrow)]
  /\ lockedOut \subseteq Users

\* Whoever holds the vault's current key goes on holding it: no rotation,
\* re-assignment or late INSERT leaves behind a member, an unrevoked token or
\* a secret that was up to date (vault/mod.rs, rotate_vault and assign).
CurrentStaysCurrent ==
  [][/\ \A u \in Users : role[u] # "none" /\ role'[u] # "none"
                         /\ wrap[u] = escrow => wrap'[u] = escrow'
     /\ \A t \in Tokens : tokKey[t] = escrow /\ t \notin revoked
                          => tokKey'[t] = escrow'
     /\ \A r \in Rows : rowKey[r] = escrow /\ r \notin wiped
                        => rowKey'[r] = escrow']_vars

\* A user whose revocation was answered with success is no member, and never
\* held the key the vault now uses, whatever assignments, revocations and
\* rotations run beside (vault/mod.rs, revoke).
LockedOutKeyless ==
  \A u \in lockedOut : role[u] = "none" /\ escrow \notin known[u]

\* A burned version pins the vault to its present key: rotate_vault cannot
\* open the wiped row, so every later rotation, and with it the rotation half
\* of every revocation, fails (secrets.rs, read_and_consume).
BurnPinsKey == [][wiped # {} => escrow' = escrow]_vars

\* Every member, every live token and every readable secret is under the
\* vault's current key.
AllCurrent ==
  /\ \A u \in Members : wrap[u] = escrow
  /\ \A t \in LiveTokens : tokKey[t] = escrow
  /\ \A r \in Readable : rowKey[r] = escrow

\* Every request that holds a key holds the current one.
HeldCurrent == \A p \in Procs : op[p].step \in Holding => op[p].key = escrow

\* Members, tokens and secrets come to disagree on the key in one way only: a
\* request stores a key it has held since before a rotation (assign in
\* vault/mod.rs, mint in tokens.rs and write in secrets.rs against
\* rotate_vault).
OnlyStaleDisagree == [][AllCurrent /\ HeldCurrent => AllCurrent']_vars

-----------------------------------------------------------------------------
(* What the documentation says and the code does not keep.                  *)

Quiet == \A p \in Procs : op[p] = Idle

\* docs/security.md: "Revoking a member's access rotates the vault key".
\* When no request is at work, someone who is no member does not know the
\* vault's key.
RevocationRotates ==
  Quiet => \A u \in Users \ Members : escrow \notin known[u]

\* docs/security.md: "A removed credential therefore can't decrypt anything
\* written or re-encrypted afterwards."
RemovedCannotDecrypt ==
  \A u \in lockedOut, r \in Readable : rowKey[r] \notin known[u]
=============================================================================
