---------------------------- MODULE SealLifecycle ----------------------------
(***************************************************************************)
(* Initialise, unseal, seal and restart (src/api/routes/sys.rs, with the   *)
(* seal state of src/state.rs), as concurrent requests interleave at their *)
(* lock acquisitions and SQL statements.                                   *)
(*                                                                         *)
(* The database keeps one system_init row; the process keeps the master    *)
(* key and the shares submitted so far, and loses both when it stops.      *)
(* Every master key drawn by an init request is named after the request.   *)
(* Shares 1..NumShares are the genuine shares of the stored master key;    *)
(* BadShare is any other well-formed share.  Input that is no base64, or   *)
(* asks for an impossible threshold, is refused without effect.            *)
(*                                                                         *)
(* Definitions marked "mutant" are no part of the specification: each is a *)
(* plausible mistake in the definition that follows it, put in its place   *)
(* to see that a property notices.                                         *)
(***************************************************************************)
EXTENDS Naturals, Sequences, FiniteSets, Functions

CONSTANTS
  Procs,      \* requests that may be in flight at once
  NumShares,  \* shares handed out by init
  Threshold,  \* shares needed to unseal
  MaxPending  \* bound: shares held in memory at once

ASSUME SharesAssumption ==
  NumShares \in Nat /\ Threshold \in 1..NumShares /\ NumShares <= 255
ASSUME BoundsAssumption == MaxPending \in Nat

Genuine == 1..NumShares
BadShare == 0
Share == Genuine \cup {BadShare}
NoKey == "none"
ASSUME NoKeyAssumption == NoKey \notin Procs

VARIABLES
  storedKey, \* system_init: the master key its verification blob belongs to
  dbSealed,  \* system_init.sealed (written, never read)
  unsealed,  \* AppState.master_key is Some
  progress,  \* AppState.unseal_progress
  op,        \* op[p]: the next step of request p, the share it carries, and
             \* (history) whether a seal dropped the key since it began
  issued,    \* history: keys whose shares some client was shown
  submitted  \* history: shares accepted since the process started

dbVars   == <<storedKey, dbSealed>>
memVars  == <<unsealed, progress>>
histVars == <<issued, submitted>>
vars == <<dbVars, memVars, op, histVars>>

Initialized == storedKey # NoKey

Step == {"idle", "insert", "showShares", "push", "setKey", "clearShares",
         "markUnsealed", "reject", "dropShares", "markSealed"}
Request == [step : Step, share : Share, outdated : BOOLEAN]
Idle == [step |-> "idle", share |-> BadShare, outdated |-> FALSE]
At(p, step) == op[p].step = step
Unsealing(p) == op[p].step \in {"push", "setKey"}
Goto(p, step) == op' = [op EXCEPT ![p].step = step]
MoveOn(p, step) == op' = [op EXCEPT ![p] = [Idle EXCEPT !.step = step]]
Finish(p) == op' = [op EXCEPT ![p] = Idle]

Init ==
  /\ storedKey = NoKey /\ dbSealed = TRUE
  /\ unsealed = FALSE /\ progress = <<>>
  /\ op = [p \in Procs |-> Idle]
  /\ issued = {} /\ submitted = {}

-----------------------------------------------------------------------------
(* perform_init                                                             *)

\* sys::init or the GUI's unseal_init: no row yet, so draw a master key and
\* split it.
InitBegin(p) ==
  /\ op[p] = Idle
  /\ ~Initialized
  /\ Goto(p, "insert")
  /\ UNCHANGED <<dbVars, memVars, histVars>>

\* The table takes a row with id 1: the key's CHECK allows no other.
NoPrimaryKey == TRUE \* mutant
RowAccepted == ~Initialized

\* The INSERT of that row.
InitInsert(p) ==
  /\ At(p, "insert")
  /\ RowAccepted
  /\ storedKey' = p
  /\ dbSealed' = TRUE
  /\ Goto(p, "showShares")
  /\ UNCHANGED <<memVars, histVars>>

\* The primary key refuses the second of two concurrent inits.
InitRefused(p) ==
  /\ At(p, "insert")
  /\ ~RowAccepted
  /\ Finish(p)
  /\ UNCHANGED <<dbVars, memVars, histVars>>

\* The response carries the shares to the client, this once.
ShowShares(p) ==
  /\ At(p, "showShares")
  /\ issued' = issued \cup {p}
  /\ Finish(p)
  /\ UNCHANGED <<dbVars, memVars, submitted>>

-----------------------------------------------------------------------------
(* unseal                                                                   *)

\* Shares may be submitted: there is a master key, and it is not in memory.
Sealed == ~unsealed \* mutant
AwaitsShares == Initialized /\ ~unsealed

\* A share arrives while the instance is sealed.  Somebody has the genuine
\* shares only if init showed them.
UnsealBegin(p, s) ==
  /\ op[p] = Idle
  /\ AwaitsShares
  /\ s \in Genuine => storedKey \in issued
  /\ op' = [op EXCEPT ![p] = [step |-> "push", share |-> s,
                              outdated |-> FALSE]]
  /\ UNCHANGED <<dbVars, memVars, histVars>>

\* shamir::combine and the check against the verification blob: all shares
\* genuine, enough of them, none twice (interpolation over a repeated share
\* gives another key).
RecoversByNumber(shares) == BadShare \notin Range(shares) \* mutant
Recovers(shares) ==
  /\ BadShare \notin Range(shares)
  /\ IsInjective(shares)
  /\ Len(shares) >= Threshold

\* Under the write lock the share is pushed and the list is copied.
Push(p) ==
  LET collected == Append(progress, op[p].share) IN
  /\ At(p, "push")
  /\ Len(progress) < MaxPending
  /\ progress' = collected
  /\ submitted' = submitted \cup {op[p].share}
  /\ IF Len(collected) < Threshold THEN Finish(p)
     ELSE IF Recovers(collected) THEN Goto(p, "setKey") ELSE MoveOn(p, "reject")
  /\ UNCHANGED <<dbVars, unsealed, issued>>

\* A verified key is put in memory ...
SetKey(p) ==
  /\ At(p, "setKey")
  /\ unsealed' = TRUE
  /\ MoveOn(p, "clearShares")
  /\ UNCHANGED <<dbVars, progress, histVars>>

\* ... then the shares are dropped ...
ClearShares(p) ==
  /\ At(p, "clearShares")
  /\ progress' = <<>>
  /\ Goto(p, "markUnsealed")
  /\ UNCHANGED <<dbVars, unsealed, histVars>>

\* ... then the row is updated.
MarkUnsealed(p) ==
  /\ At(p, "markUnsealed")
  /\ dbSealed' = FALSE
  /\ Finish(p)
  /\ UNCHANGED <<storedKey, memVars, histVars>>

\* Shares that do not recover the key are all dropped.
LastDropped == SubSeq(progress, 1, Len(progress) - 1) \* mutant
AfterRejection == <<>>
Reject(p) ==
  /\ At(p, "reject")
  /\ progress' = AfterRejection
  /\ Finish(p)
  /\ UNCHANGED <<dbVars, unsealed, histVars>>

\* unseal with reset = true.
Reset ==
  /\ Initialized
  /\ progress # <<>>
  /\ progress' = <<>>
  /\ UNCHANGED <<dbVars, unsealed, op, histVars>>

-----------------------------------------------------------------------------
(* perform_seal                                                             *)

\* A signed-in master seals, whether or not the instance is initialized.
SealBegin(p) ==
  /\ op[p] = Idle
  /\ unsealed' = FALSE
  /\ op' = [q \in Procs |->
              IF q = p THEN [Idle EXCEPT !.step = "dropShares"]
              ELSE [op[q] EXCEPT !.outdated = @ \/ (unsealed /\ Unsealing(q))]]
  /\ UNCHANGED <<dbVars, progress, histVars>>

DropShares(p) ==
  /\ At(p, "dropShares")
  /\ progress' = <<>>
  /\ Goto(p, "markSealed")
  /\ UNCHANGED <<dbVars, unsealed, histVars>>

MarkSealed(p) ==
  /\ At(p, "markSealed")
  /\ dbSealed' = TRUE
  /\ Finish(p)
  /\ UNCHANGED <<storedKey, memVars, histVars>>

-----------------------------------------------------------------------------
(* Failures                                                                 *)

\* The process stops and starts again: only the database is left.
Restart ==
  /\ unsealed' = FALSE /\ progress' = <<>>
  /\ op' = [p \in Procs |-> Idle]
  /\ submitted' = {}
  /\ UNCHANGED <<dbVars, issued>>

\* A request ends between two steps: the client hung up, or SQL failed.  The
\* bound: when no further share fits, the verdict on them is not lost too.
Abort(p) ==
  /\ op[p] # Idle
  /\ Len(progress) < MaxPending
  /\ Finish(p)
  /\ UNCHANGED <<dbVars, memVars, histVars>>

-----------------------------------------------------------------------------
InitStep(p) == InitBegin(p) \/ InitInsert(p) \/ InitRefused(p) \/ ShowShares(p)
UnsealStep(p) == Push(p) \/ SetKey(p) \/ ClearShares(p) \/ MarkUnsealed(p)
                 \/ Reject(p)
SealStep(p) == SealBegin(p) \/ DropShares(p) \/ MarkSealed(p)

Next ==
  \/ \E p \in Procs : InitStep(p) \/ UnsealStep(p) \/ SealStep(p) \/ Abort(p)
                      \/ \E s \in Share : UnsealBegin(p, s)
  \/ Reset
  \/ Restart

Spec == Init /\ [][Next]_vars

(* For liveness: share holders who keep submitting their share while the   *)
(* instance is sealed and their share is not counted yet, or counted in a  *)
(* round whose verdict was lost with the request that owed it.             *)
VerdictLost ==
  /\ Len(progress) >= Threshold
  /\ \A p \in Procs : op[p].step \in {"idle", "markUnsealed", "markSealed"}

HolderSubmits(s) ==
  /\ s \notin Range(progress) \/ VerdictLost
  /\ \A q \in Procs : op[q].share # s
  /\ \E p \in Procs : UnsealBegin(p, s)

\* Requests run to their answer, nobody resets, and the server stays up.
AttendedNext ==
  \/ \E p \in Procs :
       \/ InitStep(p) \/ UnsealStep(p)
       \/ (unsealed /\ SealBegin(p)) \/ DropShares(p) \/ MarkSealed(p)
       \/ UnsealBegin(p, BadShare)
  \/ \E s \in Genuine : HolderSubmits(s)

FairSpec ==
  /\ Spec
  /\ WF_vars(\E p \in Procs : InitBegin(p))
  /\ \A p \in Procs : WF_vars(InitInsert(p) \/ InitRefused(p) \/ ShowShares(p))
                      /\ WF_vars(UnsealStep(p))
                      /\ WF_vars(DropShares(p) \/ MarkSealed(p))
  /\ \A s \in Genuine : SF_vars(HolderSubmits(s))

-----------------------------------------------------------------------------
\* Every variable has its type, and before init there is nothing to unseal.
TypeOK ==
  /\ storedKey \in Procs \cup {NoKey}
  /\ dbSealed \in BOOLEAN /\ unsealed \in BOOLEAN
  /\ progress \in Seq(Share) /\ Len(progress) <= MaxPending
  /\ op \in [Procs -> Request]
  /\ issued \subseteq Procs
  /\ submitted \subseteq Share
  /\ ~Initialized => ~unsealed /\ progress = <<>>

\* The master key is in memory only if, since the process started, enough
\* different genuine shares were submitted: wrong, repeated and concurrent
\* submissions, resets and seals never lower the quorum (sys.rs,
\* add_unseal_share).
KeyNeedsQuorum ==
  unsealed => Cardinality(submitted \cap Genuine) >= Threshold

\* Whoever was shown shares holds shares of the stored master key, so of two
\* concurrent inits at most one is answered with shares (sys.rs, perform_init).
ShownSharesFit == issued \subseteq {storedKey}

\* Once initialized, an instance keeps its master key, across restarts too.
MasterKeyStays == [][Initialized => storedKey' = storedKey]_storedKey

BadShareComing == \E p \in Procs : At(p, "push") /\ op[p].share = BadShare

\* Once the shares were shown, if at some point requests stop breaking off and
\* nobody resets, restarts or submits a wrong share any more, the holders get
\* the instance unsealed, again after every seal: whatever restarts, resets,
\* broken-off requests and wrong shares left behind, rejected rounds and
\* requests racing the holders' only delay it (sys.rs, add_unseal_share and
\* perform_seal).
HoldersUnseal ==
  /\ <>(issued # {})
  /\ <>[][AttendedNext]_vars
  /\ <>[]~BadShareComing
  => []<>unsealed

-----------------------------------------------------------------------------
\* docs/unseal.md on sealing: "every token stops working and every signed-in
\* user is locked out until the instance is unsealed again with the shares."
\* A key put in memory comes from a share sent in after the last seal.
SealHoldsUntilNewShare == [][\A p \in Procs : SetKey(p) => ~op[p].outdated]_vars
=============================================================================
