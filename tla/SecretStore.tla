----------------------------- MODULE SecretStore -----------------------------
(***************************************************************************)
(* The versions of one secret path (src/secrets.rs) under concurrent       *)
(* writes, consuming reads and deletes from the GUI and the KV API         *)
(* (src/api/routes/kv.rs).  No statement of secrets.rs touches two paths   *)
(* or two vaults, so one path is enough.                                   *)
(*                                                                         *)
(* A write reads MAX(version) in one statement and inserts in another;     *)
(* UNIQUE(vault_id, path, version) turns the loser of a race into an       *)
(* error.  A consuming read is one transaction, after which the response   *)
(* is still to reach the client.  Failures that leave the database alone   *)
(* (a value that does not decrypt, SQLITE_BUSY) change nothing here.       *)
(*                                                                         *)
(* Definitions marked "mutant" are no part of the specification: each is a *)
(* plausible mistake in the definition that follows it, put in its place   *)
(* to see that a property notices.                                         *)
(***************************************************************************)
EXTENDS Naturals, Sequences, FiniteSets

CONSTANTS
  Procs,      \* requests that may be in flight at once
  MaxVersion, \* bound: versions of the path
  MaxReads    \* bound: the largest max_reads, and reads of a version counted

ASSUME ProcsAssumption == IsFiniteSet(Procs)
ASSUME BoundsAssumption == MaxVersion \in Nat \ {0} /\ MaxReads \in Nat \ {0}

Version == 1..MaxVersion
Unlimited == 0                 \* max_reads IS NULL
Cap == {Unlimited} \cup 1..MaxReads

VARIABLES
  status,    \* status[v]: "none" without a row, else live, deleted or burned
  cap,       \* cap[v]: secrets.max_reads
  count,     \* count[v]: secrets.read_count
  op,        \* op[p]: what request p is about to do
  delivered  \* history: API responses with version v that reached a client

rows == <<status, cap, count>>
vars == <<rows, op, delivered>>

Status == {"none", "live", "deleted", "burned"}
Idle == [step |-> "idle", ver |-> 0, cap |-> 0]
Request == [step : {"idle", "insert", "respond"}, ver : 0..(MaxVersion + 1),
            cap : Cap]

Stored == {v \in Version : status[v] # "none"}
Live   == {v \in Version : status[v] = "live"}
LastOf(S) == CHOOSE v \in S : \A w \in S : w <= v

\* UNIQUE(vault_id, path, version) lets a row with this number in.
AcceptedAlways(v) == v \in Version \* mutant
Accepted(v) == v \in Version \ Stored

\* The read that is about to be counted is the last one allowed.
OneReadTooLate(v) == cap[v] # Unlimited /\ count[v] + 1 > cap[v] \* mutant
LastRead(v) == cap[v] # Unlimited /\ count[v] + 1 >= cap[v]

Init ==
  /\ status = [v \in Version |-> "none"]
  /\ cap = [v \in Version |-> Unlimited]
  /\ count = [v \in Version |-> 0]
  /\ op = [p \in Procs |-> Idle]
  /\ delivered = [v \in Version |-> 0]

-----------------------------------------------------------------------------
\* write: COALESCE(MAX(version), 0) + 1, over deleted and burned rows too.
WriteNumber(p, c) ==
  LET next == IF Stored = {} THEN 1 ELSE LastOf(Stored) + 1 IN
  /\ op[p] = Idle
  /\ op' = [op EXCEPT ![p] = [step |-> "insert", ver |-> next, cap |-> c]]
  /\ UNCHANGED <<rows, delivered>>

\* write: the INSERT, of a version nobody has inserted meanwhile.
WriteInsert(p) ==
  LET v == op[p].ver IN
  /\ op[p].step = "insert"
  /\ Accepted(v)
  /\ status' = [status EXCEPT ![v] = "live"]
  /\ cap' = [cap EXCEPT ![v] = op[p].cap]
  /\ count' = [count EXCEPT ![v] = 0]
  /\ op' = [op EXCEPT ![p] = Idle]
  /\ UNCHANGED delivered

\* write: the UNIQUE constraint refuses the INSERT (or the bound is reached).
WriteConflict(p) ==
  /\ op[p].step = "insert"
  /\ ~Accepted(op[p].ver)
  /\ op' = [op EXCEPT ![p] = Idle]
  /\ UNCHANGED <<rows, delivered>>

\* read_and_consume: count the read of the latest live version; the last one
\* allowed destroys the version.
Consume(p) ==
  LET v == LastOf(Live) IN
  /\ op[p] = Idle
  /\ Live # {}
  /\ count[v] < MaxReads
  /\ count' = [count EXCEPT ![v] = @ + 1]
  /\ status' = IF LastRead(v) THEN [status EXCEPT ![v] = "burned"] ELSE status
  /\ op' = [op EXCEPT ![p] = [step |-> "respond", ver |-> v, cap |-> 0]]
  /\ UNCHANGED <<cap, delivered>>

\* The response of a consuming read reaches the client.
Respond(p) ==
  /\ op[p].step = "respond"
  /\ delivered' = [delivered EXCEPT ![op[p].ver] = @ + 1]
  /\ op' = [op EXCEPT ![p] = Idle]
  /\ UNCHANGED rows

\* A request dies before its next step: crash, disconnect, SQL error.
Abort(p) ==
  /\ op[p] # Idle
  /\ op' = [op EXCEPT ![p] = Idle]
  /\ UNCHANGED <<rows, delivered>>

SoftDeleteRow == \* mutant: the row goes instead of being marked
  /\ Live # {}
  /\ status' = [status EXCEPT ![LastOf(Live)] = "none"]
  /\ UNCHANGED <<cap, count, op, delivered>>

\* soft_delete (API): the latest live version, found and marked in one UPDATE.
SoftDelete ==
  /\ Live # {}
  /\ status' = [status EXCEPT ![LastOf(Live)] = "deleted"]
  /\ UNCHANGED <<cap, count, op, delivered>>

\* delete_path (GUI): every live version.
DeletePath ==
  /\ Live # {}
  /\ status' = [v \in Version |-> IF v \in Live THEN "deleted" ELSE status[v]]
  /\ UNCHANGED <<cap, count, op, delivered>>

Next ==
  \/ \E p \in Procs :
       \/ \E c \in Cap : WriteNumber(p, c)
       \/ WriteInsert(p)
       \/ WriteConflict(p)
       \/ Consume(p)
       \/ Respond(p)
       \/ Abort(p)
  \/ SoftDelete
  \/ DeletePath

Spec == Init /\ [][Next]_vars

-----------------------------------------------------------------------------
\* Every variable has its type, and a request about to answer a read names
\* a stored version.
TypeOK ==
  /\ status \in [Version -> Status]
  /\ cap \in [Version -> Cap]
  /\ count \in [Version -> 0..MaxReads]
  /\ op \in [Procs -> Request]
  /\ \A p \in Procs : op[p].step = "respond" => op[p].ver \in Stored
  /\ delivered \in [Version -> 0..MaxReads]

\* Responses with version v that are on their way to a client.
OnTheWay(v) == {p \in Procs : op[p].step = "respond" /\ op[p].ver = v}

\* Every read handed out or on its way has been counted, and a version is
\* burned exactly when its allowance is used up: no interleaving of reads,
\* aborts and deletes gives a capped secret away once too often
\* (secrets.rs, read_and_consume).
ReadsAccounted ==
  \A v \in Version :
    /\ delivered[v] + Cardinality(OnTheWay(v)) <= count[v]
    /\ cap[v] # Unlimited => count[v] <= cap[v]
    /\ status[v] = "burned" => cap[v] # Unlimited /\ count[v] = cap[v]
    /\ status[v] = "live" /\ cap[v] # Unlimited => count[v] < cap[v]

\* Version numbers have no holes, although writers number and insert in
\* separate statements (secrets.rs, write).
VersionsContiguous ==
  \A v \in Version : v \in Stored => 1..v \subseteq Stored

\* History is preserved: a stored version is never overwritten, loses no read
\* count, and once deleted or burned never comes back (secrets.rs).
HistoryPreserved ==
  [][\A v \in Stored : /\ cap'[v] = cap[v] /\ count'[v] >= count[v]
                       /\ \/ status'[v] = status[v]
                          \/ status[v] = "live" /\ status'[v] # "none"]_vars

\* The store implements the append-only log of versions with read limits.
StoredSeq(f) == [v \in 1..Cardinality(Stored) |-> f[v]]
Log == INSTANCE VersionLog
         WITH Limit <- Cap, log <- StoredSeq(cap), handed <- StoredSeq(delivered)
ImplementsLog == Log!Spec

-----------------------------------------------------------------------------
\* docs/secrets.md: "After the Nth read the version is destroyed and its
\* ciphertext wiped, and the next fetch returns 404."  The read after the
\* one that burned the newest version finds nothing.
NextFetchAfterBurnFindsNothing ==
  [][\A p \in Procs : Consume(p) /\ Stored # {}
                      => status[LastOf(Stored)] # "burned"]_vars
=============================================================================
