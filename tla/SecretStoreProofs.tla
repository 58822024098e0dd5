--------------------------- MODULE SecretStoreProofs ---------------------------
(***************************************************************************)
(* Theorems about SecretStore, for any requests and bounds.                *)
(***************************************************************************)
EXTENDS SecretStore, Integers, FiniteSetTheorems, WellFoundedInduction, TLAPS

\* Who is about to insert found every lower number taken.
Numbered ==
  \A p \in Procs : op[p].step = "insert" =>
    /\ op[p].ver \in 1..(MaxVersion + 1)
    /\ 1..(op[p].ver - 1) \subseteq Stored

\* What was never written has never been read.
Unread == \A v \in Version \ Stored : delivered[v] = 0

\* The inductive strengthening of TypeOK, ReadsAccounted and VersionsContiguous.
Kept == TypeOK /\ ReadsAccounted /\ VersionsContiguous /\ Numbered /\ Unread

-----------------------------------------------------------------------------
(* The last version of a set                                                *)

LEMMA Less == IsWellFoundedOn({ss \in Nat \X Nat : ss[1] < ss[2]}, Nat)
BY NatLessThanWellFounded DEF OpToRel

\* LastOf finds what it looks for.
LEMMA LastExists ==
  ASSUME NEW S \in SUBSET Version, S # {}
  PROVE  LastOf(S) \in S /\ \A w \in S : w <= LastOf(S)
<1> DEFINE R == {ss \in Nat \X Nat : ss[1] < ss[2]}
           T == {MaxVersion - v : v \in S}
<1>0. MaxVersion \in Nat /\ \A v \in S : v \in Nat /\ v <= MaxVersion
  BY BoundsAssumption DEF Version
<1>1. T \subseteq Nat
  BY <1>0
<1>2. T # {}
  OBVIOUS
<1>3. IsWellFoundedOn(R, Nat)
  BY Less
<1>4. \E x \in T : \A y \in T : ~(<<y, x>> \in R)
  <2> HIDE DEF R, T
  <2> QED
    BY <1>1, <1>2, <1>3, WFMin
<1>5. PICK v \in S : \A y \in T : ~(<<y, MaxVersion - v>> \in R)
  BY <1>4
<1>6. ASSUME NEW w \in S PROVE w <= v
  <2>1. MaxVersion - w \in T /\ MaxVersion - w \in Nat /\ MaxVersion - v \in Nat
    BY <1>0
  <2>2. ~(MaxVersion - w < MaxVersion - v)
    BY <1>5, <2>1
  <2> QED
    BY <1>0, <2>2
<1> QED
  BY <1>6 DEF LastOf

-----------------------------------------------------------------------------
(* Requests                                                                 *)

LEMMA WayFinite ==
  /\ \A v : IsFiniteSet(OnTheWay(v)) /\ Cardinality(OnTheWay(v)) \in Nat
  /\ \A v : IsFiniteSet(OnTheWay(v)') /\ Cardinality(OnTheWay(v)') \in Nat
BY ProcsAssumption, FS_Subset, FS_CardinalityType DEF OnTheWay

\* A request that does not answer a read afterwards leaves no more answers on
\* their way than before.
LEMMA WayShrinks ==
  ASSUME TypeOK, NEW p \in Procs, NEW r \in Request, r.step # "respond",
         op' = [op EXCEPT ![p] = r]
  PROVE  \A v : Cardinality(OnTheWay(v))' <= Cardinality(OnTheWay(v))
<1>1. \A v : OnTheWay(v)' \subseteq OnTheWay(v)
  BY DEF OnTheWay, TypeOK
<1> QED
  BY <1>1, WayFinite, FS_Subset

\* One request moves on, to r, and the versions stay stored.
LEMMA OneMoves ==
  ASSUME Kept, NEW p \in Procs, NEW r \in Request, op' = [op EXCEPT ![p] = r],
         r.step = "respond" => r.ver \in Stored',
         r.step = "insert" => /\ r.ver \in 1..(MaxVersion + 1)
                              /\ 1..(r.ver - 1) \subseteq Stored',
         Stored \subseteq Stored'
  PROVE  /\ op' \in [Procs -> Request]
         /\ \A q \in Procs : op'[q].step = "respond" => op'[q].ver \in Stored'
         /\ Numbered'
<1>1. /\ op' \in [Procs -> Request] /\ op'[p] = r
      /\ \A q \in Procs \ {p} : op'[q] = op[q]
  BY DEF Kept, TypeOK
<1>2. \A q \in Procs : op'[q].step = "respond" => op'[q].ver \in Stored'
  BY <1>1 DEF Kept, TypeOK
<1>3. ASSUME NEW q \in Procs, op'[q].step = "insert"
      PROVE  /\ op'[q].ver \in 1..(MaxVersion + 1)
             /\ 1..(op'[q].ver - 1) \subseteq Stored'
  <2>1. CASE q = p
    BY <1>1, <1>3, <2>1
  <2>2. CASE q # p
    <3>1. /\ op[q].ver \in 1..(MaxVersion + 1)
          /\ 1..(op[q].ver - 1) \subseteq Stored
      BY <1>1, <1>3, <2>2 DEF Kept, Numbered
    <3> QED
      BY <1>1, <2>2, <3>1
  <2> QED
    BY <2>1, <2>2
<1> QED
  BY <1>1, <1>2, <1>3 DEF Numbered

LEMMA IdleRequest == Idle \in Request /\ Idle.step = "idle"
BY BoundsAssumption DEF Idle, Request, Cap, Unlimited

\* A step of one request that neither writes rows nor hands anything out.
LEMMA OnlyOneMoves ==
  ASSUME Kept, NEW p \in Procs, NEW r \in Request, op' = [op EXCEPT ![p] = r],
         r.step # "respond",
         r.step = "insert" => /\ r.ver \in 1..(MaxVersion + 1)
                              /\ 1..(r.ver - 1) \subseteq Stored,
         UNCHANGED <<rows, delivered>>
  PROVE  Kept'
<1>1. /\ status' = status /\ cap' = cap /\ count' = count /\ delivered' = delivered
      /\ Stored' = Stored
  BY DEF rows, Stored
<1>2. /\ op' \in [Procs -> Request]
      /\ \A q \in Procs : op'[q].step = "respond" => op'[q].ver \in Stored'
      /\ Numbered'
  BY <1>1, OneMoves
<1>3. TypeOK'
  BY <1>1, <1>2 DEF Kept, TypeOK
<1>4. ASSUME NEW v \in Version
      PROVE  delivered'[v] + Cardinality(OnTheWay(v))' <= count'[v]
  <2>1. delivered[v] + Cardinality(OnTheWay(v)) <= count[v]
        /\ delivered[v] \in Nat /\ count[v] \in Nat
    BY BoundsAssumption DEF Kept, ReadsAccounted, TypeOK
  <2>2. Cardinality(OnTheWay(v))' <= Cardinality(OnTheWay(v))
    BY WayShrinks DEF Kept
  <2>3. Cardinality(OnTheWay(v))' \in Nat /\ Cardinality(OnTheWay(v)) \in Nat
    BY WayFinite
  <2> QED
    BY <1>1, <2>1, <2>2, <2>3
<1>5. ReadsAccounted'
  BY <1>1, <1>4 DEF Kept, ReadsAccounted
<1> QED
  BY <1>1, <1>2, <1>3, <1>5 DEF Kept, VersionsContiguous, Unread

-----------------------------------------------------------------------------
(* The steps                                                                *)

LEMMA InitKept == Init => Kept
<1> SUFFICES ASSUME Init PROVE Kept
  OBVIOUS
<1>1. Stored = {}
  BY DEF Init, Stored
<1>2. TypeOK
  BY <1>1, IdleRequest, BoundsAssumption DEF Init, TypeOK, Status, Cap
<1>3. \A v : Cardinality(OnTheWay(v)) = 0
  <2>1. \A v : OnTheWay(v) = {}
    BY IdleRequest DEF Init, OnTheWay
  <2> QED
    BY <2>1, FS_EmptySet
<1>4. ReadsAccounted
  BY <1>3 DEF Init, ReadsAccounted
<1> QED
  BY <1>1, <1>2, <1>4, IdleRequest DEF Kept, VersionsContiguous, Numbered, Unread,
                                       Init

LEMMA WriteNumberKept ==
  ASSUME Kept, NEW p \in Procs, NEW c \in Cap, WriteNumber(p, c) PROVE Kept'
<1> DEFINE next == IF Stored = {} THEN 1 ELSE LastOf(Stored) + 1
           r == [step |-> "insert", ver |-> next, cap |-> c]
<1>1. Stored \subseteq Version /\ MaxVersion \in Nat \ {0}
  BY BoundsAssumption DEF Stored
<1>2. next \in 1..(MaxVersion + 1) /\ 1..(next - 1) \subseteq Stored
  <2>1. CASE Stored = {}
    BY <1>1, <2>1
  <2>2. CASE Stored # {}
    <3>1. LastOf(Stored) \in Stored
      BY <1>1, <2>2, LastExists
    <3>2. LastOf(Stored) \in 1..MaxVersion
      BY <1>1, <3>1 DEF Version
    <3>3. 1..LastOf(Stored) \subseteq Stored
      BY <1>1, <3>1 DEF Kept, VersionsContiguous
    <3>4. next = LastOf(Stored) + 1
      BY <2>2
    <3> QED
      BY <1>1, <3>2, <3>3, <3>4
  <2> QED
    BY <2>1, <2>2
<1>3. op' = [op EXCEPT ![p] = r] /\ UNCHANGED <<rows, delivered>>
  BY DEF WriteNumber
<1> HIDE DEF next
<1>4. r \in Request
  BY <1>1, <1>2 DEF Request
<1> QED
  BY <1>2, <1>3, <1>4, OnlyOneMoves

LEMMA WriteInsertKept ==
  ASSUME Kept, NEW p \in Procs, WriteInsert(p) PROVE Kept'
<1> DEFINE v == op[p].ver
<1>1. v \in Version \ Stored /\ op[p].cap \in Cap /\ 1..(v - 1) \subseteq Stored
      /\ v \in Nat
  BY DEF WriteInsert, Accepted, Kept, TypeOK, Request, Numbered, Version
<1>2. /\ status' = [status EXCEPT ![v] = "live"]
      /\ cap' = [cap EXCEPT ![v] = op[p].cap]
      /\ count' = [count EXCEPT ![v] = 0]
      /\ op' = [op EXCEPT ![p] = Idle]
      /\ delivered' = delivered
  BY DEF WriteInsert
<1>3. Stored' = Stored \cup {v}
  BY <1>1, <1>2 DEF Stored, Kept, TypeOK
<1>4. /\ op' \in [Procs -> Request]
      /\ \A q \in Procs : op'[q].step = "respond" => op'[q].ver \in Stored'
      /\ Numbered'
  BY <1>2, <1>3, IdleRequest, OneMoves
<1>5. TypeOK'
  BY <1>1, <1>2, <1>4, BoundsAssumption DEF Kept, TypeOK, Status
<1>6. ASSUME NEW w \in Version
      PROVE  delivered'[w] + Cardinality(OnTheWay(w))' <= count'[w]
  <2>1. delivered[w] + Cardinality(OnTheWay(w)) <= count[w]
        /\ delivered[w] \in Nat /\ count[w] \in Nat
    BY BoundsAssumption DEF Kept, ReadsAccounted, TypeOK
  <2>2. Cardinality(OnTheWay(w))' <= Cardinality(OnTheWay(w))
    BY <1>2, WayShrinks, IdleRequest DEF Kept
  <2>3. Cardinality(OnTheWay(w))' \in Nat /\ Cardinality(OnTheWay(w)) \in Nat
    BY WayFinite
  <2>4. CASE w # v
    BY <1>2, <2>1, <2>2, <2>3, <2>4 DEF Kept, TypeOK
  <2>5. CASE w = v
    <3>1. OnTheWay(w) = {} /\ delivered[w] = 0
      BY <1>1, <2>5 DEF Kept, TypeOK, OnTheWay, Unread
    <3>2. Cardinality(OnTheWay(w)) = 0
      BY <3>1, FS_EmptySet
    <3>3. count'[w] = 0
      BY <1>1, <1>2, <2>5 DEF Kept, TypeOK
    <3> QED
      BY <1>2, <2>2, <2>3, <3>1, <3>2, <3>3
  <2> QED
    BY <2>4, <2>5
<1>7. ReadsAccounted'
  <2>1. ASSUME NEW w \in Version, w # v
        PROVE  status'[w] = status[w] /\ cap'[w] = cap[w] /\ count'[w] = count[w]
    BY <1>2, <2>1 DEF Kept, TypeOK
  <2>2. status'[v] = "live" /\ count'[v] = 0 /\ cap'[v] \in Cap
    BY <1>1, <1>2 DEF Kept, TypeOK
  <2>3. cap'[v] # Unlimited => 0 < cap'[v]
    BY <2>2 DEF Cap, Unlimited
  <2>4. ASSUME NEW w \in Version
        PROVE  /\ cap'[w] # Unlimited => count'[w] <= cap'[w]
               /\ status'[w] = "burned" =>
                    cap'[w] # Unlimited /\ count'[w] = cap'[w]
               /\ status'[w] = "live" /\ cap'[w] # Unlimited =>
                    count'[w] < cap'[w]
    <3>1. CASE w = v
      BY <2>2, <2>3, <3>1 DEF Cap, Unlimited
    <3>2. CASE w # v
      BY <2>1, <3>2 DEF Kept, ReadsAccounted
    <3> QED
      BY <3>1, <3>2
  <2> QED
    BY <1>6, <2>4 DEF ReadsAccounted
<1>8. VersionsContiguous'
  <2> SUFFICES ASSUME NEW w \in Stored' PROVE 1..w \subseteq Stored'
    BY DEF VersionsContiguous
  <2>1. CASE w = v
    BY <1>1, <1>3, <2>1
  <2>2. CASE w # v
    BY <1>3, <2>2 DEF Kept, VersionsContiguous, Stored
  <2> QED
    BY <2>1, <2>2
<1>9. Unread'
  BY <1>2, <1>3 DEF Kept, Unread
<1> QED
  BY <1>4, <1>5, <1>7, <1>8, <1>9 DEF Kept

LEMMA ConsumeKept ==
  ASSUME Kept, NEW p \in Procs, Consume(p) PROVE Kept'
<1> DEFINE v == LastOf(Live)
           r == [step |-> "respond", ver |-> v, cap |-> 0]
<1>1. v \in Live /\ v \in Version /\ MaxVersion \in Nat /\ MaxReads \in Nat
  <2>1. Live \in SUBSET Version /\ Live # {}
    BY DEF Consume, Live
  <2> QED
    BY <2>1, LastExists, BoundsAssumption
<1> HIDE DEF v
<1>2. /\ op[p] = Idle /\ count[v] < MaxReads
      /\ count' = [count EXCEPT ![v] = @ + 1]
      /\ status' = IF LastRead(v) THEN [status EXCEPT ![v] = "burned"] ELSE status
      /\ op' = [op EXCEPT ![p] = r]
      /\ cap' = cap /\ delivered' = delivered
  BY DEF Consume, v
<1>3. Stored' = Stored /\ v \in Stored
  BY <1>1, <1>2 DEF Stored, Live, Kept, TypeOK
<1>4. r \in Request
  BY <1>1 DEF Request, Version, Cap, Unlimited
<1>5. /\ op' \in [Procs -> Request]
      /\ \A q \in Procs : op'[q].step = "respond" => op'[q].ver \in Stored'
      /\ Numbered'
  BY <1>2, <1>3, <1>4, OneMoves
<1>6. /\ count' \in [Version -> 0..MaxReads]
      /\ count[v] \in Nat /\ count'[v] = count[v] + 1
      /\ \A w \in Version \ {v} : count'[w] = count[w]
  BY <1>1, <1>2 DEF Kept, TypeOK
<1>7. status' \in [Version -> Status]
  BY <1>1, <1>2 DEF Kept, TypeOK, Status
<1>8. TypeOK'
  BY <1>2, <1>5, <1>6, <1>7 DEF Kept, TypeOK
<1>9. ASSUME NEW w \in Version
      PROVE  delivered'[w] + Cardinality(OnTheWay(w))' <= count'[w]
  <2>1. /\ delivered[w] + Cardinality(OnTheWay(w)) <= count[w]
        /\ delivered[w] \in Nat /\ count[w] \in Nat
        /\ Cardinality(OnTheWay(w)) \in Nat /\ IsFiniteSet(OnTheWay(w))
    BY <1>1, WayFinite DEF Kept, ReadsAccounted, TypeOK
  <2>2. CASE w = v
    <3>1. OnTheWay(w)' = OnTheWay(w) \cup {p}
      BY <1>2, <2>2 DEF OnTheWay, Kept, TypeOK
    <3>2. p \notin OnTheWay(w)
      BY <1>2, IdleRequest DEF OnTheWay
    <3>3. Cardinality(OnTheWay(w)') = Cardinality(OnTheWay(w)) + 1
      BY <2>1, <3>1, <3>2, FS_AddElement
    <3> QED
      BY <1>2, <1>6, <2>1, <2>2, <3>3
  <2>3. CASE w # v
    <3>1. OnTheWay(w)' = OnTheWay(w)
      BY <1>2, <2>3, IdleRequest DEF OnTheWay, Kept, TypeOK
    <3> QED
      BY <1>2, <1>6, <2>1, <2>3, <3>1
  <2> QED
    BY <2>2, <2>3
<1>10. ReadsAccounted'
  <2>1. ASSUME NEW w \in Version \ {v}
        PROVE  status'[w] = status[w] /\ count'[w] = count[w]
    BY <1>2, <1>6, <2>1 DEF Kept, TypeOK
  <2>2. /\ cap[v] \in Nat /\ status[v] = "live"
        /\ cap[v] # Unlimited => count[v] < cap[v]
    BY <1>1 DEF Kept, TypeOK, ReadsAccounted, Live, Cap, Unlimited
  <2>3. /\ LastRead(v) => status'[v] = "burned"
        /\ ~LastRead(v) => status'[v] = "live"
    BY <1>1, <1>2, <2>2 DEF Kept, TypeOK
  <2>4. ASSUME NEW w \in Version
        PROVE  /\ cap'[w] # Unlimited => count'[w] <= cap'[w]
               /\ status'[w] = "burned" =>
                    cap'[w] # Unlimited /\ count'[w] = cap'[w]
               /\ status'[w] = "live" /\ cap'[w] # Unlimited =>
                    count'[w] < cap'[w]
    <3>1. CASE w = v
      BY <1>2, <1>6, <2>2, <2>3, <3>1 DEF LastRead
    <3>2. CASE w # v
      BY <1>2, <2>1, <3>2 DEF Kept, ReadsAccounted
    <3> QED
      BY <3>1, <3>2
  <2> QED
    BY <1>9, <2>4 DEF ReadsAccounted
<1> QED
  BY <1>2, <1>3, <1>5, <1>8, <1>10 DEF Kept, VersionsContiguous, Unread

LEMMA RespondKept ==
  ASSUME Kept, NEW p \in Procs, Respond(p) PROVE Kept'
<1> DEFINE v == op[p].ver
<1>1. /\ op[p].step = "respond" /\ v \in Stored /\ v \in Version
      /\ op' = [op EXCEPT ![p] = Idle]
      /\ delivered' = [delivered EXCEPT ![v] = @ + 1]
      /\ status' = status /\ cap' = cap /\ count' = count
      /\ MaxReads \in Nat
  BY BoundsAssumption DEF Respond, rows, Kept, TypeOK, Stored
<1>2. Stored' = Stored
  BY <1>1 DEF Stored
<1>3. /\ op' \in [Procs -> Request]
      /\ \A q \in Procs : op'[q].step = "respond" => op'[q].ver \in Stored'
      /\ Numbered'
  BY <1>1, <1>2, IdleRequest, OneMoves
<1>4. ASSUME NEW w \in Version
      PROVE  /\ delivered'[w] + Cardinality(OnTheWay(w))' <= count'[w]
             /\ delivered'[w] \in 0..MaxReads
  <2>1. /\ delivered[w] + Cardinality(OnTheWay(w)) <= count[w]
        /\ delivered[w] \in Nat /\ count[w] \in 0..MaxReads
        /\ Cardinality(OnTheWay(w)) \in Nat /\ IsFiniteSet(OnTheWay(w))
        /\ Cardinality(OnTheWay(w)') \in Nat
    BY <1>1, WayFinite DEF Kept, ReadsAccounted, TypeOK
  <2>2. CASE w = v
    <3>1. OnTheWay(w)' = OnTheWay(w) \ {p} /\ p \in OnTheWay(w)
      BY <1>1, <2>2, IdleRequest DEF OnTheWay, Kept, TypeOK
    <3>2. Cardinality(OnTheWay(w)') = Cardinality(OnTheWay(w)) - 1
      BY <2>1, <3>1, FS_RemoveElement
    <3>3. delivered'[w] = delivered[w] + 1
      BY <1>1, <2>2 DEF Kept, TypeOK
    <3> QED
      BY <1>1, <2>1, <3>2, <3>3
  <2>3. CASE w # v
    <3>1. OnTheWay(w)' = OnTheWay(w)
      BY <1>1, <2>3, IdleRequest DEF OnTheWay, Kept, TypeOK
    <3>2. delivered'[w] = delivered[w]
      BY <1>1, <2>3 DEF Kept, TypeOK
    <3> QED
      BY <1>1, <2>1, <3>1, <3>2
  <2> QED
    BY <2>2, <2>3
<1>5. ReadsAccounted'
  BY <1>1, <1>4 DEF Kept, ReadsAccounted
<1>6. delivered' \in [Version -> 0..MaxReads]
  <2>1. DOMAIN delivered' = Version /\ delivered' = [w \in Version |-> delivered'[w]]
    BY <1>1 DEF Kept, TypeOK
  <2> QED
    BY <1>4, <2>1
<1>7. TypeOK'
  BY <1>1, <1>3, <1>6 DEF Kept, TypeOK
<1>8. Unread'
  BY <1>1, <1>2 DEF Kept, TypeOK, Unread
<1> QED
  BY <1>2, <1>3, <1>5, <1>7, <1>8 DEF Kept, VersionsContiguous

\* soft_delete and delete_path.
LEMMA DeleteKept ==
  ASSUME Kept, SoftDelete \/ DeletePath PROVE Kept'
<1>1. /\ status' \in [Version -> Status]
      /\ \A v \in Version :
           \/ status'[v] = status[v]
           \/ status[v] = "live" /\ status'[v] = "deleted"
  <2>1. CASE SoftDelete
    <3>1. LastOf(Live) \in Live
      BY <2>1, LastExists DEF SoftDelete, Live
    <3> QED
      BY <2>1, <3>1 DEF SoftDelete, Live, Kept, TypeOK, Status
  <2>2. CASE DeletePath
    BY <2>2 DEF DeletePath, Live, Kept, TypeOK, Status
  <2> QED
    BY <2>1, <2>2
<1>2. cap' = cap /\ count' = count /\ op' = op /\ delivered' = delivered
  BY DEF SoftDelete, DeletePath
<1>3. Stored' = Stored /\ \A v : OnTheWay(v)' = OnTheWay(v)
  BY <1>1, <1>2 DEF Stored, OnTheWay
<1>4. TypeOK'
  BY <1>1, <1>2, <1>3 DEF Kept, TypeOK
<1>5. ReadsAccounted'
  BY <1>1, <1>2, <1>3 DEF Kept, ReadsAccounted
<1> QED
  BY <1>2, <1>3, <1>4, <1>5 DEF Kept, VersionsContiguous, Numbered, Unread

LEMMA NextKept == Kept /\ [Next]_vars => Kept'
<1> SUFFICES ASSUME Kept, [Next]_vars PROVE Kept'
  OBVIOUS
<1>1. ASSUME NEW p \in Procs, WriteConflict(p) \/ Abort(p) PROVE Kept'
  BY <1>1, IdleRequest, OnlyOneMoves DEF WriteConflict, Abort
<1>2. ASSUME NEW p \in Procs, Respond(p) PROVE Kept'
  BY <1>2, RespondKept
<1>3. ASSUME NEW p \in Procs, Consume(p) PROVE Kept'
  BY <1>3, ConsumeKept
<1>4. ASSUME NEW p \in Procs, WriteInsert(p) PROVE Kept'
  BY <1>4, WriteInsertKept
<1>5. ASSUME NEW p \in Procs, NEW c \in Cap, WriteNumber(p, c) PROVE Kept'
  BY <1>5, WriteNumberKept
<1>6. CASE SoftDelete \/ DeletePath
  BY <1>6, DeleteKept
<1>7. CASE UNCHANGED vars
  <2>1. Stored' = Stored /\ \A v : OnTheWay(v)' = OnTheWay(v)
    BY <1>7 DEF vars, rows, Stored, OnTheWay
  <2> QED
    BY <1>7, <2>1 DEF vars, rows, Kept, TypeOK, ReadsAccounted,
                      VersionsContiguous, Numbered, Unread
<1> QED
  BY <1>1, <1>2, <1>3, <1>4, <1>5, <1>6, <1>7 DEF Next

LEMMA AlwaysKept == Spec => []Kept
BY InitKept, NextKept, PTL DEF Spec

-----------------------------------------------------------------------------
\* Every variable has its type, and who answers a read names a stored version.
THEOREM TypeCorrect == Spec => []TypeOK
<1>1. Kept => TypeOK
  BY DEF Kept
<1> QED
  BY <1>1, AlwaysKept, PTL

\* Reads handed out are counted, and limits hold (read_and_consume).
THEOREM Accounted == Spec => []ReadsAccounted
<1>1. Kept => ReadsAccounted
  BY DEF Kept
<1> QED
  BY <1>1, AlwaysKept, PTL

\* Version numbers have no holes (write).
THEOREM Contiguous == Spec => []VersionsContiguous
<1>1. Kept => VersionsContiguous
  BY DEF Kept
<1> QED
  BY <1>1, AlwaysKept, PTL

\* What is stored stays as it was written (write, consume, deletes).
LEMMA HistoryStep ==
  ASSUME Kept, [Next]_vars, NEW v \in Stored
  PROVE  /\ cap'[v] = cap[v] /\ count'[v] >= count[v]
         /\ \/ status'[v] = status[v]
            \/ status[v] = "live" /\ status'[v] # "none"
<1> DEFINE Goal == /\ cap'[v] = cap[v] /\ count'[v] >= count[v]
                   /\ \/ status'[v] = status[v]
                      \/ status[v] = "live" /\ status'[v] # "none"
<1>0. v \in Version /\ count[v] \in Nat
  BY BoundsAssumption DEF Stored, Kept, TypeOK
<1>1. CASE UNCHANGED rows
  BY <1>0, <1>1 DEF rows
<1>2. ASSUME NEW p \in Procs, WriteInsert(p) PROVE Goal
  <2>1. op[p].ver # v
    BY <1>2 DEF WriteInsert, Accepted
  <2> QED
    BY <1>0, <1>2, <2>1 DEF WriteInsert, Kept, TypeOK
<1>3. ASSUME NEW p \in Procs, Consume(p) PROVE Goal
  <2>1. LastOf(Live) \in Live
    BY <1>3, LastExists DEF Consume, Live
  <2> QED
    BY <1>0, <1>3, <2>1 DEF Consume, Kept, TypeOK, Live
<1>4. CASE SoftDelete
  <2>1. LastOf(Live) \in Live
    BY <1>4, LastExists DEF SoftDelete, Live
  <2> QED
    BY <1>0, <1>4, <2>1 DEF SoftDelete, Kept, TypeOK, Live
<1>5. CASE DeletePath
  BY <1>0, <1>5 DEF DeletePath, Live
<1>6. CASE UNCHANGED vars
  BY <1>1, <1>6 DEF vars
<1> QED
  BY <1>1, <1>2, <1>3, <1>4, <1>5, <1>6
     DEF Next, WriteNumber, WriteConflict, Respond, Abort

\* A stored version is never overwritten and never comes back (secrets.rs).
THEOREM History == Spec => HistoryPreserved
<1>1. Kept /\ [Next]_vars =>
        [\A v \in Stored : /\ cap'[v] = cap[v] /\ count'[v] >= count[v]
                           /\ \/ status'[v] = status[v]
                              \/ status[v] = "live" /\ status'[v] # "none"]_vars
  BY HistoryStep
<1> QED
  BY <1>1, AlwaysKept, PTL DEF Spec, HistoryPreserved

-----------------------------------------------------------------------------
(* The log                                                                  *)

Interval == Cardinality(Stored) \in Nat /\ Stored = 1..Cardinality(Stored)

LEMMA StoredIsInterval == Kept => Interval
<1> SUFFICES ASSUME Kept PROVE Interval
  OBVIOUS
<1> USE DEF Interval
<1>1. Stored \in SUBSET Version /\ MaxVersion \in Nat
  BY BoundsAssumption DEF Stored
<1>2. CASE Stored = {}
  BY <1>2, FS_EmptySet
<1>3. CASE Stored # {}
  <2> DEFINE n == LastOf(Stored)
  <2>1. n \in Stored /\ \A w \in Stored : w <= n
    BY <1>1, <1>3, LastExists
  <2> HIDE DEF n
  <2>2. n \in Version /\ n \in Nat \ {0}
    BY <1>1, <2>1 DEF Version
  <2>3. 1..n \subseteq Stored
    BY <2>1, <2>2 DEF Kept, VersionsContiguous
  <2>4. Stored \subseteq 1..n
    BY <1>1, <2>1, <2>2 DEF Version
  <2>5. Stored = 1..n
    BY <2>3, <2>4
  <2>6. Cardinality(1..n) = n
    BY <2>2, FS_Interval
  <2> QED
    BY <2>2, <2>5, <2>6
<1> QED
  BY <1>2, <1>3

LEMMA LogInit == Init => Log!Init
<1> SUFFICES ASSUME Init PROVE Log!Init
  OBVIOUS
<1>1. Stored = {}
  BY DEF Init, Stored
<1>2. Cardinality(Stored) = 0
  BY <1>1, FS_EmptySet
<1>3. 1..0 = {}
  OBVIOUS
<1>4. \A f : StoredSeq(f) = << >>
  BY <1>2, <1>3 DEF StoredSeq
<1> QED
  BY <1>4 DEF Log!Init

LEMMA StaysInterval == Kept' => Interval'
BY StoredIsInterval, PTL

\* An INSERT appends to the log; a response hands a version out.
LEMMA LogInsert ==
  ASSUME Kept, Kept', NEW p \in Procs, WriteInsert(p) PROVE Log!AppendVersion
<1> DEFINE n == Cardinality(Stored)
           v == op[p].ver
<1>1. n \in Nat /\ Stored = 1..n
  BY StoredIsInterval DEF Interval
<1>2. v \in Version \ Stored /\ op[p].cap \in Cap /\ v \in Nat
  BY DEF WriteInsert, Accepted, Kept, TypeOK, Request, Version
<1>3. Stored' = Stored \cup {v}
  BY <1>2 DEF WriteInsert, Stored, Kept, TypeOK
<1>4. IsFiniteSet(Stored)
  BY <1>1, FS_Interval
<1>5. Cardinality(Stored') = n + 1
  BY <1>2, <1>3, <1>4, FS_AddElement
<1>6. Stored' = 1..(n + 1)
  BY <1>5, StaysInterval DEF Interval
<1>7. v = n + 1
  BY <1>1, <1>2, <1>3, <1>6
<1>8. /\ cap' = [cap EXCEPT ![n + 1] = op[p].cap] /\ delivered' = delivered
      /\ n + 1 \in Version /\ Stored \subseteq Version /\ delivered[n + 1] = 0
  BY <1>2, <1>7 DEF WriteInsert, Kept, Unread, Stored
<1>9. cap \in [Version -> Cap]
  BY DEF Kept, TypeOK
<1> HIDE DEF n
<1>10. /\ StoredSeq(cap) = [w \in 1..n |-> cap[w]]
       /\ StoredSeq(cap)' = [w \in 1..(n + 1) |-> cap'[w]]
       /\ StoredSeq(delivered) = [w \in 1..n |-> delivered[w]]
       /\ StoredSeq(delivered)' = [w \in 1..(n + 1) |-> delivered[w]]
  BY <1>5, <1>8 DEF StoredSeq, n
<1>11. StoredSeq(cap)' = Append(StoredSeq(cap), op[p].cap)
  <2>1. cap'[n + 1] = op[p].cap /\ \A w \in 1..n : cap'[w] = cap[w]
    BY <1>1, <1>8, <1>9
  <2>2. Append(StoredSeq(cap), op[p].cap) =
          [w \in 1..(n + 1) |-> IF w = n + 1 THEN op[p].cap ELSE cap[w]]
    BY <1>1, <1>10
  <2> QED
    BY <1>1, <1>10, <2>1, <2>2
<1>12. StoredSeq(delivered)' = Append(StoredSeq(delivered), 0)
  BY <1>1, <1>8, <1>10
<1> QED
  BY <1>2, <1>11, <1>12 DEF Log!AppendVersion

LEMMA LogRespond ==
  ASSUME Kept, NEW p \in Procs, Respond(p) PROVE Log!HandOut
<1> DEFINE n == Cardinality(Stored)
           v == op[p].ver
<1>1. n \in Nat /\ Stored = 1..n
  BY StoredIsInterval DEF Interval
<1>2. /\ op[p].step = "respond" /\ v \in Stored /\ v \in Version
      /\ delivered' = [delivered EXCEPT ![v] = @ + 1]
      /\ status' = status /\ cap' = cap
      /\ delivered \in [Version -> 0..MaxReads]
  BY DEF Respond, rows, Kept, TypeOK, Stored
<1>3. Stored' = Stored
  BY <1>2 DEF Stored
<1>4. cap[v] = Unlimited \/ delivered[v] < cap[v]
  <2>1. Cardinality(OnTheWay(v)) >= 1
    <3>1. p \in OnTheWay(v)
      BY <1>2 DEF OnTheWay
    <3>2. OnTheWay(v) # {}
      BY <3>1
    <3> QED
      BY <3>2, WayFinite, FS_EmptySet
  <2>2. /\ Cardinality(OnTheWay(v)) \in Nat /\ delivered[v] \in Nat
        /\ count[v] \in Nat /\ cap[v] \in Nat
    BY <1>2, WayFinite, BoundsAssumption DEF Kept, TypeOK, Cap, Unlimited
  <2>3. /\ delivered[v] + Cardinality(OnTheWay(v)) <= count[v]
        /\ cap[v] # Unlimited => count[v] <= cap[v]
    BY <1>2 DEF Kept, ReadsAccounted
  <2> QED
    BY <2>1, <2>2, <2>3
<1>5. /\ StoredSeq(cap) = [w \in 1..n |-> cap[w]] /\ StoredSeq(cap)' = StoredSeq(cap)
      /\ StoredSeq(delivered) = [w \in 1..n |-> delivered[w]]
      /\ StoredSeq(delivered)' = [w \in 1..n |-> delivered'[w]]
  BY <1>2, <1>3 DEF StoredSeq
<1>6. DOMAIN StoredSeq(cap) = Stored
  BY <1>1, <1>5
<1>7. StoredSeq(cap)[v] = cap[v] /\ StoredSeq(delivered)[v] = delivered[v]
  BY <1>1, <1>2, <1>5
<1>8. StoredSeq(delivered)' = [StoredSeq(delivered) EXCEPT ![v] = @ + 1]
  <2>1. \A w \in 1..n : delivered'[w] = IF w = v THEN delivered[v] + 1 ELSE delivered[w]
    BY <1>1, <1>2 DEF Stored
  <2> HIDE DEF n, v
  <2> QED
    BY <1>1, <1>2, <1>5, <2>1
<1> QED
  <2>1. StoredSeq(cap)[v] = 0 \/ StoredSeq(delivered)[v] < StoredSeq(cap)[v]
    BY <1>4, <1>7 DEF Unlimited
  <2>2. v \in DOMAIN StoredSeq(cap)
    BY <1>2, <1>6
  <2> HIDE DEF v
  <2> QED
    BY <1>5, <1>8, <2>1, <2>2 DEF Log!HandOut, Log!Unlimited

LEMMA LogStep == Kept /\ Kept' /\ [Next]_vars => [Log!Next]_(Log!vars)
<1> SUFFICES ASSUME Kept, Kept', [Next]_vars PROVE [Log!Next]_(Log!vars)
  OBVIOUS
<1> DEFINE Same == UNCHANGED Log!vars
<1>1. ASSUME Stored' = Stored, cap' = cap, delivered' = delivered
      PROVE  Same
  BY <1>1 DEF Log!vars, StoredSeq
<1>2. ASSUME NEW p \in Procs, WriteInsert(p) PROVE Log!Next
  BY <1>2, LogInsert DEF Log!Next
<1>3. ASSUME NEW p \in Procs, Respond(p) PROVE Log!Next
  BY <1>3, LogRespond DEF Log!Next
<1>4. CASE UNCHANGED <<rows, delivered>>
  BY <1>1, <1>4 DEF rows, Stored
<1>5. ASSUME NEW p \in Procs, Consume(p) PROVE Same
  <2>1. LastOf(Live) \in Live
    BY <1>5, LastExists DEF Consume, Live
  <2>2. Stored' = Stored
    BY <1>5, <2>1 DEF Consume, Stored, Live, Kept, TypeOK
  <2> QED
    BY <1>1, <1>5, <2>2 DEF Consume
<1>6. CASE SoftDelete
  <2>1. LastOf(Live) \in Live
    BY <1>6, LastExists DEF SoftDelete, Live
  <2>2. Stored' = Stored
    BY <1>6, <2>1 DEF SoftDelete, Stored, Live, Kept, TypeOK
  <2> QED
    BY <1>1, <1>6, <2>2 DEF SoftDelete
<1>7. CASE DeletePath
  <2>1. Stored' = Stored
    BY <1>7 DEF DeletePath, Stored, Live
  <2> QED
    BY <1>1, <1>7, <2>1 DEF DeletePath
<1>8. CASE UNCHANGED vars
  BY <1>4, <1>8 DEF vars
<1> QED
  BY <1>2, <1>3, <1>4, <1>5, <1>6, <1>7, <1>8
     DEF Next, WriteNumber, WriteConflict, Abort

\* The store implements the append-only log (secrets.rs).
THEOREM RefinesLog == Spec => ImplementsLog
BY LogInit, LogStep, AlwaysKept, PTL DEF Spec, ImplementsLog, Log!Spec
================================================================================
