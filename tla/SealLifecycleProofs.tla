------------------------- MODULE SealLifecycleProofs -------------------------
(***************************************************************************)
(* Theorems about SealLifecycle, for any number of requests in flight and  *)
(* any number of shares and threshold.                                     *)
(***************************************************************************)
EXTENDS SealLifecycle, FiniteSetTheorems, TLAPS

\* What a request may be at: shares are pushed and checked only once there is
\* a master key, and shares are shown by the request whose key was stored.
OpsFit ==
  \A p \in Procs :
    /\ op[p].step \in {"push", "setKey", "clearShares", "markUnsealed", "reject"}
       => Initialized
    /\ At(p, "showShares") => storedKey = p

\* The inductive strengthening of TypeOK and ShownSharesFit.
Fits == TypeOK /\ OpsFit /\ ShownSharesFit

LEMMA InitFits == Init => Fits
<1> SUFFICES ASSUME Init PROVE Fits
  OBVIOUS
<1>1. Idle \in Request /\ Idle.step = "idle"
  BY DEF Idle, Request, Step, Share, Genuine, BadShare
<1>2. op \in [Procs -> Request] /\ \A p \in Procs : op[p].step = "idle"
  BY <1>1 DEF Init
<1>3. progress \in Seq(Share) /\ Len(progress) <= MaxPending
  BY BoundsAssumption DEF Init
<1> QED
  BY <1>2, <1>3 DEF Init, Fits, TypeOK, OpsFit, ShownSharesFit, At

\* Updating the record of one request.
LEMMA OpUpdate ==
  ASSUME op \in [Procs -> Request], NEW p \in Procs, NEW r \in Request,
         op' = [op EXCEPT ![p] = r]
  PROVE  /\ op' \in [Procs -> Request]
         /\ op'[p] = r
         /\ \A q \in Procs : q # p => op'[q] = op[q]
OBVIOUS

\* Requests at the end of their work, or moving on without the need of a key.
LEMMA FinishFits ==
  ASSUME TypeOK, OpsFit, NEW p \in Procs, Finish(p),
         Initialized => storedKey' = storedKey
  PROVE  op' \in [Procs -> Request] /\ OpsFit'
<1>1. Idle \in Request /\ Idle.step = "idle"
  BY DEF Request, Idle, Step, Share, Genuine, BadShare
<1>2. /\ op' \in [Procs -> Request]
      /\ op'[p] = Idle
      /\ \A q \in Procs : q # p => op'[q] = op[q]
  BY <1>1, OpUpdate DEF Finish, TypeOK
<1>3. \A q \in Procs : storedKey = q => Initialized
  BY NoKeyAssumption DEF Initialized
<1> QED
  BY <1>1, <1>2, <1>3 DEF OpsFit, Initialized, At

\* A request that moves on to a step that its old one allows.
LEMMA GotoFits ==
  ASSUME TypeOK, OpsFit, NEW p \in Procs, NEW step \in Step,
         Goto(p, step) \/ MoveOn(p, step),
         Initialized => storedKey' = storedKey,
         step = "showShares" => storedKey' = p,
         step \in {"push", "setKey", "clearShares", "markUnsealed", "reject"}
         => Initialized
  PROVE  op' \in [Procs -> Request] /\ OpsFit'
<1>1. PICK r \in Request : r.step = step /\ op' = [op EXCEPT ![p] = r]
  <2>1. CASE Goto(p, step)
    <3>1. op[p] \in Request
      BY DEF TypeOK
    <3>2. /\ [op[p] EXCEPT !.step = step] \in Request
          /\ [op[p] EXCEPT !.step = step].step = step
      BY <3>1 DEF Request
    <3>3. op' = [op EXCEPT ![p] = [op[p] EXCEPT !.step = step]]
      BY <2>1 DEF Goto
    <3> QED BY <3>2, <3>3
  <2>2. CASE MoveOn(p, step)
    <3>1. /\ [Idle EXCEPT !.step = step] \in Request
          /\ [Idle EXCEPT !.step = step].step = step
      BY DEF Idle, Request, Share, Genuine, BadShare
    <3> QED BY <2>2, <3>1 DEF MoveOn
  <2> QED BY <2>1, <2>2
<1>2. /\ op' \in [Procs -> Request]
      /\ op'[p] = r
      /\ \A q \in Procs : q # p => op'[q] = op[q]
  BY <1>1, OpUpdate DEF TypeOK
<1>3. \A q \in Procs : storedKey = q => Initialized
  BY NoKeyAssumption DEF Initialized
<1> QED
  BY <1>1, <1>2, <1>3 DEF OpsFit, Initialized, At

\* Every step preserves Fits.
LEMMA StepFits == Fits /\ [Next]_vars => Fits'
<1> SUFFICES ASSUME TypeOK, OpsFit, ShownSharesFit, [Next]_vars PROVE Fits'
  BY DEF Fits
<1> USE DEF dbVars, memVars, histVars
<1> DEFINE OpOK == op' \in [Procs -> Request] /\ OpsFit'
<1>1. ASSUME NEW p \in Procs, InitStep(p) PROVE Fits'
  <2>1. ASSUME InitBegin(p) PROVE Fits'
    <3>1. OpOK
      BY <2>1, GotoFits DEF InitBegin, Step
    <3> QED BY <2>1, <3>1 DEF InitBegin, Fits, TypeOK, ShownSharesFit, Initialized
  <2>2. ASSUME InitInsert(p) PROVE Fits'
    <3>1. storedKey' = p /\ ~Initialized /\ Goto(p, "showShares")
      BY <2>2 DEF InitInsert, RowAccepted
    <3>2. OpOK
      BY <3>1, GotoFits DEF Step
    <3>3. issued = {}
      BY <3>1, NoKeyAssumption DEF ShownSharesFit, TypeOK, Initialized
    <3> QED
      BY <2>2, <3>1, <3>2, <3>3
         DEF InitInsert, Fits, TypeOK, ShownSharesFit, Initialized
  <2>3. ASSUME InitRefused(p) PROVE Fits'
    <3>1. OpOK
      BY <2>3, FinishFits DEF InitRefused
    <3> QED BY <2>3, <3>1 DEF InitRefused, Fits, TypeOK, ShownSharesFit, Initialized
  <2>4. ASSUME ShowShares(p) PROVE Fits'
    <3>1. OpOK
      BY <2>4, FinishFits DEF ShowShares
    <3>2. storedKey = p
      BY <2>4 DEF ShowShares, OpsFit
    <3> QED
      BY <2>4, <3>1, <3>2 DEF ShowShares, Fits, TypeOK, ShownSharesFit, Initialized
  <2> QED BY <1>1, <2>1, <2>2, <2>3, <2>4 DEF InitStep
<1>2. ASSUME NEW p \in Procs, NEW s \in Share, UnsealBegin(p, s) PROVE Fits'
  <2> DEFINE r == [step |-> "push", share |-> s, outdated |-> FALSE]
  <2>1. r \in Request /\ r.step = "push"
    BY DEF Request, Step
  <2>2. op' = [op EXCEPT ![p] = r] /\ Initialized /\ storedKey' = storedKey
    BY <1>2 DEF UnsealBegin, AwaitsShares
  <2> HIDE DEF r
  <2>3. /\ op' \in [Procs -> Request]
        /\ op'[p] = r
        /\ \A q \in Procs : q # p => op'[q] = op[q]
    BY <2>1, <2>2, OpUpdate DEF TypeOK
  <2>4. OpOK
    BY <2>1, <2>2, <2>3 DEF OpsFit, Initialized, At
  <2> QED BY <1>2, <2>4 DEF UnsealBegin, Fits, TypeOK, ShownSharesFit, Initialized
<1>3. ASSUME NEW p \in Procs, UnsealStep(p) PROVE Fits'
  <2>1. ASSUME Push(p) PROVE Fits'
    <3>1. Initialized /\ storedKey' = storedKey
      BY <2>1 DEF Push, OpsFit, At
    <3>2. OpOK
      BY <2>1, <3>1, FinishFits, GotoFits DEF Push, Step
    <3>3. op[p].share \in Share
      BY DEF TypeOK, Request
    <3>4. progress' \in Seq(Share) /\ Len(progress') <= MaxPending
      BY <2>1, <3>3, BoundsAssumption DEF Push, TypeOK
    <3> QED
      BY <2>1, <3>1, <3>2, <3>3, <3>4
         DEF Push, Fits, TypeOK, ShownSharesFit, Initialized
  <2>2. ASSUME SetKey(p) PROVE Fits'
    <3>1. Initialized /\ storedKey' = storedKey
      BY <2>2 DEF SetKey, OpsFit, At
    <3>2. OpOK
      BY <2>2, <3>1, GotoFits DEF SetKey, Step
    <3> QED
      BY <2>2, <3>1, <3>2 DEF SetKey, Fits, TypeOK, ShownSharesFit, Initialized
  <2>3. ASSUME ClearShares(p) PROVE Fits'
    <3>1. Initialized /\ storedKey' = storedKey
      BY <2>3 DEF ClearShares, OpsFit, At
    <3>2. OpOK
      BY <2>3, <3>1, GotoFits DEF ClearShares, Step
    <3> QED
      BY <2>3, <3>1, <3>2, BoundsAssumption
         DEF ClearShares, Fits, TypeOK, ShownSharesFit, Initialized
  <2>4. ASSUME MarkUnsealed(p) PROVE Fits'
    <3>1. OpOK
      BY <2>4, FinishFits DEF MarkUnsealed
    <3> QED
      BY <2>4, <3>1 DEF MarkUnsealed, Fits, TypeOK, ShownSharesFit, Initialized
  <2>5. ASSUME Reject(p) PROVE Fits'
    <3>1. OpOK
      BY <2>5, FinishFits DEF Reject
    <3> QED
      BY <2>5, <3>1, BoundsAssumption
         DEF Reject, AfterRejection, Fits, TypeOK, ShownSharesFit, Initialized
  <2> QED BY <1>3, <2>1, <2>2, <2>3, <2>4, <2>5 DEF UnsealStep
<1>4. ASSUME NEW p \in Procs, SealStep(p) PROVE Fits'
  <2>1. ASSUME SealBegin(p) PROVE Fits'
    <3>1. storedKey' = storedKey /\ unsealed \in BOOLEAN
      BY <2>1 DEF SealBegin, TypeOK
    <3>2. ASSUME NEW q \in Procs
          PROVE  /\ op'[q] \in Request
                 /\ \/ op'[q].step = "dropShares"
                    \/ op'[q].step = op[q].step
      <4>1. op[q] \in Request
        BY DEF TypeOK
      <4>2. [Idle EXCEPT !.step = "dropShares"] \in Request
        BY DEF Idle, Request, Step, Share, Genuine, BadShare
      <4>3. CASE q = p
        BY <2>1, <4>2, <4>3 DEF SealBegin, Idle
      <4>4. CASE q # p
        <5>1. op'[q] = [op[q] EXCEPT !.outdated = @ \/ (unsealed /\ Unsealing(q))]
          BY <2>1, <4>4 DEF SealBegin
        <5> QED BY <4>1, <5>1, Zenon DEF Request
      <4> QED BY <4>3, <4>4
    <3>3. OpOK
      BY <2>1, <3>1, <3>2 DEF SealBegin, OpsFit, Initialized, At
    <3> QED
      BY <2>1, <3>3 DEF SealBegin, Fits, TypeOK, ShownSharesFit, Initialized
  <2>2. ASSUME DropShares(p) PROVE Fits'
    <3>1. OpOK
      BY <2>2, GotoFits DEF DropShares, Step
    <3> QED
      BY <2>2, <3>1, BoundsAssumption
         DEF DropShares, Fits, TypeOK, ShownSharesFit, Initialized
  <2>3. ASSUME MarkSealed(p) PROVE Fits'
    <3>1. OpOK
      BY <2>3, FinishFits DEF MarkSealed
    <3> QED
      BY <2>3, <3>1 DEF MarkSealed, Fits, TypeOK, ShownSharesFit, Initialized
  <2> QED BY <1>4, <2>1, <2>2, <2>3 DEF SealStep
<1>5. ASSUME NEW p \in Procs, Abort(p) PROVE Fits'
  <2>1. OpOK
    BY <1>5, FinishFits DEF Abort
  <2> QED BY <1>5, <2>1 DEF Abort, Fits, TypeOK, ShownSharesFit, Initialized
<1>6. CASE Reset
  BY <1>6, BoundsAssumption
     DEF Reset, Fits, TypeOK, OpsFit, ShownSharesFit, Initialized, At
<1>7. CASE Restart
  <2>1. Idle \in Request /\ Idle.step = "idle"
    BY DEF Idle, Request, Step, Share, Genuine, BadShare
  <2>2. op' \in [Procs -> Request] /\ \A p \in Procs : op'[p].step = "idle"
    BY <1>7, <2>1 DEF Restart
  <2>3. OpsFit'
    BY <2>2 DEF OpsFit, At
  <2>4. progress' \in Seq(Share) /\ Len(progress') <= MaxPending
    BY <1>7, BoundsAssumption DEF Restart
  <2> QED
    BY <1>7, <2>2, <2>3, <2>4
       DEF Restart, Fits, TypeOK, ShownSharesFit, Initialized
<1>8. CASE UNCHANGED vars
  BY <1>8 DEF vars, Fits, TypeOK, OpsFit, ShownSharesFit, Initialized, At
<1> QED
  BY <1>1, <1>2, <1>3, <1>4, <1>5, <1>6, <1>7, <1>8 DEF Next

\* Every variable always has its type, and an instance that was never
\* initialized holds neither key nor shares (state.rs, AppState).
THEOREM TypeCorrect == Spec => []TypeOK
BY InitFits, StepFits, PTL DEF Spec, Fits

\* Only the init request whose row was stored ever shows shares (sys.rs,
\* perform_init).
THEOREM ShownSharesRecover == Spec => []ShownSharesFit
BY InitFits, StepFits, PTL DEF Spec, Fits

\* No step replaces a stored master key (sys.rs, perform_init).
THEOREM MasterKeyPermanent == Spec => MasterKeyStays
<1>1. [Next]_vars => [Initialized => storedKey' = storedKey]_storedKey
  BY DEF Next, InitStep, UnsealStep, SealStep, InitBegin, InitInsert,
         RowAccepted, InitRefused, ShowShares, UnsealBegin, Push, SetKey,
         ClearShares, MarkUnsealed, Reject, SealBegin, DropShares, MarkSealed,
         Reset, Restart, Abort, vars, dbVars
<1> QED
  BY <1>1, PTL DEF Spec, MasterKeyStays

-----------------------------------------------------------------------------
(* The quorum.                                                              *)

\* Shares that recover the key are at least Threshold different genuine ones.
LEMMA RecoversQuorum ==
  ASSUME NEW shares \in Seq(Share), Recovers(shares)
  PROVE  Cardinality(Range(shares) \cap Genuine) >= Threshold
<1> SUFFICES ASSUME NEW S, S = Range(shares), NEW n, n = Len(shares)
             PROVE  Cardinality(S \cap Genuine) >= Threshold
  OBVIOUS
<1>1. n \in Nat /\ n >= Threshold /\ DOMAIN shares = 1..n
  BY DEF Recovers
<1>2. S \subseteq Genuine
  BY <1>1 DEF Recovers, Range, Share
<1>3. IsFiniteSet(Genuine)
  BY FS_Interval, SharesAssumption DEF Genuine
<1>4. IsFiniteSet(S)
  BY <1>2, <1>3, FS_Subset
<1>5. shares \in Injection(1..n, S)
  <2>1. shares \in [1..n -> S]
    BY <1>1 DEF Range
  <2> QED BY <2>1 DEF Injection, Recovers
<1>6. Cardinality(1..n) <= Cardinality(S)
  BY <1>4, <1>5, FS_Injection
<1>7. Cardinality(1..n) = n
  <2>1. n \in Int /\ 1 \in Int /\ n >= 1
    BY <1>1, SharesAssumption
  <2>2. Cardinality(1..n) = IF 1 > n THEN 0 ELSE n - 1 + 1
    BY <2>1, FS_Interval
  <2> QED BY <2>1, <2>2
<1>8. S \cap Genuine = S
  BY <1>2
<1>9. Cardinality(S) \in Nat /\ Threshold \in Nat
  BY <1>4, FS_CardinalityType, SharesAssumption
<1>10. n <= Cardinality(S)
  BY <1>6, <1>7
<1>11. Threshold <= Cardinality(S)
  BY <1>1, <1>9, <1>10
<1> QED
  BY <1>8, <1>9, <1>11

\* The strengthening of KeyNeedsQuorum: every share in memory was submitted,
\* and a request about to put the key in memory has seen a quorum.
Quorum == Cardinality(submitted \cap Genuine) >= Threshold
QuorumHolds ==
  /\ Range(progress) \subseteq submitted
  /\ unsealed => Quorum
  /\ \A p \in Procs : At(p, "setKey") => Quorum

\* A quorum stays one when more shares are submitted.
LEMMA QuorumGrows ==
  ASSUME NEW S, NEW T, S \subseteq T, Cardinality(S \cap Genuine) >= Threshold
  PROVE  Cardinality(T \cap Genuine) >= Threshold
<1>0. IsFiniteSet(Genuine)
  BY FS_Interval, SharesAssumption DEF Genuine
<1>1. IsFiniteSet(T \cap Genuine)
  <2>1. T \cap Genuine \in SUBSET Genuine
    OBVIOUS
  <2> QED BY <1>0, <2>1, FS_Subset
<1>2. /\ Cardinality(S \cap Genuine) <= Cardinality(T \cap Genuine)
      /\ IsFiniteSet(S \cap Genuine)
  <2>1. S \cap Genuine \in SUBSET (T \cap Genuine)
    OBVIOUS
  <2> QED BY <1>1, <2>1, FS_Subset
<1>3. Cardinality(S \cap Genuine) \in Nat /\ Cardinality(T \cap Genuine) \in Nat
  BY <1>1, <1>2, FS_CardinalityType
<1> QED
  BY <1>2, <1>3, SharesAssumption

\* Every step preserves it.
LEMMA StepQuorum ==
  TypeOK /\ QuorumHolds /\ [Next]_vars => QuorumHolds'
<1> SUFFICES ASSUME TypeOK, QuorumHolds, [Next]_vars PROVE QuorumHolds'
  OBVIOUS
<1> USE DEF dbVars, memVars, histVars
<1>a. ASSUME NEW p \in Procs, Finish(p)
      PROVE  \A q \in Procs : At(q, "setKey")' => At(q, "setKey")
  BY <1>a DEF Finish, Idle, At, TypeOK
<1>b. ASSUME NEW p \in Procs, NEW step, step # "setKey",
             Goto(p, step) \/ MoveOn(p, step)
      PROVE  \A q \in Procs : At(q, "setKey")' => At(q, "setKey")
  BY <1>b DEF Goto, MoveOn, Idle, At, TypeOK, Request
<1>c. ASSUME \A q \in Procs : At(q, "setKey")' => At(q, "setKey"),
             submitted' = submitted, unsealed' => unsealed,
             progress' = progress \/ progress' = <<>>
      PROVE  QuorumHolds'
  <2>1. Range(progress)' \subseteq submitted'
    <3>1. CASE progress' = progress
      BY <1>c, <3>1 DEF QuorumHolds, Range
    <3>2. CASE progress' = <<>>
      BY <3>2 DEF Range
    <3> QED BY <1>c, <3>1, <3>2
  <2>2. Quorum' = Quorum
    BY <1>c DEF Quorum
  <2>3. \A q \in Procs : At(q, "setKey")' => Quorum'
    BY <1>c, <2>2 DEF QuorumHolds
  <2> QED BY <1>c, <2>1, <2>2, <2>3 DEF QuorumHolds
<1>1. ASSUME NEW p \in Procs, InitStep(p) PROVE QuorumHolds'
  BY <1>1, <1>a, <1>b, <1>c
     DEF InitStep, InitBegin, InitInsert, InitRefused, ShowShares
<1>2. ASSUME NEW p \in Procs, NEW s \in Share, UnsealBegin(p, s)
      PROVE  QuorumHolds'
  <2>1. \A q \in Procs : At(q, "setKey")' => At(q, "setKey")
    BY <1>2 DEF UnsealBegin, At, TypeOK
  <2> QED BY <1>2, <1>c, <2>1 DEF UnsealBegin
<1>3. ASSUME NEW p \in Procs, Push(p) PROVE QuorumHolds'
  <2> DEFINE collected == Append(progress, op[p].share)
  <2>1. op[p].share \in Share /\ progress \in Seq(Share)
    BY DEF TypeOK, Request
  <2>2. collected \in Seq(Share) /\ Range(collected) \subseteq submitted'
    <3>1. \A i \in DOMAIN collected :
            collected[i] = op[p].share \/ collected[i] \in Range(progress)
      BY <2>1 DEF Range
    <3> QED BY <1>3, <2>1, <3>1 DEF Push, QuorumHolds, Range
  <2>3. Quorum => Quorum'
    BY <1>3, QuorumGrows DEF Push, Quorum
  <2>4. CASE Finish(p) \/ MoveOn(p, "reject")
    <3>1. \A q \in Procs : At(q, "setKey")' => At(q, "setKey")
      BY <1>a, <1>b, <2>4
    <3> QED BY <1>3, <2>2, <2>3, <3>1 DEF Push, QuorumHolds
  <2>5. CASE Recovers(collected)
    <3>1. Quorum'
      BY <2>2, <2>5, RecoversQuorum, QuorumGrows DEF Quorum
    <3> QED BY <1>3, <2>2, <3>1 DEF Push, QuorumHolds
  <2> QED BY <1>3, <2>4, <2>5 DEF Push
<1>4. ASSUME NEW p \in Procs, SetKey(p) PROVE QuorumHolds'
  <2>1. Quorum /\ \A q \in Procs : At(q, "setKey")' => At(q, "setKey")
    BY <1>4, <1>b DEF SetKey, QuorumHolds
  <2> QED BY <1>4, <2>1 DEF SetKey, QuorumHolds, Quorum
<1>5. ASSUME NEW p \in Procs,
             ClearShares(p) \/ MarkUnsealed(p) \/ Reject(p) \/ DropShares(p)
             \/ MarkSealed(p) \/ Abort(p)
      PROVE  QuorumHolds'
  BY <1>5, <1>a, <1>b, <1>c
     DEF ClearShares, MarkUnsealed, Reject, AfterRejection, DropShares,
         MarkSealed, Abort
<1>6. ASSUME NEW p \in Procs, SealBegin(p) PROVE QuorumHolds'
  <2>1. ASSUME NEW q \in Procs, At(q, "setKey")' PROVE At(q, "setKey")
    <3>1. op[q] \in Request
      BY DEF TypeOK
    <3>2. CASE q = p
      BY <1>6, <2>1, <3>2 DEF SealBegin, At, Idle
    <3>3. CASE q # p
      BY <1>6, <2>1, <3>1, <3>3 DEF SealBegin, At, Request
    <3> QED BY <3>2, <3>3
  <2> QED BY <1>6, <1>c, <2>1 DEF SealBegin
<1>7. CASE Reset
  BY <1>7, <1>c DEF Reset, At
<1>8. CASE Restart
  BY <1>8 DEF Restart, QuorumHolds, Idle, At, Range
<1>9. CASE UNCHANGED vars
  BY <1>9, <1>c DEF vars, At
<1> QED
  BY <1>1, <1>2, <1>3, <1>4, <1>5, <1>6, <1>7, <1>8, <1>9
     DEF Next, UnsealStep, SealStep

\* Whatever wrong, repeated and concurrent submissions, resets, seals and
\* restarts do, the master key is in memory only after Threshold different
\* genuine shares came in (sys.rs, add_unseal_share).
THEOREM QuorumNeeded == Spec => []KeyNeedsQuorum
<1>1. Init => QuorumHolds
  BY DEF Init, QuorumHolds, Idle, At, Range
<1>2. QuorumHolds => KeyNeedsQuorum
  BY DEF QuorumHolds, Quorum, KeyNeedsQuorum
<1> QED
  BY <1>1, <1>2, StepQuorum, TypeCorrect, PTL DEF Spec
=============================================================================
