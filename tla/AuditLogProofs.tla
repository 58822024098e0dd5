----------------------------- MODULE AuditLogProofs -----------------------------
(***************************************************************************)
(* Theorems about AuditLog, for any requests and bounds.                   *)
(***************************************************************************)
EXTENDS AuditLog, SequenceTheorems, TLAPS

-----------------------------------------------------------------------------
(* Timestamps                                                               *)

\* The text of a timestamp: the day, what is left of it, and the offset.
LEMMA Joined ==
  ASSUME NEW day \in Nat, NEW rest \in Seq(Nat)
  PROVE  LET text == <<day>> \o rest \o <<Plus>> IN
         /\ text \in Seq(Nat) /\ Len(text) = Len(rest) + 2 /\ text[1] = day
         /\ \A i \in 1..Len(rest) : text[i + 1] = rest[i]
         /\ text[Len(rest) + 2] = Plus
<1> DEFINE head == <<day>>
           tail == <<Plus>>
<1>1. /\ head \in Seq(Nat) /\ Len(head) = 1 /\ head[1] = day
      /\ tail \in Seq(Nat) /\ Len(tail) = 1 /\ tail[1] = Plus
  BY DEF Plus
<1>2. Len(rest) \in Nat
  BY LenProperties
<1> HIDE DEF head, tail
<1>3. /\ head \o rest \in Seq(Nat) /\ Len(head \o rest) = 1 + Len(rest)
      /\ \A i \in 1..(1 + Len(rest)) :
           (head \o rest)[i] = IF i <= 1 THEN head[i] ELSE rest[i - 1]
  <2>1. /\ head \o rest \in Seq(Nat)
        /\ Len(head \o rest) = Len(head) + Len(rest)
        /\ \A i \in 1..(Len(head) + Len(rest)) :
             (head \o rest)[i] =
               IF i <= Len(head) THEN head[i] ELSE rest[i - Len(head)]
    BY <1>1, ConcatProperties
  <2> QED
    BY <1>1, <2>1
<1>4. /\ (head \o rest) \o tail \in Seq(Nat)
      /\ Len((head \o rest) \o tail) = (1 + Len(rest)) + 1
      /\ \A i \in 1..((1 + Len(rest)) + 1) :
           ((head \o rest) \o tail)[i] =
             IF i <= 1 + Len(rest) THEN (head \o rest)[i] ELSE tail[i - (1 + Len(rest))]
  <2> DEFINE front == head \o rest
  <2>1. front \in Seq(Nat) /\ Len(front) = 1 + Len(rest)
    BY <1>3
  <2> HIDE DEF front
  <2>2. /\ front \o tail \in Seq(Nat)
        /\ Len(front \o tail) = Len(front) + Len(tail)
        /\ \A i \in 1..(Len(front) + Len(tail)) :
             (front \o tail)[i] =
               IF i <= Len(front) THEN front[i] ELSE tail[i - Len(front)]
    BY <1>1, <2>1, ConcatProperties
  <2>3. /\ front \o tail \in Seq(Nat)
        /\ Len(front \o tail) = (1 + Len(rest)) + 1
        /\ \A i \in 1..((1 + Len(rest)) + 1) :
             (front \o tail)[i] =
               IF i <= 1 + Len(rest) THEN front[i] ELSE tail[i - (1 + Len(rest))]
    BY <1>1, <2>1, <2>2
  <2> QED
    BY <2>3 DEF front
<1>5. ((head \o rest) \o tail)[1] = day
  BY <1>1, <1>2, <1>3, <1>4
<1>6. ASSUME NEW i \in 1..Len(rest)
      PROVE  ((head \o rest) \o tail)[i + 1] = rest[i]
  BY <1>2, <1>3, <1>4
<1>7. ((head \o rest) \o tail)[Len(rest) + 2] = Plus
  BY <1>1, <1>2, <1>4
<1> QED
  BY <1>2, <1>4, <1>5, <1>6, <1>7 DEF head, tail

\* There are four shapes.
Text(day, quarter) ==
  IF quarter = 0 THEN <<day, 0>>
  ELSE IF quarter = 1 THEN <<day, 1, 2, 3, 0>>
  ELSE IF quarter = 2 THEN <<day, 1, 3, 0>>
  ELSE <<day, 1, 3, 3, 0>>

LEMMA StampText ==
  ASSUME NEW time \in Nat
  PROVE  /\ time % 4 \in 0..3 /\ time \div 4 \in Nat
         /\ time = 4 * (time \div 4) + (time % 4)
         /\ Stamp(time) = Text(2 + time \div 4, time % 4)
<1> DEFINE half == (time \div 2) % 2
           quarter == time % 2
           day == 2 + time \div 4
<1>1. /\ time % 4 \in 0..3 /\ time = 4 * (time \div 4) + (time % 4)
      /\ time \div 4 \in Nat
  OBVIOUS
<1>2. /\ time % 4 = 0 => quarter = 0 /\ half = 0
      /\ time % 4 = 1 => quarter = 1 /\ half = 0
      /\ time % 4 = 2 => quarter = 0 /\ half = 1
      /\ time % 4 = 3 => quarter = 1 /\ half = 1
  OBVIOUS
<1>3. Fraction(time) = IF quarter = 1 THEN <<1, 2 + half, 3>>
                       ELSE IF half = 1 THEN <<1, 3>> ELSE << >>
  BY DEF Fraction, Dot, Digit
<1>4. Stamp(time) = <<day>> \o Fraction(time) \o <<Plus>>
  BY DEF Stamp, Digit, TicksPerDay
<1>5. day \in Nat
  BY <1>1
<1> SUFFICES Stamp(time) = Text(day, time % 4)
  BY <1>1
<1> HIDE DEF half, quarter, day
<1>6. ASSUME NEW rest \in Seq(Nat), Fraction(time) = rest
       PROVE  /\ Stamp(time) \in Seq(Nat) /\ Len(Stamp(time)) = Len(rest) + 2
              /\ Stamp(time)[1] = day
              /\ \A i \in 1..Len(rest) : Stamp(time)[i + 1] = rest[i]
              /\ Stamp(time)[Len(rest) + 2] = Plus
  BY <1>4, <1>5, <1>6, Joined
<1>7. CASE time % 4 = 0
  <2> DEFINE rest == << >>
             text == <<day, 0>>
  <2>1. Fraction(time) = rest
    BY <1>2, <1>3, <1>7
  <2>2. rest \in Seq(Nat) /\ Len(rest) = 0
    OBVIOUS
  <2>3. /\ text \in Seq(Nat) /\ Len(text) = 2 /\ text[1] = day
        /\ \A i \in 1..0 : text[i + 1] = rest[i]
        /\ text[2] = 0
    BY <1>5
  <2> HIDE DEF rest, text
  <2>4. /\ Stamp(time) \in Seq(Nat) /\ Len(Stamp(time)) = 2
        /\ Stamp(time)[1] = day
        /\ \A i \in 1..0 : Stamp(time)[i + 1] = rest[i]
        /\ Stamp(time)[2] = 0
    <3>1. /\ Stamp(time) \in Seq(Nat) /\ Len(Stamp(time)) = Len(rest) + 2
          /\ Stamp(time)[1] = day
          /\ \A i \in 1..Len(rest) : Stamp(time)[i + 1] = rest[i]
          /\ Stamp(time)[Len(rest) + 2] = Plus
      BY <1>6, <2>1, <2>2
    <3> QED
      BY <2>2, <3>1 DEF Plus
  <2>5. ASSUME NEW i \in 1..2 PROVE Stamp(time)[i] = text[i]
    <3>1. i = 1 \/ i = 2 \/ i - 1 \in 1..0
      OBVIOUS
    <3>2. ASSUME i - 1 \in 1..0 PROVE Stamp(time)[(i - 1) + 1] = text[(i - 1) + 1]
      BY <2>3, <2>4, <3>2
    <3> QED
      BY <2>3, <2>4, <3>1, <3>2
  <2>6. Stamp(time) = text
    BY <2>3, <2>4, <2>5, SeqEqual
  <2> QED
    BY <1>1, <1>7, <2>6 DEF Text, text
<1>8. CASE time % 4 = 1
  <2> DEFINE rest == <<1, 2, 3>>
             text == <<day, 1, 2, 3, 0>>
  <2>1. Fraction(time) = rest
    BY <1>2, <1>3, <1>8
  <2>2. rest \in Seq(Nat) /\ Len(rest) = 3 /\ rest[1] = 1 /\ rest[2] = 2 /\ rest[3] = 3
    OBVIOUS
  <2>3. /\ text \in Seq(Nat) /\ Len(text) = 5 /\ text[1] = day
        /\ \A i \in 1..3 : text[i + 1] = rest[i]
        /\ text[5] = 0
    BY <1>5
  <2> HIDE DEF rest, text
  <2>4. /\ Stamp(time) \in Seq(Nat) /\ Len(Stamp(time)) = 5
        /\ Stamp(time)[1] = day
        /\ \A i \in 1..3 : Stamp(time)[i + 1] = rest[i]
        /\ Stamp(time)[5] = 0
    <3>1. /\ Stamp(time) \in Seq(Nat) /\ Len(Stamp(time)) = Len(rest) + 2
          /\ Stamp(time)[1] = day
          /\ \A i \in 1..Len(rest) : Stamp(time)[i + 1] = rest[i]
          /\ Stamp(time)[Len(rest) + 2] = Plus
      BY <1>6, <2>1, <2>2
    <3> QED
      BY <2>2, <3>1 DEF Plus
  <2>5. ASSUME NEW i \in 1..5 PROVE Stamp(time)[i] = text[i]
    <3>1. i = 1 \/ i = 5 \/ i - 1 \in 1..3
      OBVIOUS
    <3>2. ASSUME i - 1 \in 1..3 PROVE Stamp(time)[(i - 1) + 1] = text[(i - 1) + 1]
      BY <2>3, <2>4, <3>2
    <3> QED
      BY <2>3, <2>4, <3>1, <3>2
  <2>6. Stamp(time) = text
    BY <2>3, <2>4, <2>5, SeqEqual
  <2> QED
    BY <1>1, <1>8, <2>6 DEF Text, text
<1>9. CASE time % 4 = 2
  <2> DEFINE rest == <<1, 3>>
             text == <<day, 1, 3, 0>>
  <2>1. Fraction(time) = rest
    BY <1>2, <1>3, <1>9
  <2>2. rest \in Seq(Nat) /\ Len(rest) = 2 /\ rest[1] = 1 /\ rest[2] = 3
    OBVIOUS
  <2>3. /\ text \in Seq(Nat) /\ Len(text) = 4 /\ text[1] = day
        /\ \A i \in 1..2 : text[i + 1] = rest[i]
        /\ text[4] = 0
    BY <1>5
  <2> HIDE DEF rest, text
  <2>4. /\ Stamp(time) \in Seq(Nat) /\ Len(Stamp(time)) = 4
        /\ Stamp(time)[1] = day
        /\ \A i \in 1..2 : Stamp(time)[i + 1] = rest[i]
        /\ Stamp(time)[4] = 0
    <3>1. /\ Stamp(time) \in Seq(Nat) /\ Len(Stamp(time)) = Len(rest) + 2
          /\ Stamp(time)[1] = day
          /\ \A i \in 1..Len(rest) : Stamp(time)[i + 1] = rest[i]
          /\ Stamp(time)[Len(rest) + 2] = Plus
      BY <1>6, <2>1, <2>2
    <3> QED
      BY <2>2, <3>1 DEF Plus
  <2>5. ASSUME NEW i \in 1..4 PROVE Stamp(time)[i] = text[i]
    <3>1. i = 1 \/ i = 4 \/ i - 1 \in 1..2
      OBVIOUS
    <3>2. ASSUME i - 1 \in 1..2 PROVE Stamp(time)[(i - 1) + 1] = text[(i - 1) + 1]
      BY <2>3, <2>4, <3>2
    <3> QED
      BY <2>3, <2>4, <3>1, <3>2
  <2>6. Stamp(time) = text
    BY <2>3, <2>4, <2>5, SeqEqual
  <2> QED
    BY <1>1, <1>9, <2>6 DEF Text, text
<1>10. CASE time % 4 = 3
  <2> DEFINE rest == <<1, 3, 3>>
             text == <<day, 1, 3, 3, 0>>
  <2>1. Fraction(time) = rest
    BY <1>2, <1>3, <1>10
  <2>2. rest \in Seq(Nat) /\ Len(rest) = 3 /\ rest[1] = 1 /\ rest[2] = 3 /\ rest[3] = 3
    OBVIOUS
  <2>3. /\ text \in Seq(Nat) /\ Len(text) = 5 /\ text[1] = day
        /\ \A i \in 1..3 : text[i + 1] = rest[i]
        /\ text[5] = 0
    BY <1>5
  <2> HIDE DEF rest, text
  <2>4. /\ Stamp(time) \in Seq(Nat) /\ Len(Stamp(time)) = 5
        /\ Stamp(time)[1] = day
        /\ \A i \in 1..3 : Stamp(time)[i + 1] = rest[i]
        /\ Stamp(time)[5] = 0
    <3>1. /\ Stamp(time) \in Seq(Nat) /\ Len(Stamp(time)) = Len(rest) + 2
          /\ Stamp(time)[1] = day
          /\ \A i \in 1..Len(rest) : Stamp(time)[i + 1] = rest[i]
          /\ Stamp(time)[Len(rest) + 2] = Plus
      BY <1>6, <2>1, <2>2
    <3> QED
      BY <2>2, <3>1 DEF Plus
  <2>5. ASSUME NEW i \in 1..5 PROVE Stamp(time)[i] = text[i]
    <3>1. i = 1 \/ i = 5 \/ i - 1 \in 1..3
      OBVIOUS
    <3>2. ASSUME i - 1 \in 1..3 PROVE Stamp(time)[(i - 1) + 1] = text[(i - 1) + 1]
      BY <2>3, <2>4, <3>2
    <3> QED
      BY <2>3, <2>4, <3>1, <3>2
  <2>6. Stamp(time) = text
    BY <2>3, <2>4, <2>5, SeqEqual
  <2> QED
    BY <1>1, <1>10, <2>6 DEF Text, text
<1> QED
  BY <1>1, <1>7, <1>8, <1>9, <1>10

\* How the shapes compare: by the day first, and then by the quarter.
LEMMA DaysOrdered ==
  ASSUME NEW c \in Nat, NEW d \in Nat, NEW k \in 0..3, NEW m \in 0..3,
         Precedes(Text(c, k), Text(d, m))
  PROVE  c <= d
BY DEF Precedes, Text

LEMMA QuartersOrdered ==
  ASSUME NEW d \in Nat, NEW k \in 0..3, NEW m \in 0..3, m <= k
  PROVE  ~Precedes(Text(d, k), Text(d, m))
<1>1. CASE k = 0
  BY <1>1 DEF Precedes, Text
<1>2. CASE k = 1
  <2>1. m = 0 \/ m = 1
    BY <1>2
  <2>2. CASE m = 0
    BY <1>2, <2>2 DEF Precedes, Text
  <2>3. CASE m = 1
    BY <1>2, <2>3 DEF Precedes, Text
  <2> QED
    BY <2>1, <2>2, <2>3
<1>3. CASE k = 2
  <2>1. m = 0 \/ m = 1 \/ m = 2
    BY <1>3
  <2>2. CASE m = 0
    BY <1>3, <2>2 DEF Precedes, Text
  <2>3. CASE m = 1
    BY <1>3, <2>3 DEF Precedes, Text
  <2>4. CASE m = 2
    BY <1>3, <2>4 DEF Precedes, Text
  <2> QED
    BY <2>1, <2>2, <2>3, <2>4
<1>4. CASE k = 3
  <2>1. CASE m = 0
    BY <1>4, <2>1 DEF Precedes, Text
  <2>2. CASE m = 1
    BY <1>4, <2>2 DEF Precedes, Text
  <2>3. CASE m = 2
    BY <1>4, <2>3 DEF Precedes, Text
  <2>4. CASE m = 3
    BY <1>4, <2>4 DEF Precedes, Text
  <2> QED
    BY <2>1, <2>2, <2>3, <2>4
<1> QED
  BY <1>1, <1>2, <1>3, <1>4

\* Text that compares as less is of an earlier time.
LEMMA EarlierText ==
  ASSUME NEW a \in Nat, NEW b \in Nat, Precedes(Stamp(a), Stamp(b))
  PROVE  a < b
<1> DEFINE c == a \div 4
           d == b \div 4
           k == a % 4
           m == b % 4
<1>1. /\ c \in Nat /\ k \in 0..3 /\ a = 4 * c + k /\ Stamp(a) = Text(2 + c, k)
      /\ d \in Nat /\ m \in 0..3 /\ b = 4 * d + m /\ Stamp(b) = Text(2 + d, m)
  BY StampText
<1> HIDE DEF c, d, k, m
<1>2. Precedes(Text(2 + c, k), Text(2 + d, m)) /\ 2 + c \in Nat /\ 2 + d \in Nat
  BY <1>1
<1>3. 2 + c <= 2 + d
  BY <1>1, <1>2, DaysOrdered
<1>4. c = d => k < m
  BY <1>1, <1>2, QuartersOrdered
<1> QED
  BY <1>1, <1>3, <1>4

-----------------------------------------------------------------------------
(* What requests and the task know                                          *)

\* A cutoff was computed from a window that ends, and lies that window back.
Aimed ==
  \A q \in Actors :
    /\ At(q, "cut") => op[q].days # Forever
    /\ At(q, "delete") => /\ op[q].days \in 1..MaxDays
                          /\ op[q].time <= now - op[q].days * TicksPerDay
    /\ At(q, "insert") => op[q].time \in Start..now

\* The inductive strengthening of TypeOK, from which OnlyOldRowsGo follows.
Kept == TypeOK /\ Aimed

LEMMA Numbers ==
  /\ MaxDays \in Nat \ {0} /\ MaxTime \in Nat /\ Start = MaxDays * 4
  /\ TicksPerDay = 4 /\ Start \in 0..MaxTime
  /\ Forever = 0 /\ Absurd = MaxDays + 1 /\ Windows = 0..(MaxDays + 1)
  /\ Pruner \in Actors
BY BoundsAssumption DEF Start, TicksPerDay, Forever, Absurd, Windows, Actors

\* Idle, and a request that is only at a step.
LEMMA IdleRequest ==
  /\ Idle \in Request /\ Idle.step = "idle" /\ Idle.time = 0 /\ Idle.days = Forever
  /\ \A step \in Step :
       LET r == [Idle EXCEPT !.step = step] IN
       r \in Request /\ r.step = step /\ r.time = 0 /\ r.days = Forever
BY Numbers DEF Idle, Request, Step

\* What Kept says of one request.
Fits(r) ==
  /\ r \in Request /\ r.time <= now
  /\ r.step = "cut" => r.days # Forever
  /\ r.step = "delete" => /\ r.days \in 1..MaxDays
                          /\ r.time <= now - r.days * TicksPerDay
  /\ r.step = "insert" => r.time \in Start..now

LEMMA Plain ==
  ASSUME TypeOK
  PROVE  /\ Fits(Idle)
         /\ \A step \in {"idle", "read", "store", "dead"} :
              Fits([Idle EXCEPT !.step = step])
<1>1. 0 <= now
  BY Numbers DEF TypeOK, Time
<1> QED
  BY <1>1, IdleRequest DEF Fits, Step

\* One request or the task moves on, to r, and time stands still.
LEMMA OneMoves ==
  ASSUME Kept, NEW q \in Actors, NEW r, Fits(r), op' = [op EXCEPT ![q] = r],
         now' = now, log' \subseteq Start..now, window' \in Windows
  PROVE  Kept'
<1>1. /\ op' \in [Actors -> Request] /\ op'[q] = r
      /\ \A x \in Actors \ {q} : op'[x] = op[x]
  BY DEF Kept, TypeOK, Fits
<1>2. TypeOK'
  BY <1>1 DEF Kept, TypeOK, Fits
<1>3. Aimed'
  BY <1>1 DEF Kept, Aimed, Fits, At
<1> QED
  BY <1>2, <1>3 DEF Kept

LEMMA InitKept == Init => Kept
<1> SUFFICES ASSUME Init PROVE Kept
  OBVIOUS
<1>1. "read" \in Step
  BY DEF Step
<1>2. op \in [Actors -> Request]
      /\ \A q \in Actors : op[q].step \in {"idle", "read"} /\ op[q].time = 0
  BY <1>1, IdleRequest DEF Init
<1> QED
  BY <1>2, Numbers DEF Init, Kept, TypeOK, Aimed, At, Time

LEMMA StepKept ==
  ASSUME Kept, NEW q \in Actors,
         \/ RecordBegin(q) \/ Insert(q)
         \/ \E input \in -1..Absurd : SetBegin(q, input)
         \/ Store(q) \/ PruneBegin(q) \/ PruneStep(q) \/ Fail(q)
  PROVE  Kept'
<1>0. /\ now \in Start..MaxTime /\ now \in Nat /\ log \subseteq Start..now
      /\ window \in Windows
  BY Numbers DEF Kept, TypeOK, Time
<1>a. op[q] \in Request /\ Fits(op[q])
  BY DEF Kept, TypeOK, Aimed, Fits, At
<1>b. /\ Fits(Idle) /\ Fits([Idle EXCEPT !.step = "read"])
      /\ Fits([Idle EXCEPT !.step = "dead"])
  BY Plain DEF Kept
<1>1. CASE RecordBegin(q)
  <2> DEFINE r == [Idle EXCEPT !.step = "insert", !.time = now]
  <2>1. r \in Request /\ r.step = "insert" /\ r.time = now
    <3>1. now \in 0..MaxTime /\ "insert" \in Step
      BY <1>0, Numbers DEF Step
    <3>2. r \in Request
      <4>1. Idle \in Request
        BY IdleRequest
      <4> QED
        BY <3>1, <4>1 DEF Request
    <3> QED
      BY <3>2 DEF Idle
  <2>2. Fits(r)
    BY <1>0, <2>1 DEF Fits
  <2>3. op' = [op EXCEPT ![q] = r] /\ now' = now /\ log' = log /\ window' = window
    BY <1>1 DEF RecordBegin, Begin
  <2> HIDE DEF r
  <2> QED
    BY <1>0, <2>2, <2>3, OneMoves
<1>2. CASE Insert(q)
  <2>1. log' \subseteq Start..now
    BY <1>0, <1>a, <1>2 DEF Insert, At, Fits
  <2> QED
    BY <1>0, <1>b, <1>2, <2>1, OneMoves DEF Insert, Finish
<1>3. ASSUME NEW input \in -1..Absurd, SetBegin(q, input) PROVE Kept'
  <2> DEFINE r == [Idle EXCEPT !.step = "store", !.days = Parsed(input)]
  <2>1. r \in Request /\ r.step = "store" /\ r.time = 0
    <3>1. Parsed(input) \in Windows /\ "store" \in Step
      BY Numbers DEF Step, Parsed
    <3>2. r \in Request
      <4>1. Idle \in Request
        BY IdleRequest
      <4> QED
        BY <3>1, <4>1 DEF Request
    <3> QED
      BY <3>2 DEF Idle
  <2>2. Fits(r)
    BY <1>0, <2>1 DEF Fits
  <2>3. op' = [op EXCEPT ![q] = r] /\ now' = now /\ log' = log /\ window' = window
    BY <1>3 DEF SetBegin, Begin
  <2> HIDE DEF r
  <2> QED
    BY <1>0, <2>2, <2>3, OneMoves
<1>4. CASE Store(q)
  <2>1. window' \in Windows
    BY <1>4, <1>a DEF Store, Request
  <2> QED
    BY <1>0, <1>b, <1>4, <2>1, OneMoves DEF Store, Goto
<1>5. CASE PruneBegin(q)
  BY <1>0, <1>b, <1>5, OneMoves DEF PruneBegin, Begin
<1>6. CASE ReadWindow(q)
  <2> DEFINE r == [Idle EXCEPT !.step = "cut", !.days = window]
  <2>1. r \in Request /\ r.step = "cut" /\ r.time = 0 /\ r.days = window
    <3>1. "cut" \in Step
      BY DEF Step
    <3>2. r \in Request
      <4>1. Idle \in Request
        BY IdleRequest
      <4> QED
        BY <1>0, <3>1, <4>1 DEF Request
    <3> QED
      BY <3>2 DEF Idle
  <2>2. window # Forever => Fits(r)
    BY <1>0, <2>1 DEF Fits
  <2>3. now' = now /\ log' = log /\ window' = window
        /\ op' = [op EXCEPT ![q] = IF window = Forever THEN Idle ELSE r]
    BY <1>6 DEF ReadWindow, Keeps, NextRound
  <2> HIDE DEF r
  <2>4. Fits(IF window = Forever THEN Idle ELSE r)
    BY <1>b, <2>2
  <2> QED
    BY <1>0, <2>3, <2>4, OneMoves
<1>7. CASE Cut(q)
  <2> DEFINE r == [op[q] EXCEPT !.step = "delete",
                                !.time = now - op[q].days * TicksPerDay]
  <2>1. op[q].days \in 1..MaxDays
    BY <1>7, <1>a, Numbers DEF Cut, At, Fits, Request
  <2>2. op[q].days * 4 \in 0..Start
    <3> DEFINE d == op[q].days
    <3>1. d \in Nat /\ d <= MaxDays /\ MaxDays \in Nat /\ Start = MaxDays * 4
      BY <2>1, Numbers
    <3> HIDE DEF d
    <3>2. d * 4 \in 0..Start
      BY <3>1
    <3> QED
      BY <3>2 DEF d
  <2>3. now - op[q].days * 4 \in 0..now
    BY <1>0, <2>2, Numbers
  <2>4. now - op[q].days * TicksPerDay \in 0..MaxTime
        /\ now - op[q].days * TicksPerDay <= now
    BY <1>0, <2>3, Numbers
  <2>5. /\ r \in Request /\ r.step = "delete" /\ r.days = op[q].days
        /\ r.time = now - op[q].days * TicksPerDay
    BY <1>a, <2>4 DEF Request, Step
  <2>6. op' = [op EXCEPT ![q] = r]
    <3>1. op \in [Actors -> Request]
      BY DEF Kept, TypeOK
    <3> QED
      BY <1>7, <3>1 DEF Cut
  <2>7. now' = now /\ log' = log /\ window' = window
    BY <1>7 DEF Cut
  <2> HIDE DEF r
  <2>8. Fits(r)
    BY <2>1, <2>4, <2>5 DEF Fits
  <2> QED
    BY <1>0, <2>6, <2>7, <2>8, OneMoves
<1>8. CASE Panic(q)
  BY <1>0, <1>b, <1>8, OneMoves DEF Panic, Goto, Finish
<1>9. CASE Delete(q)
  <2>1. log' \subseteq Start..now
    BY <1>0, <1>9 DEF Delete
  <2> QED
    BY <1>0, <1>b, <1>9, <2>1, OneMoves DEF Delete, NextRound
<1>10. CASE Fail(q)
  BY <1>0, <1>b, <1>10, OneMoves DEF Fail, Finish
<1> QED
  BY <1>1, <1>2, <1>3, <1>4, <1>5, <1>6, <1>7, <1>8, <1>9, <1>10 DEF PruneStep

LEMMA NextKept == Kept /\ [Next]_vars => Kept'
<1> SUFFICES ASSUME Kept, [Next]_vars PROVE Kept'
  OBVIOUS
<1>0. Procs \subseteq Actors /\ Pruner \in Actors
  BY DEF Actors
<1>1. ASSUME NEW p \in Procs, RequestStep(p) PROVE Kept'
  BY <1>0, <1>1, StepKept DEF RequestStep
<1>2. CASE PruneStep(Pruner)
  BY <1>0, <1>2, StepKept
<1>3. CASE Wake
  <2>1. PruneBegin(Pruner)
    BY <1>3 DEF Wake, PruneBegin
  <2> QED
    BY <1>0, <2>1, StepKept
<1>4. CASE Tick
  <2>1. /\ now' = now + 1 /\ now \in Start..MaxTime /\ now < MaxTime
        /\ log' = log /\ window' = window /\ op' = op
    BY <1>4 DEF Tick, Kept, TypeOK, Time
  <2>2. now' \in Start..MaxTime /\ Start..now \subseteq Start..now'
    BY <2>1, Numbers
  <2>3. \A q \in Actors : op[q].time \in 0..MaxTime
    BY DEF Kept, TypeOK, Request
  <2>4. TypeOK'
    BY <2>1, <2>2, <2>3, Numbers DEF Kept, TypeOK, Time
  <2>5. ASSUME NEW q \in Actors, op[q].step = "delete"
        PROVE  op[q].time <= now' - op[q].days * TicksPerDay
    <3> DEFINE back == op[q].days * TicksPerDay
    <3>1. op[q].days \in 1..MaxDays
      BY <2>5 DEF Kept, Aimed, At
    <3>2. back \in Nat
      BY <3>1, Numbers
    <3>3. op[q].time <= now - back
      BY <2>5 DEF Kept, Aimed, At
    <3> HIDE DEF back
    <3>4. op[q].time <= now' - back
      BY <2>1, <2>3, <3>2, <3>3, Numbers
    <3> QED
      BY <3>4 DEF back
  <2>6. Aimed'
    BY <2>1, <2>2, <2>5 DEF Kept, Aimed, At
  <2> QED
    BY <2>4, <2>6 DEF Kept
<1>5. CASE Restart
  <2>1. "read" \in Step
    BY DEF Step
  <2>2. op' \in [Actors -> Request]
        /\ \A q \in Actors : op'[q].step \in {"idle", "read"} /\ op'[q].time = 0
    BY <1>5, <2>1, IdleRequest DEF Restart
  <2>3. now \in Nat /\ now' = now /\ log' = log /\ window' = window
    BY <1>5, Numbers DEF Restart, Kept, TypeOK, Time
  <2> QED
    BY <2>2, <2>3 DEF Kept, TypeOK, Aimed, At
<1>6. ASSUME NEW q \in Actors, Fail(q) PROVE Kept'
  BY <1>6, StepKept
<1>7. CASE UNCHANGED vars
  BY <1>7 DEF vars, Kept, TypeOK, Aimed, At
<1> QED
  BY <1>1, <1>2, <1>3, <1>4, <1>5, <1>6, <1>7 DEF Next, Disturbance

LEMMA AlwaysKept == Spec => []Kept
BY InitKept, NextKept, PTL DEF Spec

-----------------------------------------------------------------------------
\* Every variable has its type, and nothing carries a time to come.
THEOREM TypeCorrect == Spec => []TypeOK
<1>1. Kept => TypeOK
  BY DEF Kept
<1> QED
  BY <1>1, AlwaysKept, PTL

\* What a DELETE takes is older than the window that its prune read.
LEMMA DeletesOld ==
  ASSUME Kept, NEW q \in Actors, Delete(q), NEW row \in log \ log'
  PROVE  /\ op[q].days \notin {Forever, Absurd}
         /\ row < now - op[q].days * TicksPerDay
<1> DEFINE back == op[q].days * TicksPerDay
<1>1. /\ op[q].days \in 1..MaxDays /\ op[q].time <= now - back
      /\ op[q].time \in Nat /\ row \in Nat /\ now \in Nat
  BY Numbers DEF Delete, Kept, TypeOK, Aimed, At, Request, Time
<1>2. Precedes(Stamp(row), Stamp(op[q].time))
  BY DEF Delete
<1>3. row < op[q].time
  BY <1>1, <1>2, EarlierText
<1>4. back \in Nat
  BY <1>1, Numbers
<1> HIDE DEF back
<1>5. row < now - back
  BY <1>1, <1>3, <1>4
<1> QED
  BY <1>1, <1>5, Numbers DEF back

\* Rows go only by a DELETE (audit.rs).
LEMMA OnlyDeletes ==
  ASSUME Kept, [Next]_vars, NEW row \in log \ log'
  PROVE  \E q \in Actors : Delete(q)
<1>1. Procs \subseteq Actors /\ Pruner \in Actors
  BY DEF Actors
<1>2. log' # log
  OBVIOUS
<1> QED
  BY <1>1, <1>2
  DEF Next, RequestStep, RecordBegin, Insert, SetBegin, Store, PruneBegin,
      PruneStep, ReadWindow, Cut, Panic, Wake, Tick, Disturbance, Restart, Fail,
      vars

\* A row goes only once it is older than the window that its prune read, for
\* every window and clock (prune).
THEOREM OldRowsGo == Spec => OnlyOldRowsGo
<1>1. Kept /\ [Next]_vars =>
        [\A row \in log \ log' : \E q \in Actors :
           /\ Delete(q)
           /\ op[q].days \notin {Forever, Absurd}
           /\ row < now - op[q].days * TicksPerDay]_vars
  BY OnlyDeletes, DeletesOld
<1> QED
  BY <1>1, AlwaysKept, PTL DEF Spec, OnlyOldRowsGo
=================================================================================
