----------------------------- MODULE HandlersProofs -----------------------------
(***************************************************************************)
(* Theorems about Handlers and the rules of tokens it decides on, for any  *)
(* users, tokens, patterns, subnets and paths: that the comparisons of     *)
(* AccessRules decide what patterns, subnets and LIST prefixes stand for,  *)
(* and every invariant of Handlers, from one inductive invariant, Ruled.   *)
(*                                                                         *)
(* Dir is a recursive function of a path.  What holds of every path is     *)
(* shown by induction over its segments, as the existence of a smallest    *)
(* counterexample (Smallest, SegmentInduction).                            *)
(***************************************************************************)
EXTENDS Handlers, SequenceTheorems, WellFoundedInduction, TLAPS

\* What text consists of.
Chars == Letters \cup {"/", "*"}

LEMMA Smallest ==
  ASSUME NEW S \in SUBSET Nat, S # {}
  PROVE  \E n \in S : \A k \in S : n <= k
<1> DEFINE R == {ss \in Nat \X Nat : ss[1] < ss[2]}
<1>1. IsWellFoundedOn(R, Nat)
  BY NatLessThanWellFounded DEF OpToRel
<1>2. \E x \in S : \A y \in S : ~(<<y, x>> \in R)
  <2> HIDE DEF R
  <2> QED
    BY <1>1, WFMin
<1>3. PICK n \in S : \A k \in S : ~(<<k, n>> \in R)
  BY <1>2
<1>4. ASSUME NEW k \in S PROVE n <= k
  <2>1. <<k, n>> \in Nat \X Nat /\ ~(<<k, n>> \in R)
    BY <1>3
  <2>2. ~(k < n)
    BY <2>1
  <2> QED
    BY <2>2
<1> QED
  BY <1>4

\* The equation of a function defined by recursion on segments.
Joins(f, segments) ==
  f = [n \in 0..Len(segments) |->
         IF n = 0 THEN <<>> ELSE f[n - 1] \o segments[n] \o Slash]

LEMMA DirJoins ==
  ASSUME NEW p \in Seq(Segment)
  PROVE  \E f : Joins(f, p) /\ Dir(p) = f[Len(p)]
<1> DEFINE Solved(m) ==
             \E f : f = [n \in 0..m |->
                           IF n = 0 THEN <<>> ELSE f[n - 1] \o p[n] \o Slash]
           Bad == {m \in Nat : ~Solved(m)}
<1>1. \A m \in Nat : Solved(m)
  <2> SUFFICES ASSUME Bad # {} PROVE FALSE
    OBVIOUS
  <2>1. PICK m \in Bad : \A k \in Bad : m <= k
    <3> HIDE DEF Bad
    <3>1. Bad \in SUBSET Nat
      BY DEF Bad
    <3> QED
      BY <3>1, Smallest
  <2>2. CASE m = 0
    <3> DEFINE f == [n \in 0..0 |-> <<>>]
    <3>1. f = [n \in 0..0 |-> IF n = 0 THEN <<>> ELSE f[n - 1] \o p[n] \o Slash]
      OBVIOUS
    <3> QED
      BY <2>1, <2>2, <3>1
  <2>3. CASE m # 0
    <3>1. m - 1 \in Nat /\ m - 1 \notin Bad
      <4>1. m \in Nat /\ \A k \in Bad : m <= k
        BY <2>1
      <4>2. m - 1 \in Nat /\ ~(m <= m - 1)
        BY <4>1, <2>3
      <4> HIDE DEF Bad
      <4> QED
        BY <4>1, <4>2
    <3>2. PICK f : f = [n \in 0..(m - 1) |->
                         IF n = 0 THEN <<>> ELSE f[n - 1] \o p[n] \o Slash]
      BY <3>1
    <3> DEFINE g == [n \in 0..m |->
                       IF n = m THEN f[m - 1] \o p[m] \o Slash ELSE f[n]]
    <3>3. g = [n \in 0..m |-> IF n = 0 THEN <<>> ELSE g[n - 1] \o p[n] \o Slash]
      <4> SUFFICES ASSUME NEW n \in 0..m
                   PROVE  g[n] = IF n = 0 THEN <<>>
                            ELSE g[n - 1] \o p[n] \o Slash
        OBVIOUS
      <4>1. CASE n = 0
        BY <4>1, <2>3, <3>1, <3>2
      <4>2. CASE n = m
        <5>1. g[m - 1] = f[m - 1]
          BY <2>3, <3>1
        <5> QED
          BY <4>2, <5>1, <2>3, <3>1
      <4>3. CASE n # 0 /\ n # m
        <5>1. n \in 0..(m - 1) /\ n - 1 \in 0..m /\ n - 1 # m
          BY <4>3, <3>1
        <5>2. f[n] = f[n - 1] \o p[n] \o Slash
          BY <5>1, <4>3, <3>2
        <5> QED
          BY <4>3, <5>1, <5>2
      <4> QED
        BY <4>1, <4>2, <4>3
    <3> QED
      BY <2>1, <3>3
  <2> QED
    BY <2>2, <2>3
<1>2. Solved(Len(p))
  BY <1>1, LenProperties
<1> QED
  BY <1>2 DEF Dir, Joins

LEMMA JoinsStep ==
  ASSUME NEW p \in Seq(Segment), NEW f, Joins(f, p)
  PROVE  f[0] = <<>> /\ \A n \in 1..Len(p) : f[n] = f[n - 1] \o p[n] \o Slash
<1>1. Len(p) \in Nat
  BY LenProperties
<1>2. \A n \in 0..Len(p) :
        f[n] = IF n = 0 THEN <<>> ELSE f[n - 1] \o p[n] \o Slash
  BY Zenon DEF Joins
<1> QED
  <2>1. 0 \in 0..Len(p) /\ \A n \in 1..Len(p) : n \in 0..Len(p) /\ n # 0
    BY <1>1
  <2> QED
    BY <1>2, <2>1, Zenon

LEMMA Initial ==
  ASSUME NEW X, NEW s \in Seq(X), NEW k \in 0..Len(s)
  PROVE  /\ SubSeq(s, 1, k) \in Seq(X) /\ Len(SubSeq(s, 1, k)) = k
         /\ \A i \in 1..k : SubSeq(s, 1, k)[i] = s[i]
<1>1. Len(s) \in Nat
  BY LenProperties
<1>2. k \in Nat /\ \A i \in 1..k : s[i] \in X
  BY <1>1, ElementOfSeq
<1>3. SubSeq(s, 1, k) \in Seq(X)
  BY <1>2
<1>4. Len(SubSeq(s, 1, k)) = k
  BY <1>2
<1>5. \A i \in 1..k : SubSeq(s, 1, k)[i] = s[i]
  BY <1>2
<1> QED
  BY <1>3, <1>4, <1>5

LEMMA FrontLast ==
  ASSUME NEW X, NEW s \in Seq(X), s # <<>>
  PROVE  /\ Len(s) \in Nat \ {0}
         /\ Front(s) \in Seq(X) /\ Len(Front(s)) = Len(s) - 1
         /\ \A i \in 1..(Len(s) - 1) : Front(s)[i] = s[i]
         /\ Last(s) \in X /\ Last(s) = s[Len(s)]
<1>1. Len(s) \in Nat /\ Len(s) # 0
  BY EmptySeq, LenProperties
<1>2. Len(s) - 1 \in 0..Len(s)
  BY <1>1
<1>3. /\ SubSeq(s, 1, Len(s) - 1) \in Seq(X)
      /\ Len(SubSeq(s, 1, Len(s) - 1)) = Len(s) - 1
      /\ \A i \in 1..(Len(s) - 1) : SubSeq(s, 1, Len(s) - 1)[i] = s[i]
  BY <1>2, Initial
<1>4. s[Len(s)] \in X
  BY <1>1, ElementOfSeq
<1> QED
  BY <1>1, <1>3, <1>4 DEF Front, Last

\* Induction on segments, with a set for the property.
LEMMA SegmentInduction ==
  ASSUME NEW S, <<>> \in S,
         \A p \in Seq(Segment) \ {<<>>} : Front(p) \in S => p \in S
  PROVE  Seq(Segment) \subseteq S
<1> DEFINE Bad == {n \in Nat : \E p \in Seq(Segment) : Len(p) = n /\ p \notin S}
<1> SUFFICES ASSUME NEW p \in Seq(Segment), p \notin S PROVE FALSE
  OBVIOUS
<1>1. Len(p) \in Bad /\ Bad \in SUBSET Nat
  BY LenProperties
<1>2. PICK n \in Bad : \A k \in Bad : n <= k
  <2> HIDE DEF Bad
  <2> QED
    BY <1>1, Smallest
<1>3. PICK q \in Seq(Segment) : Len(q) = n /\ q \notin S
  OBVIOUS
<1>4. q # <<>> /\ Front(q) \notin S
  BY <1>3
<1>5. Front(q) \in Seq(Segment) /\ Len(Front(q)) = n - 1 /\ n \in Nat \ {0}
  BY <1>3, <1>4, FrontLast
<1>6. n - 1 \in Bad
  BY <1>4, <1>5
<1> HIDE DEF Bad
<1> QED
  BY <1>2, <1>5, <1>6

-----------------------------------------------------------------------------
(* Directories as text                                                      *)

\* What Dir computes, one segment at a time.
LEMMA DirRecursion ==
  /\ Dir(<<>>) = <<>>
  /\ \A p \in Seq(Segment) \ {<<>>} : Dir(p) = Dir(Front(p)) \o Last(p) \o Slash
<1>1. Dir(<<>>) = <<>>
  <2>1. <<>> \in Seq(Segment) /\ Len(<<>>) = 0
    OBVIOUS
  <2>2. PICK f : Joins(f, <<>>) /\ Dir(<<>>) = f[Len(<<>>)]
    BY <2>1, DirJoins
  <2> QED
    BY <2>1, <2>2, JoinsStep
<1>2. ASSUME NEW p \in Seq(Segment), p # <<>>
      PROVE  Dir(p) = Dir(Front(p)) \o Last(p) \o Slash
  <2> DEFINE q == Front(p)
  <2>1. /\ q \in Seq(Segment) /\ Len(p) \in Nat \ {0} /\ Len(q) = Len(p) - 1
        /\ \A i \in 1..(Len(p) - 1) : q[i] = p[i]
        /\ Last(p) = p[Len(p)]
    BY <1>2, FrontLast
  <2> HIDE DEF q
  <2>2. PICK f : Joins(f, p) /\ Dir(p) = f[Len(p)]
    BY DirJoins
  <2>3. PICK g : Joins(g, q) /\ Dir(q) = g[Len(q)]
    BY <2>1, DirJoins
  <2>4. f[0] = <<>> /\ \A n \in 1..Len(p) : f[n] = f[n - 1] \o p[n] \o Slash
    BY <2>2, JoinsStep, Zenon
  <2>5. g[0] = <<>> /\ \A n \in 1..Len(q) : g[n] = g[n - 1] \o q[n] \o Slash
    BY <2>1, <2>3, JoinsStep, Zenon
  <2> DEFINE Bad == {n \in 0..Len(q) : f[n] # g[n]}
  <2>6. Bad = {}
    <3> SUFFICES ASSUME Bad # {} PROVE FALSE
      OBVIOUS
    <3>1. Bad \in SUBSET Nat
      BY <2>1
    <3>2. PICK n \in Bad : \A k \in Bad : n <= k
      <4> HIDE DEF Bad
      <4> QED
        BY <3>1, Smallest
    <3>3. n \in 0..Len(q) /\ f[n] # g[n]
      OBVIOUS
    <3>4. n # 0
      BY <2>4, <2>5, <3>3
    <3>5. n \in 1..(Len(p) - 1) /\ n \in 1..Len(p) /\ n \in 1..Len(q)
            /\ n - 1 \in 0..Len(q) /\ ~(n <= n - 1)
      BY <2>1, <3>3, <3>4
    <3>6. f[n - 1] = g[n - 1]
      BY <3>2, <3>5
    <3>7. f[n] = f[n - 1] \o p[n] \o Slash
      BY <2>4, <3>5, Zenon
    <3>8. g[n] = g[n - 1] \o q[n] \o Slash
      BY <2>5, <3>5, Zenon
    <3>9. q[n] = p[n]
      BY <2>1, <3>5
    <3> QED
      BY <3>3, <3>6, <3>7, <3>8, <3>9
  <2>7. f[Len(p) - 1] = g[Len(q)]
    BY <2>1, <2>6
  <2>8. f[Len(p)] = f[Len(p) - 1] \o p[Len(p)] \o Slash
    <3>1. Len(p) \in 1..Len(p)
      BY <2>1
    <3> QED
      BY <2>4, <3>1, Zenon
  <2> QED
    BY <2>1, <2>2, <2>3, <2>7, <2>8 DEF q
<1> QED
  BY <1>1, <1>2

\* t is d with s behind it, and u is d with s and a slash behind it.
Follows(d, s, t) ==
  /\ Len(d) \in Nat /\ Len(s) \in Nat /\ Len(t) = Len(d) + Len(s)
  /\ \A i \in 1..Len(d) : t[i] = d[i]
  /\ \A i \in 1..Len(s) : t[Len(d) + i] = s[i]
Closes(d, s, u) ==
  /\ Len(d) \in Nat /\ Len(s) \in Nat /\ Len(u) = Len(d) + Len(s) + 1
  /\ \A i \in 1..Len(d) : u[i] = d[i]
  /\ \A i \in 1..Len(s) : u[Len(d) + i] = s[i]
  /\ u[Len(d) + Len(s) + 1] = "/"

LEMMA Behind ==
  ASSUME NEW X, NEW d \in Seq(X), NEW s \in Seq(X), NEW t, t = d \o s
  PROVE  t \in Seq(X) /\ Follows(d, s, t)
<1>1. Len(d) \in Nat /\ Len(s) \in Nat
  BY LenProperties
<1>2. /\ t \in Seq(X) /\ Len(t) = Len(d) + Len(s)
      /\ \A i \in 1..(Len(d) + Len(s)) :
         t[i] = IF i <= Len(d) THEN d[i] ELSE s[i - Len(d)]
  BY ConcatProperties
<1>3. \A i \in 1..Len(d) : t[i] = d[i]
  BY <1>1, <1>2
<1>4. \A i \in 1..Len(s) : t[Len(d) + i] = s[i]
  BY <1>1, <1>2
<1> QED
  BY <1>1, <1>2, <1>3, <1>4 DEF Follows

LEMMA Shapes ==
  ASSUME NEW d \in Seq(Chars), NEW s \in Segment,
         NEW t, t = d \o s, NEW u, u = t \o Slash
  PROVE  /\ t \in Seq(Chars) /\ Follows(d, s, t) /\ u \in Seq(Chars)
         /\ Closes(d, s, u)
<1>1. s \in Seq(Chars)
  BY SeqMonotonic DEF Segment, Chars
<1>2. Slash \in Seq(Chars) /\ Len(Slash) = 1 /\ Slash[1] = "/"
  BY DEF Slash, Chars
<1>3. t \in Seq(Chars) /\ Follows(d, s, t)
  BY <1>1, Behind
<1>4. u \in Seq(Chars) /\ Follows(t, Slash, u)
  BY <1>2, <1>3, Behind
<1>5. Len(u) = Len(d) + Len(s) + 1 /\ u[Len(d) + Len(s) + 1] = "/"
  BY <1>2, <1>3, <1>4 DEF Follows
<1>6. \A i \in 1..Len(d) : u[i] = d[i]
  BY <1>3, <1>4 DEF Follows
<1>7. \A i \in 1..Len(s) : u[Len(d) + i] = s[i]
  BY <1>3, <1>4 DEF Follows
<1>8. Closes(d, s, u)
  BY <1>3, <1>5, <1>6, <1>7 DEF Follows, Closes
<1> QED
  BY <1>3, <1>4, <1>8

LEMMA DirType == \A p \in Seq(Segment) : Dir(p) \in Seq(Chars)
<1> DEFINE S == {p \in Seq(Segment) : Dir(p) \in Seq(Chars)}
<1>1. <<>> \in S
  BY DirRecursion, EmptySeq
<1>2. ASSUME NEW p \in Seq(Segment) \ {<<>>}, Front(p) \in S PROVE p \in S
  <2>1. Last(p) \in Segment
    BY FrontLast
  <2>2. /\ Dir(p) = Dir(Front(p)) \o Last(p) \o Slash
        /\ Dir(Front(p)) \in Seq(Chars)
    BY <1>2, DirRecursion
  <2> QED
    BY <1>2, <2>1, <2>2, Shapes
<1>3. Seq(Segment) \subseteq S
  <2> HIDE DEF S
  <2> QED
    BY <1>1, <1>2, SegmentInduction
<1> QED
  BY <1>3

\* A directory and its last segment in its text.
LEMMA DirShape ==
  ASSUME NEW p \in Path, NEW d, NEW s, d = Dir(Front(p)), s = Last(p)
  PROVE  /\ d \in Seq(Chars) /\ s \in Segment
         /\ Dir(p) \in Seq(Chars) /\ Text(p) \in Seq(Chars)
         /\ Follows(d, s, Text(p)) /\ Closes(d, s, Dir(p))
<1>1. /\ p \in Seq(Segment) /\ p # <<>> /\ Front(p) \in Seq(Segment)
      /\ Last(p) \in Segment
  BY FrontLast DEF Path
<1>2. d \in Seq(Chars) /\ s \in Segment
  BY <1>1, DirType
<1>3. Dir(p) = d \o s \o Slash /\ Text(p) = d \o s
  BY <1>1, DirRecursion DEF Text
<1>4. /\ Text(p) \in Seq(Chars) /\ Follows(d, s, Text(p))
      /\ Dir(p) \in Seq(Chars) /\ Closes(d, s, Dir(p))
  BY <1>2, <1>3, Shapes
<1> QED
  BY <1>2, <1>4

-----------------------------------------------------------------------------
(* Prefixes and the first segments of a path                                *)

\* t starts with s, place by place; the first k elements of p.
Starts(s, t) == Len(s) <= Len(t) /\ \A i \in 1..Len(s) : s[i] = t[i]
Cut(p, k) == SubSeq(p, 1, k)

LEMMA PrefixIsStart ==
  ASSUME NEW X, NEW s \in Seq(X), NEW t \in Seq(X)
  PROVE  IsPrefix(s, t) <=> Starts(s, t)
<1>1. Len(s) \in Nat /\ Len(t) \in Nat
  BY LenProperties
<1>2. CASE Len(s) <= Len(t)
  <2> DEFINE a == SubSeq(s, 1, Len(s))
             b == SubSeq(t, 1, Len(s))
  <2>1. Len(s) \in 0..Len(s) /\ Len(s) \in 0..Len(t)
    BY <1>1, <1>2
  <2>2. a \in Seq(X) /\ Len(a) = Len(s) /\ \A i \in 1..Len(s) : a[i] = s[i]
    BY <2>1, Initial
  <2>3. b \in Seq(X) /\ Len(b) = Len(s) /\ \A i \in 1..Len(s) : b[i] = t[i]
    BY <2>1, Initial
  <2>4. a = b <=> \A i \in 1..Len(s) : s[i] = t[i]
    <3> HIDE DEF a, b
    <3>1. ASSUME a = b PROVE \A i \in 1..Len(s) : s[i] = t[i]
      BY <2>2, <2>3, <3>1
    <3>2. ASSUME \A i \in 1..Len(s) : s[i] = t[i] PROVE a = b
      <4>1. Len(a) = Len(b) /\ \A i \in 1..Len(a) : a[i] = b[i]
        BY <2>2, <2>3, <3>2
      <4> QED
        BY <2>2, <2>3, <4>1, SeqEqual
    <3> QED
      BY <3>1, <3>2
  <2> QED
    BY <1>2, <2>4 DEF IsPrefix, Starts
<1>3. CASE ~(Len(s) <= Len(t))
  BY <1>3 DEF IsPrefix, Starts
<1> QED
  BY <1>2, <1>3

LEMMA CutSeq ==
  ASSUME NEW X, NEW p \in Seq(X), NEW k \in 0..Len(p)
  PROVE  /\ Cut(p, k) \in Seq(X) /\ Len(Cut(p, k)) = k /\ k \in Nat
         /\ \A i \in 1..k : Cut(p, k)[i] = p[i]
<1>1. k \in Nat
  BY LenProperties
<1> QED
  BY <1>1, Initial DEF Cut

LEMMA CutsAgree ==
  ASSUME NEW X, NEW p \in Seq(X), NEW q \in Seq(X),
         NEW k \in 0..Len(p), k \in 0..Len(q), \A i \in 1..k : p[i] = q[i]
  PROVE  Cut(p, k) = Cut(q, k)
<1> DEFINE a == Cut(p, k)
           b == Cut(q, k)
<1>1. a \in Seq(X) /\ Len(a) = k /\ \A i \in 1..k : a[i] = p[i]
  BY CutSeq
<1>2. b \in Seq(X) /\ Len(b) = k /\ \A i \in 1..k : b[i] = q[i]
  BY CutSeq
<1> HIDE DEF a, b
<1>3. Len(a) = Len(b) /\ \A i \in 1..Len(a) : a[i] = b[i]
  BY <1>1, <1>2
<1>4. a = b
  BY <1>1, <1>2, <1>3, SeqEqual
<1> QED
  BY <1>4 DEF a, b

\* Cutting off one segment after the other.
LEMMA CutFrontLast ==
  ASSUME NEW X, NEW p \in Seq(X), NEW k \in 1..Len(p)
  PROVE  /\ Cut(p, k) \in Seq(X) \ {<<>>} /\ p[k] \in X
         /\ Front(Cut(p, k)) = Cut(p, k - 1) /\ Last(Cut(p, k)) = p[k]
<1>1. Len(p) \in Nat
  BY LenProperties
<1>2. /\ k \in Nat \ {0} /\ k \in 0..Len(p) /\ k - 1 \in 0..Len(p)
      /\ k - 1 \in 0..k /\ k \in 1..k
  BY <1>1
<1> DEFINE c == Cut(p, k)
<1>3. c \in Seq(X) /\ Len(c) = k /\ \A i \in 1..k : c[i] = p[i]
  BY <1>2, CutSeq
<1>4. c # <<>>
  BY <1>2, <1>3
<1>5. Last(c) = p[k]
  BY <1>2, <1>3 DEF Last
<1>6. \A i \in 1..(k - 1) : c[i] = p[i]
  BY <1>2, <1>3
<1>7. Cut(c, k - 1) = Cut(p, k - 1)
  <2> HIDE DEF c
  <2> QED
    BY <1>2, <1>3, <1>6, CutsAgree
<1>8. Front(c) = Cut(p, k - 1)
  BY <1>3, <1>7 DEF Front, Cut
<1>9. p[k] \in X
  BY ElementOfSeq
<1> QED
  BY <1>3, <1>4, <1>5, <1>8, <1>9

LEMMA DirCloses ==
  ASSUME NEW p \in Seq(Segment), NEW k \in 1..Len(p)
  PROVE  /\ p[k] \in Segment
         /\ Dir(Cut(p, k - 1)) \in Seq(Chars) /\ Dir(Cut(p, k)) \in Seq(Chars)
         /\ Closes(Dir(Cut(p, k - 1)), p[k], Dir(Cut(p, k)))
<1>1. /\ Cut(p, k) \in Path /\ p[k] \in Segment
      /\ Front(Cut(p, k)) = Cut(p, k - 1) /\ Last(Cut(p, k)) = p[k]
  BY CutFrontLast DEF Path
<1> QED
  BY <1>1, DirShape

LEMMA CutWhole ==
  ASSUME NEW X, NEW p \in Seq(X)
  PROVE  Len(p) \in Nat /\ Cut(p, Len(p)) = p
  BY LenProperties, SubSeqFull DEF Cut

LEMMA CutFront ==
  ASSUME NEW X, NEW p \in Seq(X), p # <<>>
  PROVE  /\ Len(p) \in Nat \ {0} /\ Front(p) = Cut(p, Len(p) - 1)
         /\ Front(p) \in Seq(X) /\ Len(Front(p)) = Len(p) - 1
         /\ \A k \in 0..(Len(p) - 1) : Cut(Front(p), k) = Cut(p, k)
<1>1. /\ Len(p) \in Nat \ {0} /\ Front(p) \in Seq(X)
      /\ Len(Front(p)) = Len(p) - 1
      /\ \A i \in 1..(Len(p) - 1) : Front(p)[i] = p[i]
  BY FrontLast
<1>2. Front(p) = Cut(p, Len(p) - 1)
  BY DEF Front, Cut
<1>3. ASSUME NEW k \in 0..(Len(p) - 1) PROVE Cut(Front(p), k) = Cut(p, k)
  <2>1. k \in 0..Len(Front(p)) /\ k \in 0..Len(p)
          /\ \A i \in 1..k : Front(p)[i] = p[i]
    BY <1>1
  <2> QED
    BY <1>1, <2>1, CutsAgree
<1> QED
  BY <1>1, <1>2, <1>3

LEMMA StartsTransitive ==
  ASSUME NEW X, NEW s \in Seq(X), NEW t \in Seq(X), NEW u \in Seq(X),
         Starts(s, t), Starts(t, u)
  PROVE  Starts(s, u)
<1>1. Len(s) \in Nat /\ Len(t) \in Nat /\ Len(u) \in Nat
  BY LenProperties
<1> QED
  BY <1>1 DEF Starts

\* A directory starts with each of those above it.
LEMMA DirGrows ==
  \A p \in Seq(Segment) : \A k \in 0..Len(p) : Starts(Dir(Cut(p, k)), Dir(p))
<1> DEFINE S == {p \in Seq(Segment) :
                    \A k \in 0..Len(p) : Starts(Dir(Cut(p, k)), Dir(p))}
<1>0. \A p \in Seq(Segment) : Starts(Dir(Cut(p, Len(p))), Dir(p))
  <2> TAKE p \in Seq(Segment)
  <2>1. Cut(p, Len(p)) = p /\ Len(Dir(p)) \in Nat
    BY CutWhole, DirType, LenProperties
  <2> QED
    BY <2>1 DEF Starts
<1>1. <<>> \in S
  <2>1. <<>> \in Seq(Segment) /\ Len(<<>>) = 0 /\ 0..0 = {0}
    BY EmptySeq
  <2> QED
    BY <1>0, <2>1
<1>2. ASSUME NEW p \in Seq(Segment) \ {<<>>}, Front(p) \in S PROVE p \in S
  <2>1. /\ Len(p) \in Nat \ {0} /\ Front(p) = Cut(p, Len(p) - 1)
        /\ Front(p) \in Seq(Segment) /\ Len(Front(p)) = Len(p) - 1
        /\ \A k \in 0..(Len(p) - 1) : Cut(Front(p), k) = Cut(p, k)
    BY CutFront
  <2>2. \A k \in 0..(Len(p) - 1) : Starts(Dir(Cut(Front(p), k)), Dir(Front(p)))
    BY <1>2, <2>1
  <2>3. Starts(Dir(Front(p)), Dir(p))
    <3>1. Closes(Dir(Front(p)), Last(p), Dir(p))
      BY DirShape DEF Path
    <3> QED
      BY <3>1 DEF Closes, Starts
  <2>4. ASSUME NEW k \in 0..Len(p) PROVE Starts(Dir(Cut(p, k)), Dir(p))
    <3>1. CASE k = Len(p)
      BY <1>0, <3>1
    <3>2. CASE k # Len(p)
      <4>1. k \in 0..(Len(p) - 1) /\ k \in 0..Len(Front(p))
        BY <2>1, <3>2
      <4>2. Starts(Dir(Cut(p, k)), Dir(Front(p)))
        BY <2>1, <2>2, <4>1
      <4>3. /\ Dir(Cut(p, k)) \in Seq(Chars) /\ Dir(Front(p)) \in Seq(Chars)
            /\ Dir(p) \in Seq(Chars)
        <5>1. Cut(p, k) \in Seq(Segment)
          BY CutSeq
        <5> QED
          BY <5>1, <2>1, DirType
      <4> QED
        BY <2>3, <4>2, <4>3, StartsTransitive
    <3> QED
      BY <3>1, <3>2
  <2> QED
    BY <2>4
<1>3. Seq(Segment) \subseteq S
  <2> HIDE DEF S
  <2> QED
    BY <1>1, <1>2, SegmentInduction
<1> QED
  BY <1>3

-----------------------------------------------------------------------------
(* Segments found in text                                                   *)

\* In the text t, the segment s stands behind d; a slash or the end is next.
Shows(t, d, s) ==
  /\ Len(t) \in Nat /\ Len(d) \in Nat /\ Len(s) \in Nat
  /\ Len(d) + Len(s) <= Len(t)
  /\ \A i \in 1..Len(d) : t[i] = d[i]
  /\ \A i \in 1..Len(s) : t[Len(d) + i] = s[i]
  /\ Len(d) + Len(s) < Len(t) => t[Len(d) + Len(s) + 1] = "/"

LEMMA TextShows ==
  ASSUME NEW p \in Path, NEW k \in 1..Len(p)
  PROVE  /\ p[k] \in Segment /\ Text(p) \in Seq(Chars)
         /\ Shows(Text(p), Dir(Cut(p, k - 1)), p[k])
         /\ Len(Dir(Cut(p, k - 1))) + Len(p[k]) = Len(Text(p)) <=> k = Len(p)
<1> DEFINE d == Dir(Cut(p, k - 1))
           c == Dir(Cut(p, k))
           f == Dir(Front(p))
           l == Last(p)
           t == Text(p)
<1>1. /\ p \in Seq(Segment) /\ p # <<>> /\ Len(p) \in Nat \ {0}
      /\ Front(p) = Cut(p, Len(p) - 1) /\ Front(p) \in Seq(Segment)
      /\ Len(Front(p)) = Len(p) - 1 /\ Last(p) = p[Len(p)]
      /\ \A n \in 0..(Len(p) - 1) : Cut(Front(p), n) = Cut(p, n)
  BY CutFront, FrontLast DEF Path
<1>2. /\ p[k] \in Segment /\ d \in Seq(Chars) /\ c \in Seq(Chars)
      /\ Closes(d, p[k], c)
  BY <1>1, DirCloses
<1>3. f \in Seq(Chars) /\ t \in Seq(Chars) /\ Follows(f, l, t)
  BY DirShape
<1>4. Len(t) \in Nat
  BY <1>3, LenProperties
<1>5. CASE k = Len(p)
  <2>1. d = f /\ l = p[k]
    BY <1>1, <1>5
  <2> HIDE DEF d, f, l, t
  <2>2. Follows(d, p[k], t)
    BY <1>3, <2>1
  <2>3. Shows(t, d, p[k]) /\ Len(d) + Len(p[k]) = Len(t)
    BY <1>4, <2>2 DEF Follows, Shows
  <2> QED
    BY <1>2, <1>3, <1>5, <2>3 DEF d, t
<1>6. CASE k # Len(p)
  <2>1. k \in 0..(Len(p) - 1) /\ k \in 0..Len(Front(p))
    BY <1>1, <1>6
  <2>2. Starts(c, f)
    <3>1. Starts(Dir(Cut(Front(p), k)), Dir(Front(p)))
      BY <1>1, <2>1, DirGrows
    <3> QED
      BY <1>1, <2>1, <3>1
  <2> HIDE DEF d, c, f, l, t
  <2> DEFINE s == p[k]
  <2>3. s \in Segment /\ Closes(d, s, c)
    BY <1>2
  <2> HIDE DEF s
  <2>4. /\ Len(c) = Len(d) + Len(s) + 1 /\ Len(c) <= Len(f) /\ Len(f) <= Len(t)
        /\ Len(d) \in Nat /\ Len(s) \in Nat /\ Len(f) \in Nat /\ Len(t) \in Nat
    BY <1>3, <1>4, <2>2, <2>3 DEF Closes, Follows, Starts
  <2>5. \A i \in 1..Len(c) : t[i] = c[i]
    <3> TAKE i \in 1..Len(c)
    <3>1. i \in 1..Len(f)
      BY <2>4
    <3>2. c[i] = f[i] /\ t[i] = f[i]
      BY <1>3, <2>2, <3>1 DEF Follows, Starts
    <3> QED
      BY <3>2
  <2>6. \A i \in 1..Len(d) : t[i] = d[i]
    BY <2>3, <2>4, <2>5 DEF Closes
  <2>7. \A i \in 1..Len(s) : t[Len(d) + i] = s[i]
    BY <2>3, <2>4, <2>5 DEF Closes
  <2>8. t[Len(d) + Len(s) + 1] = "/"
    BY <2>3, <2>4, <2>5 DEF Closes
  <2>9. Shows(t, d, s) /\ Len(d) + Len(s) # Len(t)
    BY <2>4, <2>6, <2>7, <2>8 DEF Shows
  <2> QED
    BY <1>2, <1>3, <1>6, <2>9 DEF d, s, t
<1> QED
  BY <1>5, <1>6

\* Two segments behind the same directory, in a text and its start.
LEMMA SegmentStarts ==
  ASSUME NEW t, NEW u, NEW d, NEW s \in Segment, NEW r \in Segment,
         Starts(t, u), Shows(t, d, s), Shows(u, d, r)
  PROVE  /\ Starts(s, r)
         /\ Len(d) + Len(s) # Len(t) => s = r /\ Len(d) + Len(r) # Len(u)
<1>1. /\ Len(t) \in Nat /\ Len(u) \in Nat /\ Len(d) \in Nat
      /\ Len(s) \in Nat /\ Len(r) \in Nat /\ Len(t) <= Len(u)
      /\ Len(d) + Len(s) <= Len(t) /\ Len(d) + Len(r) <= Len(u)
  BY DEF Starts, Shows
<1>2. /\ \A i \in 1..Len(t) : t[i] = u[i]
      /\ \A i \in 1..Len(s) : t[Len(d) + i] = s[i]
      /\ \A i \in 1..Len(r) : u[Len(d) + i] = r[i]
  BY DEF Starts, Shows
<1>3. \A i \in 1..Len(s) : u[Len(d) + i] = s[i]
  <2> TAKE i \in 1..Len(s)
  <2>1. Len(d) + i \in 1..Len(t)
    BY <1>1
  <2> QED
    BY <1>2, <2>1
<1>4. Len(s) <= Len(r)
  <2> SUFFICES ASSUME Len(r) < Len(s) PROVE FALSE
    BY <1>1
  <2>1. Len(r) + 1 \in 1..Len(s) /\ Len(d) + Len(r) < Len(u)
    BY <1>1
  <2>2. s[Len(r) + 1] \in Letters
    BY <2>1, ElementOfSeq DEF Segment
  <2>3. u[Len(d) + Len(r) + 1] = "/"
    BY <2>1 DEF Shows
  <2>4. u[Len(d) + (Len(r) + 1)] = s[Len(r) + 1]
    BY <1>3, <2>1
  <2>5. Len(d) + (Len(r) + 1) = Len(d) + Len(r) + 1
    BY <1>1
  <2> QED
    BY <2>2, <2>3, <2>4, <2>5, LettersAssumption
<1>5. \A i \in 1..Len(s) : s[i] = r[i]
  BY <1>1, <1>2, <1>3, <1>4
<1>6. ASSUME Len(d) + Len(s) # Len(t) PROVE s = r /\ Len(d) + Len(r) # Len(u)
  <2>1. Len(d) + Len(s) < Len(t) /\ Len(d) + Len(s) + 1 \in 1..Len(t)
    BY <1>1, <1>6
  <2>2. t[Len(d) + Len(s) + 1] = "/"
    BY <2>1 DEF Shows
  <2>3. u[Len(d) + Len(s) + 1] = "/"
    BY <1>2, <2>1, <2>2
  <2>4. Len(s) = Len(r)
    <3> SUFFICES ASSUME Len(s) < Len(r) PROVE FALSE
      BY <1>1, <1>4
    <3>1. Len(s) + 1 \in 1..Len(r)
      BY <1>1
    <3>2. r[Len(s) + 1] \in Letters
      BY <3>1, ElementOfSeq DEF Segment
    <3>3. u[Len(d) + (Len(s) + 1)] = r[Len(s) + 1]
      BY <1>2, <3>1
    <3>4. Len(d) + (Len(s) + 1) = Len(d) + Len(s) + 1
      BY <1>1
    <3> QED
      BY <2>3, <3>2, <3>3, <3>4, LettersAssumption
  <2>5. s = r
    BY <1>5, <2>4, SeqEqual DEF Segment
  <2>6. Len(d) + Len(r) # Len(u)
    BY <1>1, <2>1, <2>4
  <2> QED
    BY <2>5, <2>6
<1> QED
  BY <1>4, <1>5, <1>6 DEF Starts

\* What it means for a text to start with another, in terms of segments.
Leads(q, p) ==
  /\ Len(q) <= Len(p)
  /\ \A n \in 1..(Len(q) - 1) : p[n] = q[n]
  /\ Starts(Last(q), p[Len(q)])

LEMMA LeadingStarts ==
  ASSUME NEW q \in Path, NEW p \in Path, Leads(q, p)
  PROVE  Starts(Text(q), Text(p))
<1>1. /\ q \in Seq(Segment) /\ p \in Seq(Segment)
      /\ Len(q) \in Nat \ {0} /\ Len(p) \in Nat \ {0} /\ Last(q) = q[Len(q)]
  BY FrontLast DEF Path
<1> DEFINE k == Len(q)
           d == Dir(Cut(q, k - 1))
           s == q[k]
           r == p[k]
           t == Text(q)
           u == Text(p)
<1>2. /\ k \in 1..Len(q) /\ k \in 1..Len(p) /\ k - 1 \in 0..Len(q)
      /\ k - 1 \in 0..Len(p)
  BY <1>1 DEF Leads
<1>3. Cut(p, k - 1) = Cut(q, k - 1)
  BY <1>1, <1>2, CutsAgree DEF Leads
<1>4. Shows(t, d, s) /\ Len(d) + Len(s) = Len(t)
  BY <1>2, TextShows
<1>5. Shows(u, d, r)
  BY <1>2, <1>3, TextShows
<1>6. Starts(s, r)
  BY <1>1 DEF Leads
<1> HIDE DEF d, s, r, t, u
<1>7. Len(t) <= Len(u)
  BY <1>4, <1>5, <1>6 DEF Shows, Starts
<1>8. ASSUME NEW i \in 1..Len(t) PROVE t[i] = u[i]
  <2>1. CASE i <= Len(d)
    BY <1>4, <1>5, <2>1 DEF Shows
  <2>2. CASE i > Len(d)
    <3>1. /\ i - Len(d) \in 1..Len(s) /\ i - Len(d) \in 1..Len(r)
          /\ Len(d) + (i - Len(d)) = i
      BY <1>4, <1>5, <1>6, <2>2 DEF Shows, Starts
    <3>2. /\ t[Len(d) + (i - Len(d))] = s[i - Len(d)]
          /\ u[Len(d) + (i - Len(d))] = r[i - Len(d)]
      BY <1>4, <1>5, <3>1 DEF Shows
    <3> QED
      BY <1>6, <3>1, <3>2 DEF Starts
  <2> QED
    BY <1>4, <2>1, <2>2 DEF Shows
<1> QED
  BY <1>7, <1>8 DEF Starts, t, u

LEMMA StartingLeads ==
  ASSUME NEW q \in Path, NEW p \in Path, Starts(Text(q), Text(p))
  PROVE  Leads(q, p)
<1>1. /\ q \in Seq(Segment) /\ p \in Seq(Segment)
      /\ Len(q) \in Nat \ {0} /\ Len(p) \in Nat \ {0} /\ Last(q) = q[Len(q)]
  BY FrontLast DEF Path
<1>2. ASSUME NEW n \in 1..Len(q), n <= Len(p), \A i \in 1..(n - 1) : p[i] = q[i]
      PROVE  Starts(q[n], p[n]) /\ (n < Len(q) => n < Len(p) /\ p[n] = q[n])
  <2> DEFINE d == Dir(Cut(q, n - 1))
  <2>1. n \in 1..Len(p) /\ n - 1 \in 0..Len(q) /\ n - 1 \in 0..Len(p)
    BY <1>1, <1>2
  <2>2. Cut(p, n - 1) = Cut(q, n - 1)
    BY <1>1, <1>2, <2>1, CutsAgree
  <2>3. /\ q[n] \in Segment /\ Shows(Text(q), d, q[n])
        /\ Len(d) + Len(q[n]) = Len(Text(q)) <=> n = Len(q)
    BY TextShows
  <2>4. /\ p[n] \in Segment /\ Shows(Text(p), d, p[n])
        /\ Len(d) + Len(p[n]) = Len(Text(p)) <=> n = Len(p)
    BY <2>1, <2>2, TextShows
  <2> HIDE DEF d
  <2>5. /\ Starts(q[n], p[n])
        /\ Len(d) + Len(q[n]) # Len(Text(q)) =>
             q[n] = p[n] /\ Len(d) + Len(p[n]) # Len(Text(p))
    BY <2>3, <2>4, SegmentStarts
  <2>6. n < Len(q) => n # Len(q)
    BY <1>1
  <2>7. n # Len(p) => n < Len(p)
    BY <1>1, <2>1
  <2> QED
    BY <2>3, <2>4, <2>5, <2>6, <2>7
<1> DEFINE Bad == {n \in 1..(Len(q) - 1) : ~(n < Len(p) /\ p[n] = q[n])}
<1>3. Bad = {}
  <2> SUFFICES ASSUME Bad # {} PROVE FALSE
    OBVIOUS
  <2>1. Bad \in SUBSET Nat
    BY <1>1
  <2>2. PICK n \in Bad : \A k \in Bad : n <= k
    <3> HIDE DEF Bad
    <3> QED
      BY <2>1, Smallest
  <2>3. n \in 1..Len(q) /\ n < Len(q)
    BY <1>1
  <2>4. \A i \in 1..(n - 1) : i < Len(p) /\ p[i] = q[i]
    <3> TAKE i \in 1..(n - 1)
    <3>1. i \in 1..(Len(q) - 1) /\ ~(n <= i)
      BY <1>1
    <3>2. i \notin Bad
      BY <2>2, <3>1
    <3> QED
      BY <3>1, <3>2
  <2>5. n <= Len(p)
    <3>1. CASE n = 1
      BY <1>1, <3>1
    <3>2. CASE n # 1
      <4>1. n - 1 \in 1..(n - 1)
        BY <2>3, <3>2
      <4>2. n - 1 < Len(p)
        BY <2>4, <4>1
      <4> QED
        BY <1>1, <2>3, <4>2
    <3> QED
      BY <3>1, <3>2
  <2>6. n < Len(p) /\ p[n] = q[n]
    BY <1>2, <2>3, <2>4, <2>5
  <2> QED
    BY <2>6
<1>4. \A n \in 1..(Len(q) - 1) : n < Len(p) /\ p[n] = q[n]
  BY <1>3
<1>5. Len(q) <= Len(p)
  <2>1. CASE Len(q) = 1
    BY <1>1, <2>1
  <2>2. CASE Len(q) # 1
    <3>1. Len(q) - 1 \in 1..(Len(q) - 1)
      <4>1. \A m \in Nat \ {0} : m # 1 => m - 1 \in 1..(m - 1)
        OBVIOUS
      <4> QED
        BY <1>1, <2>2, <4>1
    <3>2. Len(q) - 1 < Len(p)
      BY <1>4, <3>1
    <3> QED
      BY <1>1, <3>2
  <2> QED
    BY <2>1, <2>2
<1>6. Starts(q[Len(q)], p[Len(q)])
  <2>1. Len(q) \in 1..Len(q)
    BY <1>1
  <2> QED
    BY <1>2, <1>4, <1>5, <2>1
<1> QED
  BY <1>1, <1>4, <1>5, <1>6 DEF Leads

LEMMA EqualTexts ==
  ASSUME NEW q \in Path, NEW p \in Path, Text(q) = Text(p)
  PROVE  q = p
<1>1. /\ q \in Seq(Segment) /\ p \in Seq(Segment)
      /\ Len(q) \in Nat \ {0} /\ Len(p) \in Nat \ {0}
      /\ Last(q) = q[Len(q)] /\ Last(q) \in Segment
      /\ Last(p) = p[Len(p)] /\ Last(p) \in Segment
  BY FrontLast DEF Path
<1>2. Len(Text(q)) \in Nat
  BY DirShape, LenProperties
<1>3. Starts(Text(q), Text(p)) /\ Starts(Text(p), Text(q))
  BY <1>2 DEF Starts
<1>4. Leads(q, p) /\ Leads(p, q)
  BY <1>3, StartingLeads
<1>5. Len(q) = Len(p)
  BY <1>1, <1>4 DEF Leads
<1>6. Last(q) = Last(p)
  <2>1. Starts(Last(q), Last(p)) /\ Starts(Last(p), Last(q))
    BY <1>1, <1>4, <1>5 DEF Leads
  <2>2. Len(Last(q)) \in Nat /\ Len(Last(p)) \in Nat
    BY <1>1, LenProperties DEF Segment
  <2>3. Len(Last(q)) = Len(Last(p))
          /\ \A i \in 1..Len(Last(q)) : Last(q)[i] = Last(p)[i]
    BY <2>1, <2>2 DEF Starts
  <2> QED
    BY <1>1, <2>3, SeqEqual DEF Segment
<1>7. \A n \in 1..Len(q) : q[n] = p[n]
  <2> TAKE n \in 1..Len(q)
  <2>1. CASE n = Len(q)
    BY <1>1, <1>5, <1>6, <2>1
  <2>2. CASE n # Len(q)
    <3>1. n \in 1..(Len(q) - 1)
      BY <1>1, <2>2
    <3> QED
      BY <1>4, <3>1 DEF Leads
  <2> QED
    BY <2>1, <2>2
<1> QED
  BY <1>1, <1>5, <1>7, SeqEqual

-----------------------------------------------------------------------------
(* Patterns                                                                 *)

\* A text ends in a star exactly if its last segment does.
LEMMA TextEnds ==
  ASSUME NEW p \in Path, EndsInStar(Text(p))
  PROVE  EndsInStar(Last(p))
<1> DEFINE d == Dir(Front(p))
           l == Last(p)
           t == Text(p)
<1>1. /\ d \in Seq(Chars) /\ l \in Segment /\ t \in Seq(Chars)
      /\ Follows(d, l, t)
  BY DirShape
<1>2. t # <<>> /\ t[Len(t)] = "*"
  BY DEF EndsInStar, Last
<1>3. /\ Len(t) \in Nat \ {0} /\ Len(d) \in Nat /\ Len(l) \in Nat
      /\ Len(t) = Len(d) + Len(l)
  BY <1>1, <1>2, EmptySeq DEF Follows
<1>4. ASSUME Len(l) = 0 PROVE FALSE
  <2>1. Len(d) \in 1..Len(d) /\ Len(d) = Len(t)
    BY <1>3, <1>4
  <2>2. d[Len(d)] = "*"
    BY <1>1, <1>2, <2>1 DEF Follows
  <2>3. Front(p) \in Seq(Segment)
    BY FrontLast DEF Path
  <2>4. Front(p) # <<>>
    <3>1. Dir(<<>>) = <<>> /\ Len(<<>>) = 0
      BY DirRecursion, EmptySeq
    <3> QED
      BY <2>1, <3>1
  <2>5. Closes(Dir(Front(Front(p))), Last(Front(p)), d)
    BY <2>3, <2>4, DirShape DEF Path
  <2>6. d[Len(d)] = "/"
    <3> HIDE DEF d
    <3> QED
      BY <2>5 DEF Closes
  <2> QED
    BY <2>2, <2>6
<1>5. Len(l) \in 1..Len(l) /\ Len(d) + Len(l) = Len(t) /\ Len(l) # 0
  BY <1>3, <1>4
<1>6. l[Len(l)] = "*"
  BY <1>1, <1>2, <1>5 DEF Follows
<1>7. l # <<>>
  BY <1>5, EmptySeq
<1> QED
  BY <1>6, <1>7 DEF EndsInStar, Last

LEMMA StarBehind ==
  ASSUME NEW s \in Seq(Chars), NEW t, t = s \o Star
  PROVE  EndsInStar(t) /\ Front(t) = s
<1>1. Star \in Seq(Chars) /\ Len(Star) = 1 /\ Star[1] = "*"
  BY DEF Star, Chars
<1>2. t \in Seq(Chars) /\ Follows(s, Star, t)
  BY <1>1, Behind
<1>3. Len(s) \in Nat /\ Len(t) = Len(s) + 1 /\ t[Len(s) + 1] = "*"
        /\ \A i \in 1..Len(s) : t[i] = s[i]
  BY <1>1, <1>2 DEF Follows
<1>4. t # <<>>
  BY <1>3, EmptySeq
<1>5. EndsInStar(t)
  BY <1>3, <1>4 DEF EndsInStar, Last
<1>6. /\ Front(t) \in Seq(Chars) /\ Len(Front(t)) = Len(t) - 1
      /\ \A i \in 1..(Len(t) - 1) : Front(t)[i] = t[i]
  BY <1>2, <1>4, FrontLast
<1> DEFINE f == Front(t)
<1>7. f \in Seq(Chars) /\ Len(f) = Len(s) /\ \A i \in 1..Len(f) : f[i] = s[i]
  BY <1>3, <1>6
<1>8. f = s
  <2> HIDE DEF f
  <2> QED
    BY <1>7, SeqEqual
<1> QED
  BY <1>5, <1>8

\* A pattern matches the text of exactly the paths it stands for.
THEOREM PatternMeans ==
  ASSUME NEW q \in Pattern, NEW p \in Path
  PROVE  Matches(PatternText(q), Text(p)) <=> Stands(q, p)
<1>1. q.path \in Path /\ q.kind \in {"exact", "glob"}
  BY DEF Pattern
<1>2. Text(q.path) \in Seq(Chars) /\ Text(p) \in Seq(Chars)
  BY <1>1, DirShape
<1>3. CASE q.kind = "exact"
  <2>1. ~EndsInStar(Text(q.path))
    BY <1>1, <1>3, TextEnds DEF Pattern
  <2>2. Matches(PatternText(q), Text(p)) <=> Text(q.path) = Text(p)
    BY <1>3, <2>1 DEF Matches, PatternText
  <2>3. Stands(q, p) <=> p = q.path
    BY <1>3 DEF Stands
  <2> QED
    BY <1>1, <2>2, <2>3, EqualTexts
<1>4. CASE q.kind = "glob"
  <2>1. PatternText(q) = Text(q.path) \o Star
    BY <1>4 DEF PatternText
  <2>2. EndsInStar(PatternText(q)) /\ Front(PatternText(q)) = Text(q.path)
    BY <1>2, <2>1, StarBehind
  <2>3. Matches(PatternText(q), Text(p)) <=> Starts(Text(q.path), Text(p))
    BY <1>2, <2>2, PrefixIsStart DEF Matches
  <2>4. /\ Len(q.path) \in Nat \ {0} /\ Len(p) \in Nat
        /\ Last(q.path) \in Seq(Letters)
    BY <1>1, FrontLast, LenProperties DEF Path, Segment
  <2>5. ASSUME Len(q.path) <= Len(p)
        PROVE  IsPrefix(Last(q.path), p[Len(q.path)])
                 <=> Starts(Last(q.path), p[Len(q.path)])
    <3>1. Len(q.path) \in 1..Len(p)
      BY <2>4, <2>5
    <3>2. p[Len(q.path)] \in Seq(Letters)
      BY <3>1, ElementOfSeq DEF Path, Segment
    <3> QED
      BY <2>4, <3>2, PrefixIsStart
  <2>6. Stands(q, p) <=> Leads(q.path, p)
    BY <1>4, <2>5 DEF Stands, Leads
  <2> QED
    BY <1>1, <2>3, <2>6, StartingLeads, LeadingStarts
<1> QED
  BY <1>1, <1>3, <1>4

\* The lone star matches every text.
LEMMA StarMatches ==
  ASSUME NEW t \in Seq(Chars)
  PROVE  Matches(Star, t)
<1>1. <<>> \in Seq(Chars) /\ Len(<<>>) = 0 /\ Len(t) \in Nat
  BY EmptySeq, LenProperties
<1>2. Star = <<>> \o Star
  <2>1. Star \in Seq(Chars)
    BY DEF Star, Chars
  <2> QED
    BY <2>1, ConcatEmptySeq
<1>3. EndsInStar(Star) /\ Front(Star) = <<>>
  BY <1>1, <1>2, StarBehind
<1>4. Starts(<<>>, t)
  BY <1>1 DEF Starts
<1> QED
  BY <1>1, <1>3, <1>4, PrefixIsStart DEF Matches

LEMMA RulesMean ==
  ASSUME NEW Q \in SUBSET Pattern, NEW p \in Path
  PROVE  PathAllowed(Patterns({PatternText(q) : q \in Q}), Text(p))
           <=> Q = {} \/ \E q \in Q : Stands(q, p)
<1>1. CASE Q = {}
  <2>1. Patterns({PatternText(q) : q \in Q}) = {Star}
    BY <1>1 DEF Patterns
  <2>2. Matches(Star, Text(p))
    BY DirShape, StarMatches
  <2> QED
    BY <1>1, <2>1, <2>2 DEF PathAllowed
<1>2. CASE Q # {}
  <2>1. Patterns({PatternText(q) : q \in Q}) = {PatternText(q) : q \in Q}
    BY <1>2 DEF Patterns
  <2>2. PathAllowed({PatternText(q) : q \in Q}, Text(p))
          <=> \E q \in Q : Matches(PatternText(q), Text(p))
    BY DEF PathAllowed
  <2> QED
    BY <1>2, <2>1, <2>2, PatternMeans
<1> QED
  BY <1>1, <1>2

-----------------------------------------------------------------------------
(* Subnets                                                                  *)

LEMMA FirstDifference ==
  ASSUME NEW a \in Seq(Bit), NEW b \in Seq(Bit), NEW m \in Nat \ {0}, a[m] # b[m]
  PROVE  \E i \in 1..m : a[i] # b[i] /\ \A j \in 1..(i - 1) : a[j] = b[j]
<1> DEFINE Different == {i \in 1..m : a[i] # b[i]}
<1>1. Different \in SUBSET Nat /\ m \in Different
  OBVIOUS
<1>2. PICK i \in Different : \A k \in Different : i <= k
  <2> HIDE DEF Different
  <2> QED
    BY <1>1, Smallest
<1>3. ASSUME NEW j \in 1..(i - 1) PROVE a[j] = b[j]
  <2>1. j \in 1..m /\ ~(i <= j)
    OBVIOUS
  <2>2. j \notin Different
    BY <1>2, <2>1
  <2> QED
    BY <2>1, <2>2
<1> QED
  BY <1>3

\* Two different sequences of bits, of one length, differ somewhere first.
LEMMA BitsDiffer ==
  ASSUME NEW n \in Nat, NEW x \in Seq(Bit), NEW y \in Seq(Bit),
         Len(x) = n, Len(y) = n, x # y
  PROVE  \E i \in 1..n : x[i] # y[i] /\ \A j \in 1..(i - 1) : x[j] = y[j]
<1>1. PICK m \in 1..n : x[m] # y[m]
  BY SeqEqual
<1>2. m \in Nat \ {0}
  OBVIOUS
<1>3. PICK i \in 1..m : x[i] # y[i] /\ \A j \in 1..(i - 1) : x[j] = y[j]
  BY <1>1, <1>2, FirstDifference
<1>4. i \in 1..n
  OBVIOUS
<1> QED
  BY <1>3, <1>4

LEMMA FilledBits ==
  ASSUME NEW s \in Subnet, NEW bit \in Bit
  PROVE  /\ Filled(s, bit) \in Seq(Bit) /\ Len(Filled(s, bit)) = Len(s.address)
         /\ s.length \in Nat /\ Len(s.address) \in Nat
         /\ s.length <= Len(s.address)
         /\ \A i \in 1..s.length : Filled(s, bit)[i] = s.address[i]
         /\ \A i \in 1..Len(s.address) : i > s.length => Filled(s, bit)[i] = bit
<1> DEFINE n == Len(s.address)
<1>1. s.address \in Seq(Bit) /\ s.length \in Nat /\ s.length <= n
  BY DEF Subnet, Address
<1>2. n \in Nat /\ \A i \in 1..n : s.address[i] \in Bit
  BY <1>1, LenProperties, ElementOfSeq
<1> HIDE DEF n
<1>3. Filled(s, bit) =
        [i \in 1..n |-> IF i <= s.length THEN s.address[i] ELSE bit]
  BY DEF Filled, n
<1>4. Filled(s, bit) \in [1..n -> Bit]
  BY <1>2, <1>3
<1>5. Filled(s, bit) \in Seq(Bit) /\ Len(Filled(s, bit)) = n
  BY <1>2, <1>3, <1>4
<1>6. \A i \in 1..s.length : Filled(s, bit)[i] = s.address[i]
  BY <1>1, <1>2, <1>3
<1>7. \A i \in 1..n : i > s.length => Filled(s, bit)[i] = bit
  BY <1>1, <1>2, <1>3
<1> QED
  BY <1>1, <1>2, <1>5, <1>6, <1>7 DEF n

\* An entry matches exactly the addresses of its subnet.
THEOREM SubnetMeans ==
  ASSUME NEW s \in Subnet, NEW a \in Address
  PROVE  EntryMatches(s, a) <=> InSubnet(s, a)
<1> SUFFICES ASSUME Len(a) = Len(s.address)
             PROVE  EntryMatches(s, a) <=> InSubnet(s, a)
  BY DEF EntryMatches, InSubnet
<1> DEFINE n == Len(a)
           low == Filled(s, 0)
           high == Filled(s, 1)
<1>1. a \in Seq(Bit) /\ n \in Nat /\ \A i \in 1..n : a[i] \in Bit
  BY LenProperties, ElementOfSeq DEF Address
<1>2. /\ low \in Seq(Bit) /\ Len(low) = n /\ s.length \in Nat /\ s.length <= n
      /\ \A i \in 1..s.length : low[i] = s.address[i]
      /\ \A i \in 1..n : i > s.length => low[i] = 0
  BY FilledBits DEF Bit
<1>3. /\ high \in Seq(Bit) /\ Len(high) = n
      /\ \A i \in 1..s.length : high[i] = s.address[i]
      /\ \A i \in 1..n : i > s.length => high[i] = 1
  BY FilledBits DEF Bit
<1> HIDE DEF n, low, high
<1>4. ASSUME EntryMatches(s, a) PROVE InSubnet(s, a)
  <2>0. \A i \in 1..s.length : a[i] = s.address[i]
    BY <1>4 DEF EntryMatches
  <2>1. AtMost(low, a)
    <3> SUFFICES ASSUME low # a PROVE AtMost(low, a)
      BY DEF AtMost
    <3>1. Len(a) = n
      BY DEF n
    <3>2. PICK i \in 1..n : /\ low[i] # a[i]
                           /\ \A j \in 1..(i - 1) : low[j] = a[j]
      BY <1>1, <1>2, <3>1, BitsDiffer
    <3>3. i \in 1..n /\ i > s.length
      <4>1. i \in 1..n
        BY <1>1
      <4>2. i \notin 1..s.length
        BY <1>2, <2>0, <3>2
      <4> QED
        BY <1>2, <4>1, <4>2
    <3>4. low[i] < a[i]
      BY <1>1, <1>2, <3>2, <3>3 DEF Bit
    <3> QED
      BY <1>2, <3>2, <3>3, <3>4 DEF AtMost
  <2>2. AtMost(a, high)
    <3> SUFFICES ASSUME high # a PROVE AtMost(a, high)
      BY DEF AtMost
    <3>1. Len(a) = n
      BY DEF n
    <3>2. PICK i \in 1..n : /\ high[i] # a[i]
                           /\ \A j \in 1..(i - 1) : high[j] = a[j]
      BY <1>1, <1>3, <3>1, BitsDiffer
    <3>3. i \in 1..n /\ i > s.length
      <4>1. i \in 1..n
        BY <1>1
      <4>2. i \notin 1..s.length
        BY <1>3, <2>0, <3>2
      <4> QED
        BY <1>2, <4>1, <4>2
    <3>4. a[i] < high[i]
      BY <1>1, <1>3, <3>2, <3>3 DEF Bit
    <3> QED
      BY <3>2, <3>3, <3>4 DEF AtMost, n
  <2> QED
    BY <2>1, <2>2 DEF InSubnet, low, high
<1>5. ASSUME InSubnet(s, a) PROVE EntryMatches(s, a)
  <2>1. AtMost(low, a) /\ AtMost(a, high)
    BY <1>5 DEF InSubnet, low, high
  <2> SUFFICES ASSUME NEW m \in 1..s.length, a[m] # s.address[m] PROVE FALSE
    BY DEF EntryMatches
  <2>2. PICK i \in 1..m : /\ a[i] # s.address[i]
                         /\ \A j \in 1..(i - 1) : a[j] = s.address[j]
    <3> DEFINE b == s.address
    <3>1. m \in Nat \ {0} /\ b \in Seq(Bit) /\ a[m] # b[m]
      BY <1>2 DEF Subnet, Address
    <3> HIDE DEF b
    <3>2. \E i \in 1..m : a[i] # b[i] /\ \A j \in 1..(i - 1) : a[j] = b[j]
      BY <1>1, <3>1, FirstDifference
    <3> QED
      BY <3>2 DEF b
  <2>3. i \in 1..s.length /\ i \in 1..n
          /\ \A j \in 1..(i - 1) : j \in 1..s.length
    BY <1>1, <1>2
  <2>4. /\ low[i] = s.address[i] /\ high[i] = s.address[i]
        /\ \A j \in 1..(i - 1) : low[j] = a[j] /\ high[j] = a[j]
    BY <1>2, <1>3, <2>2, <2>3
  <2>5. a[i] \in Bit /\ low[i] \in Bit
    BY <1>1, <1>2, <2>3, ElementOfSeq
  <2>6. low[i] < a[i]
    <3>1. PICK k \in 1..n : low[k] < a[k] /\ \A j \in 1..(k - 1) : low[j] = a[j]
      BY <1>2, <2>1, <2>2, <2>4 DEF AtMost
    <3>2. ~(i < k)
      <4> SUFFICES ASSUME i < k PROVE FALSE
        OBVIOUS
      <4>1. i \in 1..(k - 1)
        BY <2>3
      <4> QED
        BY <2>2, <2>4, <3>1, <4>1
    <3>3. ~(k < i)
      <4> SUFFICES ASSUME k < i PROVE FALSE
        OBVIOUS
      <4>1. k \in 1..(i - 1)
        BY <2>3
      <4>2. low[k] = a[k] /\ a[k] \in Bit
        BY <1>1, <2>4, <4>1
      <4> QED
        BY <3>1, <4>2 DEF Bit
    <3> QED
      BY <2>3, <3>1, <3>2, <3>3
  <2>7. a[i] < high[i]
    <3>1. PICK k \in 1..n : a[k] < high[k]
            /\ \A j \in 1..(k - 1) : a[j] = high[j]
      BY <2>1, <2>2, <2>4 DEF AtMost, n
    <3>2. ~(i < k)
      <4> SUFFICES ASSUME i < k PROVE FALSE
        OBVIOUS
      <4>1. i \in 1..(k - 1)
        BY <2>3
      <4> QED
        BY <2>2, <2>4, <3>1, <4>1
    <3>3. ~(k < i)
      <4> SUFFICES ASSUME k < i PROVE FALSE
        OBVIOUS
      <4>1. k \in 1..(i - 1)
        BY <2>3
      <4>2. high[k] = a[k] /\ a[k] \in Bit
        BY <1>1, <2>4, <4>1
      <4> QED
        BY <3>1, <4>2 DEF Bit
    <3> QED
      BY <2>3, <3>1, <3>2, <3>3
  <2> QED
    BY <2>4, <2>5, <2>6, <2>7 DEF Bit
<1> QED
  BY <1>4, <1>5

-----------------------------------------------------------------------------
(* Listing                                                                  *)

LEMMA TrimShape ==
  ASSUME NEW X, NEW s \in Seq(X), NEW e
  PROVE  \E k \in 0..Len(s) :
           /\ TrimEnd(s, e) = Cut(s, k)
           /\ k # 0 => s[k] # e
           /\ \A i \in (k + 1)..Len(s) : s[i] = e
<1> DEFINE D == {0} \cup {i \in DOMAIN s : s[i] # e}
           U == {n \in 0..Len(s) : \A i \in D : i <= n}
<1>1. Len(s) \in Nat /\ DOMAIN s = 1..Len(s)
  BY LenProperties
<1>2. D \subseteq 0..Len(s) /\ 0 \in D
  BY <1>1
<1>3. U \in SUBSET Nat /\ Len(s) \in U
  BY <1>1, <1>2
<1>4. PICK k \in U : \A n \in U : k <= n
  <2> HIDE DEF U
  <2> QED
    BY <1>3, Smallest
<1>5. k \in 0..Len(s) /\ \A i \in D : i <= k
  OBVIOUS
<1>6. k \in D
  <2> SUFFICES ASSUME k \notin D PROVE FALSE
    OBVIOUS
  <2>1. k \in Nat \ {0}
    BY <1>1, <1>2, <1>5
  <2>2. \A i \in D : i <= k - 1
    <3> TAKE i \in D
    <3>1. i \in Nat /\ i <= k /\ i # k
      BY <1>1, <1>2, <1>5
    <3> QED
      BY <2>1, <3>1
  <2>3. k - 1 \in U
    BY <1>1, <1>5, <2>1, <2>2
  <2>4. k <= k - 1
    BY <1>4, <2>3
  <2> QED
    BY <2>1, <2>4
<1>7. Max(D) = k
  <2>1. \A x \in D : (\A y \in D : x >= y) => x = k
    <3> TAKE x \in D
    <3> HAVE \A y \in D : x >= y
    <3>1. x >= k /\ x <= k /\ x \in Nat /\ k \in Nat
      BY <1>1, <1>2, <1>5, <1>6
    <3> QED
      BY <3>1
  <2>2. \A y \in D : k >= y
    <3> TAKE y \in D
    <3>1. y \in Nat /\ k \in Nat /\ y <= k
      BY <1>1, <1>2, <1>5
    <3> QED
      BY <3>1
  <2> HIDE DEF D
  <2> QED
    BY <1>6, <2>1, <2>2 DEF Max
<1>8. TrimEnd(s, e) = Cut(s, k)
  BY <1>7 DEF TrimEnd, Cut
<1>9. k # 0 => s[k] # e
  BY <1>6
<1>10. \A i \in (k + 1)..Len(s) : s[i] = e
  <2> SUFFICES ASSUME NEW i \in (k + 1)..Len(s), s[i] # e PROVE FALSE
    OBVIOUS
  <2>1. i \in 1..Len(s) /\ ~(i <= k)
    BY <1>1, <1>5
  <2>2. i \in D
    BY <1>1, <2>1
  <2> QED
    BY <1>5, <2>1, <2>2
<1> QED
  BY <1>5, <1>8, <1>9, <1>10

LEMMA TrimUnique ==
  ASSUME NEW X, NEW s \in Seq(X), NEW e, NEW k \in 0..Len(s),
         k # 0 => s[k] # e, \A i \in (k + 1)..Len(s) : s[i] = e
  PROVE  TrimEnd(s, e) = Cut(s, k)
<1>1. Len(s) \in Nat
  BY LenProperties
<1>2. PICK m \in 0..Len(s) :
           /\ TrimEnd(s, e) = Cut(s, m)
           /\ m # 0 => s[m] # e
           /\ \A i \in (m + 1)..Len(s) : s[i] = e
  BY TrimShape
<1>3. ~(m < k)
  <2> SUFFICES ASSUME m < k PROVE FALSE
    OBVIOUS
  <2>1. k \in (m + 1)..Len(s) /\ k # 0
    BY <1>1
  <2> QED
    BY <1>2, <2>1
<1>4. ~(k < m)
  <2> SUFFICES ASSUME k < m PROVE FALSE
    OBVIOUS
  <2>1. m \in (k + 1)..Len(s) /\ m # 0
    BY <1>1
  <2> QED
    BY <1>2, <2>1
<1>5. m = k
  BY <1>1, <1>3, <1>4
<1> QED
  BY <1>2, <1>5

LEMMA CutNothing ==
  ASSUME NEW X, NEW s \in Seq(X)
  PROVE  Cut(s, 0) = <<>>
<1>1. 0 \in 0..Len(s)
  BY LenProperties
<1>2. Cut(s, 0) \in Seq(X) /\ Len(Cut(s, 0)) = 0
  BY <1>1, CutSeq
<1> QED
  BY <1>2, EmptySeq

\* Empty segments leave nothing but slashes.
LEMMA DirTail ==
  \A p \in Seq(Segment) : \A k \in 0..Len(p) :
    (\A n \in (k + 1)..Len(p) : p[n] = <<>>) =>
      \A i \in (Len(Dir(Cut(p, k))) + 1)..Len(Dir(p)) : Dir(p)[i] = "/"
<1> DEFINE Tailed(p, k) ==
             (\A n \in (k + 1)..Len(p) : p[n] = <<>>) =>
               \A i \in (Len(Dir(Cut(p, k))) + 1)..Len(Dir(p)) : Dir(p)[i] = "/"
           S == {p \in Seq(Segment) : \A k \in 0..Len(p) : Tailed(p, k)}
<1>0. ASSUME NEW p \in Seq(Segment) PROVE Tailed(p, Len(p))
  <2>1. Cut(p, Len(p)) = p /\ Len(Dir(p)) \in Nat
    BY CutWhole, DirType, LenProperties
  <2> QED
    BY <2>1
<1>1. <<>> \in S
  <2>1. <<>> \in Seq(Segment) /\ Len(<<>>) = 0 /\ 0..0 = {0}
    BY EmptySeq
  <2> HIDE DEF Tailed
  <2> QED
    BY <1>0, <2>1
<1>2. ASSUME NEW p \in Seq(Segment) \ {<<>>}, Front(p) \in S PROVE p \in S
  <2> DEFINE f == Front(p)
             c == Dir(f)
             u == Dir(p)
  <2>1. /\ Len(p) \in Nat \ {0} /\ f \in Seq(Segment) /\ Len(f) = Len(p) - 1
        /\ \A k \in 0..(Len(p) - 1) : Cut(f, k) = Cut(p, k)
        /\ \A i \in 1..(Len(p) - 1) : f[i] = p[i]
        /\ Last(p) = p[Len(p)]
    BY CutFront, FrontLast
  <2>2. \A k \in 0..Len(f) : Tailed(f, k)
    BY <1>2
  <2>3. Closes(c, Last(p), u)
    BY DirShape DEF Path
  <2>4. ASSUME NEW k \in 0..Len(p) PROVE Tailed(p, k)
    <3>1. CASE k = Len(p)
      BY <1>0, <3>1
    <3>2. CASE k # Len(p)
      <4> SUFFICES ASSUME \A n \in (k + 1)..Len(p) : p[n] = <<>>,
                          NEW i \in (Len(Dir(Cut(p, k))) + 1)..Len(u)
                   PROVE  u[i] = "/"
        OBVIOUS
      <4> HIDE DEF f, c, u
      <4>1. /\ k \in 0..(Len(p) - 1) /\ k \in 0..Len(f)
            /\ Len(p) \in (k + 1)..Len(p)
        BY <2>1, <3>2
      <4>2. Last(p) = <<>> /\ Len(Last(p)) = 0
        BY <2>1, <4>1, EmptySeq
      <4>3. /\ Len(u) = Len(c) + 1 /\ Len(c) \in Nat /\ u[Len(c) + 1] = "/"
            /\ \A j \in 1..Len(c) : u[j] = c[j]
        BY <2>3, <4>2 DEF Closes
      <4>4. Len(Dir(Cut(p, k))) \in Nat
        <5>1. Cut(p, k) \in Seq(Segment)
          BY CutSeq
        <5> QED
          BY <5>1, DirType, LenProperties
      <4>5. CASE i = Len(u)
        BY <4>3, <4>5
      <4>6. CASE i # Len(u)
        <5>1. i \in (Len(Dir(Cut(p, k))) + 1)..Len(c) /\ i \in 1..Len(c)
          BY <4>3, <4>4, <4>6
        <5>2. \A n \in (k + 1)..Len(f) : f[n] = <<>>
          BY <2>1, <4>1
        <5>3. Cut(f, k) = Cut(p, k) /\ Tailed(f, k)
          BY <2>1, <2>2, <4>1
        <5>4. c[i] = "/"
          BY <5>1, <5>2, <5>3 DEF c
        <5> QED
          BY <4>3, <5>1, <5>4
      <4> QED
        BY <4>5, <4>6
    <3> HIDE DEF Tailed
    <3> QED
      BY <3>1, <3>2
  <2> HIDE DEF Tailed
  <2> QED
    BY <2>4
<1>3. Seq(Segment) \subseteq S
  <2> HIDE DEF S
  <2> QED
    BY <1>1, <1>2, SegmentInduction
<1>4. \A p \in Seq(Segment) : \A k \in 0..Len(p) : Tailed(p, k)
  <2> HIDE DEF Tailed
  <2> QED
    BY <1>3
<1> QED
  BY <1>4

LEMMA TextTail ==
  ASSUME NEW p \in Path, NEW k \in 0..Len(p),
         \A n \in (k + 1)..Len(p) : p[n] = <<>>
  PROVE  \A i \in (Len(Dir(Cut(p, k))) + 1)..Len(Text(p)) : Text(p)[i] = "/"
<1> DEFINE d == Dir(Front(p))
           l == Last(p)
           t == Text(p)
           u == Dir(p)
           c == Dir(Cut(p, k))
<1>1. Follows(d, l, t) /\ Closes(d, l, u)
  BY DirShape
<1>2. p \in Seq(Segment) /\ Len(c) \in Nat
  <2>1. p \in Seq(Segment)
    BY DEF Path
  <2>2. Cut(p, k) \in Seq(Segment)
    BY <2>1, CutSeq
  <2> QED
    BY <2>1, <2>2, DirType, LenProperties
<1>3. \A i \in (Len(c) + 1)..Len(u) : u[i] = "/"
  BY <1>2, DirTail
<1> SUFFICES ASSUME NEW i \in (Len(c) + 1)..Len(t) PROVE t[i] = "/"
  OBVIOUS
<1> HIDE DEF d, l, t, u, c
<1>4. /\ Len(t) = Len(d) + Len(l) /\ Len(u) = Len(t) + 1
      /\ Len(d) \in Nat /\ Len(l) \in Nat
  BY <1>1 DEF Follows, Closes
<1>5. i \in (Len(c) + 1)..Len(u) /\ i \in 1..Len(t)
  BY <1>2, <1>4
<1>6. t[i] = u[i]
  <2>1. CASE i <= Len(d)
    BY <1>1, <1>2, <1>5, <2>1 DEF Follows, Closes
  <2>2. CASE ~(i <= Len(d))
    <3>1. i - Len(d) \in 1..Len(l) /\ Len(d) + (i - Len(d)) = i
      BY <1>4, <1>5, <2>2
    <3>2. /\ t[Len(d) + (i - Len(d))] = l[i - Len(d)]
          /\ u[Len(d) + (i - Len(d))] = l[i - Len(d)]
      BY <1>1, <3>1 DEF Follows, Closes
    <3> QED
      BY <3>1, <3>2
  <2> QED
    BY <2>1, <2>2
<1> QED
  BY <1>3, <1>5, <1>6

\* The prefix of a LIST is the path without its empty segments at the end.
LEMMA PrefixText ==
  ASSUME NEW asked \in Path, NEW top, top = TrimEnd(asked, <<>>)
  PROVE  /\ top \in Seq(Segment)
         /\ Prefix(asked) = IF top = <<>> THEN <<>> ELSE Text(top)
         /\ top # <<>> => Text(top) # <<>>
<1>1. asked \in Seq(Segment) /\ Len(asked) \in Nat
  BY LenProperties DEF Path
<1>2. PICK k \in 0..Len(asked) :
           /\ top = Cut(asked, k)
           /\ k # 0 => asked[k] # <<>>
           /\ \A i \in (k + 1)..Len(asked) : asked[i] = <<>>
  BY <1>1, TrimShape
<1>3. top \in Seq(Segment) /\ Len(top) = k /\ k \in Nat
  BY <1>1, <1>2, CutSeq
<1> DEFINE t == Text(asked)
           u == Dir(Cut(asked, k))
<1>4. t \in Seq(Chars) /\ Len(t) \in Nat
  BY DirShape, LenProperties
<1>5. \A i \in (Len(u) + 1)..Len(t) : t[i] = "/"
  BY <1>2, TextTail
<1>6. CASE k = 0
  <2>1. top = <<>>
    BY <1>3, <1>6, EmptySeq
  <2>2. Len(u) = 0
    BY <1>2, <2>1, DirRecursion, EmptySeq
  <2> HIDE DEF t, u
  <2>3. \A i \in (0 + 1)..Len(t) : t[i] = "/"
    BY <1>5, <2>2
  <2>4. 0 \in 0..Len(t) /\ (0 # 0 => t[0] # "/")
    BY <1>4
  <2>5. TrimEnd(t, "/") = Cut(t, 0)
    BY <1>4, <2>3, <2>4, TrimUnique
  <2>6. Cut(t, 0) = <<>>
    BY <1>4, CutNothing
  <2> QED
    BY <1>3, <2>1, <2>5, <2>6 DEF Prefix, t
<1>7. CASE k # 0
  <2> DEFINE d == Dir(Cut(asked, k - 1))
             s == asked[k]
             w == Text(top)
             m == Len(d) + Len(s)
  <2>1. k \in 1..Len(asked) /\ k \in 1..Len(top) /\ top # <<>> /\ top \in Path
    BY <1>3, <1>7, EmptySeq DEF Path
  <2>2. s \in Segment /\ Shows(t, d, s) /\ Closes(d, s, u)
    BY <1>1, <2>1, TextShows, DirCloses
  <2>3. w \in Seq(Chars) /\ Follows(d, s, w)
    <3>1. Front(top) = Cut(asked, k - 1) /\ Last(top) = asked[k]
      BY <1>1, <1>2, <2>1, CutFrontLast
    <3> QED
      BY <2>1, <3>1, DirShape
  <2>4. s # <<>>
    BY <1>2, <1>7
  <2> HIDE DEF t, u, d, s, w
  <2>5. Len(s) \in Nat \ {0}
    BY <2>2, <2>4, EmptySeq DEF Segment
  <2>6. /\ m \in 0..Len(t) /\ m # 0 /\ Len(d) \in Nat /\ Len(u) = m + 1
        /\ Len(w) = m
    BY <2>2, <2>3, <2>5 DEF Shows, Closes, Follows
  <2>7. t[m] # "/"
    <3>1. Len(s) \in 1..Len(s)
      BY <2>5
    <3>2. t[m] = s[Len(s)]
      BY <2>2, <3>1 DEF Shows
    <3>3. s[Len(s)] \in Letters
      BY <2>2, <3>1, ElementOfSeq DEF Segment
    <3> QED
      BY <3>2, <3>3, LettersAssumption
  <2>8. \A i \in (m + 1)..Len(t) : t[i] = "/"
    <3> TAKE i \in (m + 1)..Len(t)
    <3>1. CASE i = m + 1
      BY <1>4, <2>2, <2>6, <3>1 DEF Shows
    <3>2. CASE i # m + 1
      <4>1. i \in (Len(u) + 1)..Len(t)
        BY <1>4, <2>6, <3>2
      <4> QED
        BY <1>5, <4>1
    <3> QED
      BY <3>1, <3>2
  <2>9. \A i \in 1..m : t[i] = w[i]
    <3> TAKE i \in 1..m
    <3>1. CASE i <= Len(d)
      BY <2>2, <2>3, <2>6, <3>1 DEF Shows, Follows
    <3>2. CASE ~(i <= Len(d))
      <4>1. i - Len(d) \in 1..Len(s) /\ Len(d) + (i - Len(d)) = i
        BY <2>5, <2>6, <3>2
      <4>2. /\ t[Len(d) + (i - Len(d))] = s[i - Len(d)]
            /\ w[Len(d) + (i - Len(d))] = s[i - Len(d)]
        BY <2>2, <2>3, <4>1 DEF Shows, Follows
      <4> QED
        BY <4>1, <4>2
    <3> QED
      BY <3>1, <3>2
  <2> HIDE DEF m
  <2>10. TrimEnd(t, "/") = Cut(t, m)
    BY <1>4, <2>6, <2>7, <2>8, TrimUnique
  <2>11. Cut(t, m) = Cut(w, m)
    <3>1. m \in 0..Len(w)
      BY <1>4, <2>6
    <3> QED
      BY <1>4, <2>3, <2>6, <2>9, <3>1, CutsAgree
  <2>12. Cut(w, m) = w
    BY <2>3, <2>6, CutWhole
  <2>13. w # <<>>
    BY <2>6, EmptySeq
  <2> QED
    BY <1>3, <2>1, <2>10, <2>11, <2>12, <2>13 DEF Prefix, t, w
<1> QED
  BY <1>6, <1>7

\* What begins with the text of a directory lies in it.
LEMMA InDirectory ==
  ASSUME NEW top \in Path, NEW path \in Path
  PROVE  Starts(Dir(top), Text(path))
           <=> Len(top) < Len(path) /\ \A n \in 1..Len(top) : path[n] = top[n]
<1> DEFINE sub == Append(top, <<>>)
<1>1. /\ top \in Seq(Segment) /\ path \in Seq(Segment) /\ <<>> \in Segment
      /\ Len(top) \in Nat /\ Len(path) \in Nat
  BY EmptySeq, LenProperties DEF Path, Segment
<1>2. /\ sub \in Seq(Segment) /\ sub # <<>> /\ Len(sub) = Len(top) + 1
      /\ \A i \in 1..Len(top) : sub[i] = top[i]
      /\ sub[Len(top) + 1] = <<>>
  BY <1>1, AppendProperties
<1> HIDE DEF sub
<1>3. Front(sub) = top /\ Last(sub) = <<>>
  <2>1. /\ Front(sub) \in Seq(Segment) /\ Len(Front(sub)) = Len(sub) - 1
        /\ \A i \in 1..(Len(sub) - 1) : Front(sub)[i] = sub[i]
        /\ Last(sub) = sub[Len(sub)]
    BY <1>2, FrontLast
  <2> DEFINE f == Front(sub)
  <2>2. f \in Seq(Segment) /\ Len(f) = Len(top)
          /\ \A i \in 1..Len(f) : f[i] = top[i]
    BY <1>1, <1>2, <2>1
  <2>3. f = top
    <3> HIDE DEF f
    <3> QED
      BY <1>1, <2>2, SeqEqual
  <2> QED
    BY <1>2, <2>1, <2>3
<1>4. Text(sub) = Dir(top)
  BY <1>1, <1>3, DirType, ConcatEmptySeq DEF Text
<1>5. Starts(Dir(top), Text(path)) <=> Leads(sub, path)
  BY <1>2, <1>4, LeadingStarts, StartingLeads DEF Path
<1>6. Starts(<<>>, path[Len(sub)]) <=> Len(<<>>) <= Len(path[Len(sub)])
  BY EmptySeq DEF Starts
<1>7. ASSUME Len(sub) <= Len(path) PROVE Starts(<<>>, path[Len(sub)])
  <2>1. Len(sub) \in 1..Len(path)
    BY <1>1, <1>2, <1>7
  <2>2. Len(path[Len(sub)]) \in Nat
    BY <1>1, <2>1, ElementOfSeq, LenProperties DEF Segment
  <2> QED
    BY <1>6, <2>2, EmptySeq
<1>8. Leads(sub, path)
        <=> Len(sub) <= Len(path) /\ \A n \in 1..(Len(sub) - 1) : path[n] = sub[n]
  BY <1>3, <1>7 DEF Leads
<1>9. /\ Len(sub) - 1 = Len(top)
      /\ Len(sub) <= Len(path) <=> Len(top) < Len(path)
  BY <1>1, <1>2
<1> QED
  BY <1>2, <1>5, <1>8, <1>9

\* A LIST returns exactly the paths below the one it asks for.
THEOREM ListMeans ==
  ASSUME NEW paths \in SUBSET Path, NEW asked \in Path
  PROVE  Listed(paths, asked) = Below(paths, asked)
<1> DEFINE top == TrimEnd(asked, <<>>)
<1> SUFFICES ASSUME NEW path \in paths
             PROVE  \/ Prefix(asked) = <<>>
                    \/ Text(path) = Prefix(asked)
                    \/ IsPrefix(Prefix(asked) \o Slash, Text(path))
                    <=> IsPrefix(top, path)
  BY DEF Listed, Below
<1>1. /\ top \in Seq(Segment)
      /\ Prefix(asked) = IF top = <<>> THEN <<>> ELSE Text(top)
      /\ top # <<>> => Text(top) # <<>>
  BY PrefixText
<1>2. /\ path \in Path /\ path \in Seq(Segment) /\ Len(path) \in Nat
      /\ Len(top) \in Nat
  BY <1>1, LenProperties DEF Path
<1> HIDE DEF top
<1>3. IsPrefix(top, path) <=> Starts(top, path)
  BY <1>1, <1>2, PrefixIsStart
<1>4. CASE top = <<>>
  <2>1. Starts(top, path)
    BY <1>2, <1>4, EmptySeq DEF Starts
  <2> QED
    BY <1>1, <1>3, <1>4, <2>1
<1>5. CASE top # <<>>
  <2>1. top \in Path /\ Len(top) # 0
    BY <1>1, <1>5, EmptySeq DEF Path
  <2>2. Prefix(asked) = Text(top)
    BY <1>1, <1>5
  <2>3. Text(top) # <<>>
    BY <1>1, <1>5
  <2>4. Text(path) = Text(top) <=> path = top
    BY <1>2, <2>1, EqualTexts
  <2>5. Text(top) \o Slash = Dir(top)
    BY <1>1, <1>5, DirRecursion DEF Text
  <2>6. IsPrefix(Dir(top), Text(path)) <=> Starts(Dir(top), Text(path))
    BY <1>1, <1>2, DirShape, DirType, PrefixIsStart
  <2>7. Starts(Dir(top), Text(path))
           <=> Len(top) < Len(path) /\ \A n \in 1..Len(top) : path[n] = top[n]
    BY <1>2, <2>1, InDirectory
  <2>8. Starts(top, path)
          <=> \/ path = top
              \/ Len(top) < Len(path) /\ \A n \in 1..Len(top) : path[n] = top[n]
    <3>1. Starts(top, path)
            <=> Len(top) <= Len(path) /\ \A n \in 1..Len(top) : path[n] = top[n]
      BY DEF Starts
    <3>2. ASSUME Len(top) = Len(path), \A n \in 1..Len(top) : path[n] = top[n]
          PROVE  path = top
      BY <1>1, <1>2, <3>2, SeqEqual
    <3> QED
      BY <1>2, <3>1, <3>2
  <2> QED
    BY <1>3, <2>2, <2>3, <2>4, <2>5, <2>6, <2>7, <2>8
<1> QED
  BY <1>4, <1>5

-----------------------------------------------------------------------------
(* Rules of a token                                                         *)

\* What the network vouches for is what client_ip finds.
LEMMA VouchedIsSeen ==
  ASSUME NEW a \in Arrivals, Vouched(a)
  PROVE  /\ ClientIp(Peer(a), Header(a), Proxies) = a.client
         /\ a.client \in Address
<1>1. /\ a.client \in Seq(Bit) /\ a.client # <<>>
      /\ a.sent \in Seq(Hop) /\ a.via \in Seq(Hop)
  BY ArrivalsAssumption DEF Address
<1>2. CASE a.way = "direct" /\ a.client \notin Proxies
  BY <1>1, <1>2 DEF ClientIp, Peer, Address
<1>3. ASSUME a.proxy \in Proxies, a.way # "direct",
             Header(a) = <<a.client>> \o a.via
      PROVE  ClientIp(Peer(a), Header(a), Proxies) = a.client
  <2>1. <<a.client>> \in Seq(Hop)
    BY <1>1 DEF Hop
  <2>2. Header(a) \in Seq(Hop) /\ Header(a) # <<>> /\ Head(Header(a)) = a.client
    BY <1>1, <1>3, <2>1
  <2> QED
    BY <1>1, <1>3, <2>2 DEF ClientIp, Peer, NoHeader, Garbled
<1>4. CASE a.way = "overwritten" /\ a.proxy \in Proxies
  <2>1. Header(a) = <<a.client>> \o a.via
    BY <1>4 DEF Header
  <2> QED
    BY <1>1, <1>3, <1>4, <2>1 DEF Address
<1>5. CASE a.way = "appended" /\ a.proxy \in Proxies /\ a.sent = NoHeader
  <2>1. <<>> \o <<a.client>> = <<a.client>>
    BY <1>1
  <2>2. Header(a) = <<a.client>> \o a.via
    BY <1>5, <2>1 DEF Header, NoHeader
  <2> QED
    BY <1>1, <1>3, <1>5, <2>2 DEF Address
<1> QED
  BY <1>2, <1>4, <1>5 DEF Vouched

\* The rules as the code decides them let nothing pass that they do not mean, as
\* far as the network shows who it is.
LEMMA AdmitsWithin ==
  ASSUME NEW t \in Tokens, NEW asked \in Path, NEW a \in Arrivals,
           Admits(t, asked, a)
  PROVE  Within(t, asked, a)
<1>1. PatternsOf[t] = {} \/ \E q \in PatternsOf[t] : Stands(q, asked)
  BY RulesMean, RulesAssumption DEF Admits
<1>2. ASSUME Vouched(a)
      PROVE  SubnetsOf[t] = {} \/ \E s \in SubnetsOf[t] : InSubnet(s, a.client)
  BY <1>2, VouchedIsSeen, SubnetMeans, RulesAssumption DEF Admits, IpAllowed
<1> QED
  BY <1>1, <1>2 DEF Within

-----------------------------------------------------------------------------
(* The inductive invariant                                                  *)

\* The conditions that gates ask for, and those still ahead of a request.
Names(gates) == {gates[j] : j \in 1..Len(gates)}
Owing(q) == {q.route.gates[j] : j \in q.gate..Len(q.route.gates)}

\* Not yet answered; a request of a token.
Running(q) == q.step \in {"gate", "effect", "record"}
OfApi(q) == q.who \in Tokens

\* The types of the two variables.
Requests ==
  [route : GuiRoutes \cup ApiRoutes \cup {NoRoute}, who : Users \cup Tokens,
   step : {"idle", "gate", "effect", "record", "answered"},
   gate : Nat, admitted : BOOLEAN, asked : Path,
   shown : SUBSET Stored, missing : SUBSET Conditions,
   outcome : {"none", "done", "missing", "denied", "failed"},
   row : {"none", "ok", "missing", "denied"},
   sealed : BOOLEAN, lost : BOOLEAN]
Systems ==
  {s \in [unsealed : BOOLEAN, signedIn : SUBSET Users, live : SUBSET Tokens,
          role : [Users -> Roles]] : s.role[Master] = "none"}

\* A request is followed along a route of its own kind, and stands before one of
\* the route's gates or behind the last.
Formed(q) ==
  /\ q \in Requests
  /\ q.route \in IF OfApi(q) THEN ApiRoutes ELSE GuiRoutes \cup {NoRoute}
  /\ q.route = NoRoute => q.step = "idle"
  /\ q.gate \in 1..(Len(q.route.gates) + 1)
  /\ q.step = "gate" => q.gate # Len(q.route.gates) + 1
  /\ q.admitted \/ q.shown # {} => OfApi(q)

\* What the effect demands and has not been met yet is behind gates that are
\* still ahead; nothing is when the effect is next, or done.
Paid(q) ==
  /\ q.admitted => "rules" \notin q.missing
  /\ q.step = "gate" => q.missing \subseteq Owing(q)
  /\ \/ q.step = "effect"
     \/ q.step = "record" /\ q.outcome = "none"
     \/ q.outcome = "done"
     => q.missing = {}

\* Audited, of any request; and a request that may be without its row.
Worth(q) ==
  \/ q.route.effect \in {"value", "change"}
  \/ OfApi(q) /\ q.route.effect = "names"
  \/ q.route.effect \in {"disable", "enable", "password", "grant", "revoke",
                         "rotate", "seal", "openSession"}
Excused(q) == q.lost \/ (~OfApi(q) /\ q.sealed)

\* The row at each step: none up to the effect, unless it was written ahead; none
\* before "record", where the outcome says what it will state; and in the end what
\* UseIsRecorded and RowsAreTrue ask for.
Written(q) ==
  /\ q.step \in {"idle", "gate"} => q.outcome = "none" /\ q.row = "none"
  /\ q.step = "effect" =>
       /\ q.outcome = "none"
       /\ IF q.route.row = "before"
          THEN q.row = "ok" \/ (q.row = "none" /\ Excused(q))
          ELSE q.row = "none"
  /\ q.step = "record" =>
       /\ q.row = "none"
       /\ q.outcome \in IF q.route.row = "before" THEN {"none"}
                        ELSE {"done", "missing", "denied"}
  /\ q.step = "answered" =>
       /\ ~Excused(q) => /\ q.outcome = "done" /\ Worth(q) => q.row = "ok"
                         /\ q.outcome \in {"missing", "denied"}
                            => q.row = q.outcome
       /\ \/ q.row = "none"
          \/ q.row = "ok" /\ q.outcome = "done"
          \/ q.row = "ok" /\ q.route.effect \in {"seal", "openSession"}
          \/ q.row \in {"missing", "denied"} /\ q.row = q.outcome

\* ListsAreExact, of any request.
Right(q) ==
  q.outcome = "done" /\ q.route = MetadataList
    => q.shown = Below(Stored, q.asked)

Good(q) == Formed(q) /\ Paid(q) /\ Written(q) /\ Right(q)

\* A request that runs while the instance is sealed has it in its history.
SealSeen(sys, q) == Running(q) /\ ~sys.unsealed => q.sealed

\* The inductive invariant of Handlers.
Ruled == system \in Systems /\ Good(request) /\ SealSeen(system, request)

-----------------------------------------------------------------------------
(* What routes have in common                                               *)

AuditedEffects ==
  {"value", "change", "disable", "enable", "password", "grant", "revoke",
   "rotate", "seal", "openSession"}

\* What the proofs use of a route, and of a route of the GUI.
Fits(r) ==
  /\ r.gates \in Seq(Conditions)
  /\ r.row \in {"never", "after", "before"}
  /\ r.row = "before" => r.effect \in {"seal", "openSession"}
  /\ r.row = "never" => r.effect \notin AuditedEffects
  /\ r.effect = "value" => r.row = "after"
GuiFits(r) ==
  /\ Fits(r) /\ r # MetadataList /\ r # NoRoute
  /\ \A u \in Users :
     Demands(r.effect, u) \subseteq Names(r.gates) \cap Conditions

LEMMA ShortGates ==
  /\ <<>> \in Seq(Conditions) /\ Names(<<>>) = {}
  /\ \A a \in Conditions : <<a>> \in Seq(Conditions) /\ Names(<<a>>) = {a}
  /\ \A a, b \in Conditions :
       <<a, b>> \in Seq(Conditions) /\ Names(<<a, b>>) = {a, b}
  /\ \A a, b, c \in Conditions :
       <<a, b, c>> \in Seq(Conditions) /\ Names(<<a, b, c>>) = {a, b, c}
<1> HIDE DEF Conditions
<1>1. <<>> \in Seq(Conditions) /\ Names(<<>>) = {}
  BY EmptySeq DEF Names
<1>2. ASSUME NEW a \in Conditions
      PROVE  <<a>> \in Seq(Conditions) /\ Names(<<a>>) = {a}
  BY DEF Names
<1>3. ASSUME NEW a \in Conditions, NEW b \in Conditions
      PROVE  <<a, b>> \in Seq(Conditions) /\ Names(<<a, b>>) = {a, b}
  <2>1. <<a, b>> \in Seq(Conditions)
    OBVIOUS
  <2>2. Len(<<a, b>>) = 2 /\ <<a, b>>[1] = a /\ <<a, b>>[2] = b /\ 1..2 = {1, 2}
    OBVIOUS
  <2> QED
    BY <2>1, <2>2 DEF Names
<1>4. ASSUME NEW a \in Conditions, NEW b \in Conditions, NEW c \in Conditions
      PROVE  <<a, b, c>> \in Seq(Conditions) /\ Names(<<a, b, c>>) = {a, b, c}
  <2>1. <<a, b, c>> \in Seq(Conditions)
    OBVIOUS
  <2>2. /\ Len(<<a, b, c>>) = 3 /\ 1..3 = {1, 2, 3}
        /\ <<a, b, c>>[1] = a /\ <<a, b, c>>[2] = b /\ <<a, b, c>>[3] = c
    OBVIOUS
  <2> QED
    BY <2>1, <2>2 DEF Names
<1> QED
  BY <1>1, <1>2, <1>3, <1>4

LEMMA NamesJoined ==
  ASSUME NEW g \in Seq(Conditions), NEW h \in Seq(Conditions)
  PROVE  g \o h \in Seq(Conditions) /\ Names(g \o h) = Names(g) \cup Names(h)
<1> DEFINE t == g \o h
<1>1. t \in Seq(Conditions) /\ Follows(g, h, t)
  BY Behind
<1> HIDE DEF t
<1>2. /\ Len(g) \in Nat /\ Len(h) \in Nat /\ Len(t) = Len(g) + Len(h)
      /\ \A i \in 1..Len(g) : t[i] = g[i] /\ i \in 1..Len(t)
      /\ \A i \in 1..Len(h) : t[Len(g) + i] = h[i] /\ Len(g) + i \in 1..Len(t)
  BY <1>1 DEF Follows
<1>3. Names(g) \subseteq Names(t) /\ Names(h) \subseteq Names(t)
  BY <1>2 DEF Names
<1>4. ASSUME NEW i \in 1..Len(t) PROVE t[i] \in Names(g) \cup Names(h)
  <2>1. CASE i \in 1..Len(g)
    BY <1>2, <2>1 DEF Names
  <2>2. CASE i \notin 1..Len(g)
    <3>1. i - Len(g) \in 1..Len(h) /\ Len(g) + (i - Len(g)) = i
      BY <1>2, <2>2
    <3>2. t[i] = h[i - Len(g)]
      BY <1>2, <3>1
    <3> QED
      BY <3>1, <3>2 DEF Names
  <2> QED
    BY <2>1, <2>2
<1>5. Names(t) \subseteq Names(g) \cup Names(h)
  BY <1>4 DEF Names
<1> QED
  BY <1>1, <1>3, <1>5 DEF t

LEMMA SessionFirst ==
  ASSUME NEW g \in Seq(Conditions)
  PROVE  /\ <<"session">> \o g \in Seq(Conditions)
         /\ Names(<<"session">> \o g) = {"session"} \cup Names(g)
         /\ <<"session">> \o g # ApiGates \o <<>>
         /\ <<"session">> \o g # <<>>
<1>1. <<"session">> \in Seq(Conditions) /\ Names(<<"session">>) = {"session"}
  BY ShortGates DEF Conditions
<1>2. /\ <<"session">> \o g \in Seq(Conditions)
      /\ Names(<<"session">> \o g) = {"session"} \cup Names(g)
  BY <1>1, NamesJoined
<1>3. "session" \notin Names(ApiGates \o <<>>)
  <2>1. {"unsealed", "token", "rules"} \subseteq Conditions
    BY DEF Conditions
  <2>2. /\ ApiGates \in Seq(Conditions)
        /\ Names(ApiGates) = {"unsealed", "token", "rules"}
        /\ <<>> \in Seq(Conditions) /\ Names(<<>>) = {}
    BY <2>1, ShortGates DEF ApiGates
  <2>3. Names(ApiGates \o <<>>) = Names(ApiGates) \cup Names(<<>>)
    BY <2>2, NamesJoined
  <2> QED
    BY <2>2, <2>3
<1>4. Names(<<>>) = {}
  BY ShortGates
<1> QED
  BY <1>2, <1>3, <1>4

\* The conditions of an effect are among the gates.
Covers(g, e) ==
  \A u \in Users :
    Demands(e, u) \subseteq ({"session"} \cup Names(g)) \cap Conditions

LEMMA PageFits ==
  ASSUME NEW g \in Seq(Conditions), NEW e,
           e \notin AuditedEffects \cup {"value"}, Covers(g, e)
  PROVE  GuiFits(Page(g, e))
<1>1. /\ Page(g, e).gates = <<"session">> \o g /\ Page(g, e).effect = e
      /\ Page(g, e).row = "never" /\ MetadataList.row = "after"
      /\ NoRoute.gates = <<>>
  BY DEF Page, NoRoute, MetadataList, ApiRoute
<1>2. Fits(Page(g, e))
  BY <1>1, SessionFirst DEF Fits, AuditedEffects
<1> QED
  BY <1>1, <1>2, SessionFirst DEF GuiFits, Covers

LEMMA ActionFits ==
  ASSUME NEW g \in Seq(Conditions), NEW e, Covers(g, e)
  PROVE  GuiFits(Action(g, e))
<1>1. /\ Action(g, e).gates = <<"session">> \o g /\ Action(g, e).effect = e
      /\ Action(g, e).row = "after" /\ MetadataList.gates = ApiGates \o <<>>
      /\ NoRoute.gates = <<>>
  BY DEF Action, NoRoute, MetadataList, ApiRoute
<1>2. Fits(Action(g, e))
  BY <1>1, SessionFirst DEF Fits, AuditedEffects
<1> QED
  BY <1>1, <1>2, SessionFirst DEF GuiFits, Covers

LEMMA GuiDemands ==
  ASSUME NEW u \in Users
  PROVE  /\ \A e \in {"openSession", "closeSession"} : Demands(e, u) = {}
         /\ \A e \in {"own", "password"} : Demands(e, u) = {"session"}
         /\ \A e \in {"manage", "disable", "enable", "seal"} :
              Demands(e, u) = {"session", "master"}
         /\ Demands("found", u) = {"session", "unsealed", "master"}
         /\ \A e \in {"names", "value"} :
            Demands(e, u) = {"session", "unsealed", "read"}
         /\ \A e \in {"change", "form", "mint", "endToken"} :
              Demands(e, u) = {"session", "unsealed", "write"}
         /\ \A e \in {"members", "grant", "revoke", "rotate"} :
              Demands(e, u) = {"session", "unsealed", "assign"}
<1>1. u \notin Tokens
  BY UsersAssumption
<1> QED
  BY <1>1 DEF Demands

LEMMA GuiRoutesFit == \A r \in GuiRoutes : GuiFits(r)
<1>1. {"session", "master", "unsealed", "read", "wrap", "write", "assign"}
        \subseteq Conditions
  BY DEF Conditions
<1>2. /\ GuiFits(UsersList) /\ GuiFits(UsersCreate) /\ GuiFits(UserDisable)
      /\ GuiFits(UserEnable) /\ GuiFits(AuditRetentionSet)
      /\ GuiFits(AuditPruneNow)
  <2> DEFINE g == <<"master">>
  <2>1. g \in Seq(Conditions) /\ Names(g) = {"master"}
    BY <1>1, ShortGates
  <2>2. \A e \in {"manage", "disable", "enable"} : Covers(g, e)
    BY <1>1, <2>1, GuiDemands DEF Covers
  <2> HIDE DEF g
  <2>3. GuiFits(Page(g, "manage"))
    BY <2>1, <2>2, PageFits DEF AuditedEffects
  <2>4. \A e \in {"disable", "enable"} : GuiFits(Action(g, e))
    BY <2>1, <2>2, ActionFits
  <2> QED
    BY <2>3, <2>4 DEF UsersList, UsersCreate, UserDisable, UserEnable,
                      AuditRetentionSet, AuditPruneNow, g
<1>3. GuiFits(PasswordForm) /\ GuiFits(PasswordChange)
  <2> DEFINE g == <<>>
  <2>1. g \in Seq(Conditions) /\ Names(g) = {}
    BY <1>1, ShortGates
  <2>2. \A e \in {"own", "password"} : Covers(g, e)
    BY <1>1, <2>1, GuiDemands DEF Covers
  <2> HIDE DEF g
  <2>3. GuiFits(Page(g, "own"))
    BY <2>1, <2>2, PageFits DEF AuditedEffects
  <2>4. GuiFits(Action(g, "password"))
    BY <2>1, <2>2, ActionFits
  <2> QED
    BY <2>3, <2>4 DEF PasswordForm, PasswordChange, g
<1>4. GuiFits(AuditView)
  <2> DEFINE g == <<"master", "unsealed">>
  <2>1. g \in Seq(Conditions) /\ Names(g) = {"master", "unsealed"}
    BY <1>1, ShortGates
  <2>2. Covers(g, "found")
    BY <1>1, <2>1, GuiDemands DEF Covers
  <2> HIDE DEF g
  <2>3. GuiFits(Page(g, "found"))
    BY <2>1, <2>2, PageFits DEF AuditedEffects
  <2> QED
    BY <2>3 DEF AuditView, g
<1>5. GuiFits(VaultNewForm)
  <2> DEFINE g == <<"unsealed", "master">>
  <2>1. g \in Seq(Conditions) /\ Names(g) = {"unsealed", "master"}
    BY <1>1, ShortGates
  <2>2. Covers(g, "found")
    BY <1>1, <2>1, GuiDemands DEF Covers
  <2> HIDE DEF g
  <2>3. GuiFits(Page(g, "found"))
    BY <2>1, <2>2, PageFits DEF AuditedEffects
  <2> QED
    BY <2>3 DEF VaultNewForm, g
<1>6. GuiFits(VaultCreate)
  <2> DEFINE g == <<"unsealed", "master", "unsealed">>
  <2>1. g \in Seq(Conditions) /\ Names(g) = {"unsealed", "master"}
    BY <1>1, ShortGates
  <2>2. Covers(g, "found")
    BY <1>1, <2>1, GuiDemands DEF Covers
  <2> HIDE DEF g
  <2>3. GuiFits(Page(g, "found"))
    BY <2>1, <2>2, PageFits DEF AuditedEffects
  <2> QED
    BY <2>3 DEF VaultCreate, g
<1>7. GuiFits(VaultDetail)
  <2> DEFINE g == <<"unsealed", "read">>
  <2>1. g \in Seq(Conditions) /\ Names(g) = {"unsealed", "read"}
    BY <1>1, ShortGates
  <2>2. Covers(g, "names")
    BY <1>1, <2>1, GuiDemands DEF Covers
  <2> HIDE DEF g
  <2>3. GuiFits(Page(g, "names"))
    BY <2>1, <2>2, PageFits DEF AuditedEffects
  <2> QED
    BY <2>3 DEF VaultDetail, g
<1>8. GuiFits(VaultSettings)
  <2> DEFINE g == <<"unsealed", "assign">>
  <2>1. g \in Seq(Conditions) /\ Names(g) = {"unsealed", "assign"}
    BY <1>1, ShortGates
  <2>2. Covers(g, "members")
    BY <1>1, <2>1, GuiDemands DEF Covers
  <2> HIDE DEF g
  <2>3. GuiFits(Page(g, "members"))
    BY <2>1, <2>2, PageFits DEF AuditedEffects
  <2> QED
    BY <2>3 DEF VaultSettings, g
<1>9. GuiFits(VaultAssign) /\ GuiFits(VaultRevoke) /\ GuiFits(VaultRotate)
  <2> DEFINE g == <<"unsealed", "assign", "unsealed">>
  <2>1. g \in Seq(Conditions) /\ Names(g) = {"unsealed", "assign"}
    BY <1>1, ShortGates
  <2>2. \A e \in {"grant", "revoke", "rotate"} : Covers(g, e)
    BY <1>1, <2>1, GuiDemands DEF Covers
  <2> HIDE DEF g
  <2>3. \A e \in {"grant", "revoke", "rotate"} : GuiFits(Action(g, e))
    BY <2>1, <2>2, ActionFits
  <2> QED
    BY <2>3 DEF VaultAssign, VaultRevoke, VaultRotate, g
<1>10. /\ GuiFits(SecretNewForm) /\ GuiFits(SecretDelete) /\ GuiFits(TokensList)
       /\ GuiFits(TokensRevoke) /\ GuiFits(ApprolesList)
       /\ GuiFits(ApprolesCreate) /\ GuiFits(ApproleSecretId)
       /\ GuiFits(ApproleDelete)
  <2> DEFINE g == <<"unsealed", "write">>
  <2>1. g \in Seq(Conditions) /\ Names(g) = {"unsealed", "write"}
    BY <1>1, ShortGates
  <2>2. \A e \in {"form", "change", "endToken", "mint"} : Covers(g, e)
    BY <1>1, <2>1, GuiDemands DEF Covers
  <2> HIDE DEF g
  <2>3. \A e \in {"form", "endToken", "mint"} : GuiFits(Page(g, e))
    BY <2>1, <2>2, PageFits DEF AuditedEffects
  <2>4. GuiFits(Action(g, "change"))
    BY <2>1, <2>2, ActionFits
  <2> QED
    BY <2>3, <2>4 DEF SecretNewForm, SecretDelete, TokensList, TokensRevoke,
                      ApprolesList, ApprolesCreate, ApproleSecretId,
                      ApproleDelete, g
<1>11. GuiFits(SecretWrite)
  <2> DEFINE g == <<"unsealed", "write", "wrap">>
  <2>1. g \in Seq(Conditions) /\ Names(g) = {"unsealed", "write", "wrap"}
    BY <1>1, ShortGates
  <2>2. Covers(g, "change")
    BY <1>1, <2>1, GuiDemands DEF Covers
  <2> HIDE DEF g
  <2>3. GuiFits(Action(g, "change"))
    BY <2>1, <2>2, ActionFits
  <2> QED
    BY <2>3 DEF SecretWrite, g
<1>12. GuiFits(SecretView)
  <2> DEFINE g == <<"unsealed", "read", "wrap">>
  <2>1. g \in Seq(Conditions) /\ Names(g) = {"unsealed", "read", "wrap"}
    BY <1>1, ShortGates
  <2>2. Covers(g, "value")
    BY <1>1, <2>1, GuiDemands DEF Covers
  <2> HIDE DEF g
  <2>3. GuiFits(Action(g, "value"))
    BY <2>1, <2>2, ActionFits
  <2> QED
    BY <2>3 DEF SecretView, g
<1>13. GuiFits(TokensCreate)
  <2> DEFINE g == <<"unsealed", "write", "unsealed", "wrap">>
  <2>1. g \in Seq(Conditions) /\ Names(g) = {"unsealed", "write", "wrap"}
    <3>1. /\ g \in Seq(Conditions) /\ Len(g) = 4 /\ 1..4 = {1, 2, 3, 4}
          /\ g[1] = "unsealed" /\ g[2] = "write"
          /\ g[3] = "unsealed" /\ g[4] = "wrap"
      BY <1>1
    <3> QED
      BY <3>1 DEF Names
  <2>2. Covers(g, "mint")
    BY <1>1, <2>1, GuiDemands DEF Covers
  <2> HIDE DEF g
  <2>3. GuiFits(Page(g, "mint"))
    BY <2>1, <2>2, PageFits DEF AuditedEffects
  <2> QED
    BY <2>3 DEF TokensCreate, g
<1>14. GuiFits(GuiRoot)
  <2> DEFINE g == <<"unsealed", "session">>
  <2>1. g \in Seq(Conditions) /\ Names(g) = {"unsealed", "session"}
    BY <1>1, ShortGates
  <2>2. \A u \in Users : Demands("own", u) = {"session"}
    BY GuiDemands
  <2>3. GuiRoot.row # MetadataList.row /\ GuiRoot # NoRoute
    BY DEF GuiRoot, MetadataList, ApiRoute, NoRoute
  <2> QED
    BY <1>1, <2>1, <2>2, <2>3 DEF GuiRoot, GuiFits, Fits, AuditedEffects
<1>15. GuiFits(SealInstance)
  <2> DEFINE g == <<"session", "master">>
  <2>1. g \in Seq(Conditions) /\ Names(g) = {"session", "master"}
    BY <1>1, ShortGates
  <2>2. \A u \in Users : Demands("seal", u) = {"session", "master"}
    BY GuiDemands
  <2>3. SealInstance.row # MetadataList.row /\ SealInstance # NoRoute
    BY DEF SealInstance, MetadataList, ApiRoute, NoRoute
  <2> QED
    BY <1>1, <2>1, <2>2, <2>3 DEF SealInstance, GuiFits, Fits, AuditedEffects
<1>16. GuiFits(LoginSubmit)
  <2> DEFINE g == <<>>
  <2>1. g \in Seq(Conditions) /\ Names(g) = {}
    BY <1>1, ShortGates
  <2>2. \A u \in Users : Demands("openSession", u) = {}
    BY GuiDemands
  <2>3. LoginSubmit.row # MetadataList.row /\ LoginSubmit # NoRoute
    BY DEF LoginSubmit, MetadataList, ApiRoute, NoRoute
  <2> QED
    BY <1>1, <2>1, <2>2, <2>3 DEF LoginSubmit, GuiFits, Fits, AuditedEffects
<1>17. GuiFits(Logout)
  <2> DEFINE g == <<>>
  <2>1. g \in Seq(Conditions) /\ Names(g) = {}
    BY <1>1, ShortGates
  <2>2. \A u \in Users : Demands("closeSession", u) = {}
    BY GuiDemands
  <2>3. Logout.row # MetadataList.row /\ Logout # NoRoute
    BY DEF Logout, MetadataList, ApiRoute, NoRoute
  <2> QED
    BY <1>1, <2>1, <2>2, <2>3 DEF Logout, GuiFits, Fits, AuditedEffects
<1> QED
  BY <1>2, <1>3, <1>4, <1>5, <1>6, <1>7, <1>8, <1>9, <1>10, <1>11, <1>12,
     <1>13, <1>14, <1>15, <1>16, <1>17 DEF GuiRoutes

ApiFits(r) ==
  /\ Fits(r) /\ r.row = "after" /\ r.effect \in {"value", "change", "names"}
  /\ \A t \in Tokens :
     Demands(r.effect, t) \subseteq Names(r.gates) \cap Conditions

LEMMA ApiRoutesFit == \A r \in ApiRoutes : ApiFits(r)
<1>1. /\ ApiGates \o <<>> \in Seq(Conditions)
      /\ Names(ApiGates \o <<>>) = {"unsealed", "token", "rules"}
      /\ ApiGates \o <<"writable">> \in Seq(Conditions)
      /\ Names(ApiGates \o <<"writable">>) =
           {"unsealed", "token", "rules", "writable"}
  <2>1. {"unsealed", "token", "rules", "writable"} \subseteq Conditions
    BY DEF Conditions
  <2>2. /\ ApiGates \in Seq(Conditions)
        /\ Names(ApiGates) = {"unsealed", "token", "rules"}
        /\ <<>> \in Seq(Conditions) /\ Names(<<>>) = {}
        /\ <<"writable">> \in Seq(Conditions)
        /\ Names(<<"writable">>) = {"writable"}
    BY <2>1, ShortGates DEF ApiGates
  <2>3. /\ ApiGates \o <<>> \in Seq(Conditions)
        /\ Names(ApiGates \o <<>>) = Names(ApiGates) \cup Names(<<>>)
    BY <2>2, NamesJoined
  <2>4. /\ ApiGates \o <<"writable">> \in Seq(Conditions)
        /\ Names(ApiGates \o <<"writable">>)
           = Names(ApiGates) \cup Names(<<"writable">>)
    BY <2>2, NamesJoined
  <2> QED
    BY <2>2, <2>3, <2>4
<1>2. /\ \A t \in Tokens :
         Demands("change", t) = {"unsealed", "token", "rules", "writable"}
      /\ \A t \in Tokens : Demands("value", t) = {"unsealed", "token", "rules"}
      /\ \A t \in Tokens : Demands("names", t) = {"unsealed", "token", "rules"}
  BY DEF Demands
<1>3. /\ ApiFits(Read) /\ ApiFits(Write) /\ ApiFits(Delete)
      /\ ApiFits(MetadataList)
  BY <1>1, <1>2 DEF Conditions, ApiFits, Fits, AuditedEffects, Read, Write,
    Delete, MetadataList, ApiRoute
<1> QED
  BY <1>3 DEF ApiRoutes

-----------------------------------------------------------------------------
(* Steps of a request and of the system                                     *)

LEMMA GoodRoute ==
  ASSUME NEW q, Formed(q), q.step # "idle"
  PROVE  /\ Fits(q.route)
         /\ OfApi(q) => ApiFits(q.route)
         /\ ~OfApi(q) => GuiFits(q.route) /\ q.who \in Users
<1>1. q.who \in Users \cup Tokens
  BY DEF Formed, Requests
<1>2. CASE OfApi(q)
  BY <1>2, ApiRoutesFit DEF Formed, ApiFits
<1>3. CASE ~OfApi(q)
  BY <1>1, <1>3, GuiRoutesFit DEF Formed, GuiFits, OfApi
<1> QED
  BY <1>2, <1>3

\* All but missing and sealed.
Alike(q, r) ==
  /\ q.route = r.route /\ q.who = r.who /\ q.step = r.step /\ q.gate = r.gate
  /\ q.admitted = r.admitted /\ q.asked = r.asked /\ q.shown = r.shown
  /\ q.outcome = r.outcome /\ q.row = r.row /\ q.lost = r.lost

LEMMA BecomeFields ==
  ASSUME NEW r \in Requests, Become(r)
  PROVE  /\ request' \in Requests /\ Alike(request', r)
         /\ request'.missing \subseteq r.missing
         /\ r.sealed => request'.sealed
         /\ Running(r) =>
              /\ \A d \in request'.missing : ~Holds(system', d, r.who)
              /\ ~system'.unsealed => request'.sealed
<1>1. CASE ~Running(r)
  <2>1. request' = r
    BY <1>1 DEF Running, Become, Requests
  <2> QED
    BY <1>1, <2>1 DEF Alike
<1>2. CASE Running(r)
  <2> DEFINE m == {d \in r.missing : ~Holds(system', d, r.who)}
             s == (r.sealed \/ ~system'.unsealed)
  <2>1. request' = [r EXCEPT !.missing = m, !.sealed = s]
    BY <1>2 DEF Running, Become
  <2>2. m \subseteq r.missing /\ m \subseteq Conditions /\ s \in BOOLEAN
    BY DEF Requests
  <2> HIDE DEF m, s
  <2>3. /\ request' \in Requests /\ Alike(request', r) /\ request'.missing = m
        /\ request'.sealed = s
    BY <2>1, <2>2 DEF Requests, Alike
  <2>4. (r.sealed => s) /\ (~system'.unsealed => s)
    BY DEF s
  <2>5. \A d \in m : ~Holds(system', d, r.who)
    BY DEF m
  <2> QED
    BY <2>2, <2>3, <2>4, <2>5
<1> QED
  BY <1>1, <1>2

\* A good request stays good when its history is brought up to date.
LEMMA BecomeGood ==
  ASSUME NEW r, Good(r), Become(r)
  PROVE  Good(request') /\ SealSeen(system', request')
<1> DEFINE q == request'
<1>1. /\ q \in Requests /\ Alike(q, r) /\ q.missing \subseteq r.missing
      /\ r.sealed => q.sealed
      /\ Running(r) /\ ~system'.unsealed => q.sealed
  BY BecomeFields DEF Good, Formed
<1> HIDE DEF q
<1>2. Formed(q)
  BY <1>1 DEF Good, Formed, Alike, OfApi
<1>3. Paid(q)
  BY <1>1 DEF Good, Paid, Alike, Owing
<1>4. Written(q)
  <2>1. (Worth(q) <=> Worth(r)) /\ (Excused(r) => Excused(q))
    BY <1>1 DEF Worth, Excused, Alike, OfApi
  <2> QED
    BY <1>1, <2>1 DEF Good, Written, Alike
<1>5. Right(q)
  BY <1>1 DEF Good, Right, Alike
<1>6. SealSeen(system', q)
  BY <1>1 DEF SealSeen, Running, Alike
<1> QED
  BY <1>2, <1>3, <1>4, <1>5, <1>6 DEF Good, q

LEMMA ChangesTyped ==
  ASSUME system \in Systems, NEW s \in Changes
  PROVE  s \in Systems
<1>1. CASE s \in {[system EXCEPT !.unsealed = unsealed] : unsealed \in BOOLEAN}
  BY <1>1 DEF Systems
<1>2. CASE s \in {SetSignedIn(system.signedIn \cup {u}) : u \in Users}
  BY <1>2 DEF Systems, SetSignedIn
<1>3. CASE s \in {SetSignedIn(system.signedIn \ {u}) : u \in Users}
  BY <1>3 DEF Systems, SetSignedIn
<1>4. CASE s \in {SetRole(u, role) : u \in Users \ {Master}, role \in Roles}
  <2>1. PICK u \in Users \ {Master}, role \in Roles : s = SetRole(u, role)
    BY <1>4
  <2>2. /\ system.role \in [Users -> Roles]
        /\ s = [system EXCEPT !.role = [system.role EXCEPT ![u] = role]]
    BY <2>1 DEF SetRole, Systems
  <2>3. [system.role EXCEPT ![u] = role] \in [Users -> Roles]
    BY <2>2
  <2>4. [system.role EXCEPT ![u] = role][Master] = "none"
    BY <2>2, UsersAssumption DEF Systems
  <2> QED
    BY <2>2, <2>3, <2>4 DEF Systems
<1>5. CASE s \in {[system EXCEPT !.live = @ \ {t}] : t \in Tokens}
  BY <1>5 DEF Systems
<1> QED
  BY <1>1, <1>2, <1>3, <1>4, <1>5 DEF Changes

LEMMA OutcomesAreChanges ==
  ASSUME system \in Systems, Formed(request), At("effect")
  PROVE  Outcomes \subseteq Changes
<1>1. system \in Changes
  <2>1. /\ system = [system EXCEPT !.unsealed = system.unsealed]
        /\ system.unsealed \in BOOLEAN
    BY DEF Systems
  <2> QED
    BY <2>1 DEF Changes
<1>2. CASE Effect = "disable"
  BY <1>2 DEF Outcomes, Changes
<1>3. CASE Effect \in {"openSession", "closeSession"}
  <2>1. ~OfApi(request)
    BY <1>3, GoodRoute DEF ApiFits, Effect, At
  <2>2. request.who \in Users
    BY <2>1, GoodRoute DEF At
  <2>3. Outcomes = IF Effect = "openSession"
                   THEN {SetSignedIn(system.signedIn \cup {request.who})}
                   ELSE {SetSignedIn(system.signedIn \ {request.who})}
    BY <1>3 DEF Outcomes
  <2> DEFINE seals == {[system EXCEPT !.unsealed = unsealed] : unsealed \in BOOLEAN}
             starts == {SetSignedIn(system.signedIn \cup {u}) : u \in Users}
             ends == {SetSignedIn(system.signedIn \ {u}) : u \in Users}
             roles == {SetRole(u, role) : u \in Users \ {Master}, role \in Roles}
             expiries == {[system EXCEPT !.live = @ \ {t}] : t \in Tokens}
  <2>4. Changes = seals \cup starts \cup ends \cup roles \cup expiries
    BY DEF Changes
  <2>5. /\ SetSignedIn(system.signedIn \cup {request.who}) \in starts
        /\ SetSignedIn(system.signedIn \ {request.who}) \in ends
    BY <2>2
  <2> HIDE DEF seals, starts, ends, roles, expiries
  <2> QED
    BY <2>2, <2>3, <2>4, <2>5
<1>4. CASE Effect = "grant"
  BY <1>4 DEF Outcomes, Changes, Assignable
<1>5. CASE Effect = "revoke"
  <2>1. SetRole(Master, "none") = system
    BY DEF SetRole, Systems
  <2>2. \A u \in Users \ {Master} : SetRole(u, "none") \in Changes
    BY DEF Changes, Roles
  <2> QED
    BY <1>1, <1>5, <2>1, <2>2 DEF Outcomes
<1>6. CASE Effect = "endToken"
  BY <1>6 DEF Outcomes, Changes
<1>7. CASE Effect = "seal"
  <2>1. Outcomes = {[system EXCEPT !.unsealed = FALSE]}
    BY <1>7 DEF Outcomes
  <2>2. \A b \in BOOLEAN : [system EXCEPT !.unsealed = b] \in Changes
    BY DEF Changes
  <2> QED
    BY <2>1, <2>2
<1>8. CASE Effect \notin {"disable", "openSession", "closeSession", "grant",
                          "revoke", "endToken", "seal"}
  BY <1>1, <1>8 DEF Outcomes
<1> QED
  BY <1>2, <1>3, <1>4, <1>5, <1>6, <1>7, <1>8

-----------------------------------------------------------------------------
(* Beginnings                                                               *)

\* A request at its beginning, with what it demands and does not get for free.
Fresh(r) ==
  /\ r \in Requests
  /\ r.route \in IF OfApi(r) THEN ApiRoutes ELSE GuiRoutes
  /\ r.step = IF r.route.gates = <<>> THEN AfterGates(r.route) ELSE "gate"
  /\ r.gate = 1 /\ r.shown = {} /\ r.outcome = "none" /\ r.row = "none"
  /\ r.missing \subseteq Demands(r.route.effect, r.who)
  /\ r.admitted => OfApi(r) /\ "rules" \notin r.missing

LEMMA FreshGood ==
  ASSUME NEW r, Fresh(r)
  PROVE  Good(r)
<1>1. /\ Fits(r.route) /\ r.route # NoRoute /\ r.who \in Users \cup Tokens
      /\ Demands(r.route.effect, r.who) \subseteq Names(r.route.gates)
  <2>1. r.who \in Users \cup Tokens
    BY DEF Fresh, Requests
  <2>2. CASE OfApi(r)
    <3>1. ApiFits(r.route)
      BY <2>2, ApiRoutesFit DEF Fresh
    <3>2. r.route.row # NoRoute.row
      BY <3>1 DEF ApiFits, NoRoute
    <3> QED
      BY <2>1, <2>2, <3>1, <3>2 DEF ApiFits, OfApi
  <2>3. CASE ~OfApi(r)
    <3>1. GuiFits(r.route)
      BY <2>3, GuiRoutesFit DEF Fresh
    <3> QED
      BY <2>1, <2>3, <3>1 DEF GuiFits, OfApi
  <2> QED
    BY <2>2, <2>3
<1>2. /\ Len(r.route.gates) \in Nat
      /\ r.route.gates = <<>> <=> Len(r.route.gates) = 0
  BY <1>1, EmptySeq, LenProperties DEF Fits
<1>3. AfterGates(r.route) \in {"effect", "record"}
  BY DEF AfterGates
<1>4. Formed(r)
  <2>1. r.gate \in 1..(Len(r.route.gates) + 1)
    BY <1>2 DEF Fresh
  <2>2. r.step = "gate" => r.gate # Len(r.route.gates) + 1
    BY <1>2, <1>3 DEF Fresh
  <2> QED
    BY <1>1, <2>1, <2>2 DEF Formed, Fresh
<1>5. Paid(r)
  <2>1. r.missing \subseteq Names(r.route.gates)
    BY <1>1 DEF Fresh
  <2>2. CASE r.route.gates = <<>>
    <3>1. r.missing = {}
      BY <1>2, <2>1, <2>2 DEF Names
    <3> QED
      BY <3>1 DEF Paid, Fresh
  <2>3. CASE r.route.gates # <<>>
    <3>1. r.step = "gate" /\ Owing(r) = Names(r.route.gates)
      BY <2>3 DEF Owing, Names, Fresh
    <3> QED
      BY <2>1, <3>1 DEF Paid, Fresh
  <2> QED
    BY <2>2, <2>3
<1>6. Written(r) /\ Right(r)
  BY <1>3 DEF Written, Right, Fresh, AfterGates
<1> QED
  BY <1>4, <1>5, <1>6 DEF Good

\* No request at all is a good one.
LEMMA IdleGood == Good(Idle)
<1>1. Root \in Path /\ <<>> \in Seq(Conditions) /\ Len(<<>>) = 0
  <2>1. <<>> \in Segment /\ Root \in Seq(Segment) /\ Root # <<>>
    BY EmptySeq DEF Segment, Root
  <2> QED
    BY <2>1, EmptySeq DEF Path
<1>2. Master \in Users /\ Master \notin Tokens
  BY UsersAssumption
<1>3. Formed(Idle)
  BY <1>1, <1>2 DEF Idle, NoRoute, Formed, Requests, OfApi
<1>4. Paid(Idle) /\ Written(Idle) /\ Right(Idle)
  BY DEF Idle, Paid, Written, Right
<1> QED
  BY <1>3, <1>4 DEF Good

\* The conditions of an effect are ones a gate may ask for.
LEMMA DemandsConditions ==
  /\ \A route \in GuiRoutes, u \in Users :
     Demands(route.effect, u) \subseteq Conditions
  /\ \A route \in ApiRoutes, t \in Tokens :
     Demands(route.effect, t) \subseteq Conditions
BY GuiRoutesFit, ApiRoutesFit DEF GuiFits, ApiFits

\* r is what Start(route, who) makes.
Started(r, route, who) ==
  /\ r \in Requests /\ r.route = route /\ r.who = who
  /\ r.step = IF route.gates = <<>> THEN AfterGates(route) ELSE "gate"
  /\ r.gate = 1 /\ r.shown = {} /\ r.outcome = "none" /\ r.row = "none"
  /\ r.missing = Demands(route.effect, who) /\ r.admitted = FALSE

LEMMA StartStarted ==
  ASSUME NEW route \in GuiRoutes \cup ApiRoutes, NEW who \in Users \cup Tokens,
         Demands(route.effect, who) \subseteq Conditions
  PROVE  Started(Start(route, who), route, who)
<1> DEFINE step == IF route.gates = <<>> THEN AfterGates(route) ELSE "gate"
           m == Demands(route.effect, who)
           r == Start(route, who)
<1>1. r = [Idle EXCEPT !.route = route, !.who = who, !.step = step,
        !.missing = m]
  BY DEF Start
<1>2. step \in {"idle", "gate", "effect", "record", "answered"}
  BY DEF AfterGates
<1>3. /\ m \subseteq Conditions
      /\ route \in GuiRoutes \cup ApiRoutes \cup {NoRoute}
  OBVIOUS
<1>4. /\ Idle.gate = 1 /\ Idle.shown = {}
      /\ Idle.outcome = "none" /\ Idle.row = "none" /\ Idle.admitted = FALSE
  BY DEF Idle
<1>5. Idle \in Requests
  BY IdleGood DEF Good, Formed
<1> HIDE DEF step, m, r
<1>6. r \in Requests
  BY <1>1, <1>2, <1>3, <1>5 DEF Requests
<1>7. /\ r.route = route /\ r.who = who /\ r.step = step
      /\ r.gate = Idle.gate /\ r.shown = Idle.shown /\ r.outcome = Idle.outcome
      /\ r.row = Idle.row /\ r.missing = m /\ r.admitted = Idle.admitted
  BY <1>1, <1>5 DEF Requests
<1>8. Started(r, route, who)
  BY <1>4, <1>6, <1>7 DEF Started, step, m
<1> QED
  BY <1>8 DEF r

LEMMA InitRuled == Init => Ruled
<1> SUFFICES ASSUME Init PROVE Ruled
  OBVIOUS
<1>1. system \in Systems
  BY UsersAssumption DEF Init, Systems, Roles
<1>2. Good(request) /\ SealSeen(system, request)
  BY IdleGood DEF Init, SealSeen, Running, Idle
<1> QED
  BY <1>1, <1>2 DEF Ruled


LEMMA GuiBeginRuled ==
  ASSUME Ruled, NEW route \in GuiRoutes, NEW u \in Users, GuiBegin(route, u)
  PROVE  Ruled'
<1> DEFINE r == Start(route, u)
<1>1. u \notin Tokens /\ Demands(route.effect, u) \subseteq Conditions
  BY UsersAssumption, DemandsConditions
<1>2. Become(r) /\ system' = system
  BY DEF GuiBegin
<1> HIDE DEF r
<1>3. Fresh(r)
  <2>1. Started(r, route, u)
    BY <1>1, StartStarted DEF r
  <2> QED
    BY <1>1, <2>1 DEF Fresh, OfApi, Started
<1> QED
  BY <1>2, <1>3, FreshGood, BecomeGood DEF Ruled

LEMMA ApiBeginRuled ==
  ASSUME Ruled, NEW route \in ApiRoutes, NEW t \in Tokens, NEW asked \in Asked,
         NEW a \in Arrivals, ApiBegin(route, t, asked, a)
  PROVE  Ruled'
<1> DEFINE s == Start(route, t)
           admitted == Admits(t, asked, a)
           ask == IF route = MetadataList THEN asked ELSE Root
           m == IF Within(t, asked, a) THEN s.missing \ {"rules"} ELSE s.missing
           r == [s EXCEPT !.admitted = admitted, !.asked = ask, !.missing = m]
<1>1. Demands(route.effect, t) \subseteq Conditions
  BY DemandsConditions
<1>2. /\ s \in Requests /\ s.route = route /\ s.who = t
      /\ s.step = IF route.gates = <<>> THEN AfterGates(route) ELSE "gate"
      /\ s.gate = 1 /\ s.shown = {} /\ s.outcome = "none" /\ s.row = "none"
      /\ s.missing = Demands(route.effect, t)
  <2>1. Started(s, route, t)
    BY <1>1, StartStarted
  <2> HIDE DEF s
  <2> QED
    BY <2>1 DEF Started
<1>3. Become(r) /\ system' = system
  BY DEF ApiBegin
<1>4. asked \in Path /\ Root \in Path
  BY PathsAssumption, IdleGood DEF Good, Formed, Requests, Idle
<1>5. admitted => "rules" \notin m
  BY <1>4, AdmitsWithin
<1>6. /\ m \subseteq s.missing /\ m \in SUBSET Conditions
      /\ admitted \in BOOLEAN /\ ask \in Path
  BY <1>1, <1>2, <1>4 DEF Admits
<1> HIDE DEF s, admitted, ask, m, r
<1>7. /\ r \in Requests /\ r.route = route /\ r.who = t /\ r.step = s.step
      /\ r.gate = 1 /\ r.shown = {} /\ r.outcome = "none" /\ r.row = "none"
      /\ r.missing = m /\ r.admitted = admitted
  BY <1>2, <1>6 DEF Requests, r
<1>8. Fresh(r)
  BY <1>2, <1>5, <1>6, <1>7 DEF Fresh, OfApi
<1> QED
  BY <1>3, <1>8, FreshGood, BecomeGood DEF Ruled

-----------------------------------------------------------------------------
(* Gates                                                                    *)

\* Behind a gate its condition is met, and the others still missing are ahead.
LEMMA GatePassesRuled ==
  ASSUME Ruled, GatePasses
  PROVE  Ruled'
<1> DEFINE q == request
           n == Len(q.route.gates)
           r == IF LastGate
                THEN [request EXCEPT !.step = AfterGates(request.route),
                                     !.gate = 1]
                ELSE [request EXCEPT !.gate = @ + 1]
           p == request'
<1>1. /\ Good(q) /\ q.step = "gate" /\ Become(r) /\ system' = system
      /\ q.gate \in 1..n /\ n \in Nat /\ q \in Requests
  <2>1. Good(q) /\ q.step = "gate" /\ Become(r) /\ system' = system
    BY DEF Ruled, GatePasses, At
  <2>2. n \in Nat
    BY <2>1, GoodRoute, LenProperties DEF Good, Fits
  <2> QED
    BY <2>1, <2>2 DEF Good, Formed
<1>2. /\ r \in Requests /\ r.route = q.route /\ r.who = q.who
      /\ r.admitted = q.admitted /\ r.asked = q.asked /\ r.shown = q.shown
      /\ r.outcome = q.outcome /\ r.row = q.row /\ r.lost = q.lost
      /\ r.missing = q.missing /\ r.sealed = q.sealed
      /\ LastGate => r.step = AfterGates(q.route) /\ r.gate = 1
      /\ ~LastGate => r.step = "gate" /\ r.gate = q.gate + 1
  <2>1. CASE LastGate
    <3>1. r = [q EXCEPT !.step = AfterGates(q.route), !.gate = 1]
      BY <2>1
    <3>2. AfterGates(q.route) \in {"effect", "record"}
      BY DEF AfterGates
    <3> HIDE DEF r, q
    <3> QED
      BY <1>1, <2>1, <3>1, <3>2 DEF Requests
  <2>2. CASE ~LastGate
    <3>1. r = [q EXCEPT !.gate = q.gate + 1]
      BY <2>2
    <3>2. q.gate + 1 \in Nat
      BY <1>1
    <3> HIDE DEF r, q
    <3> QED
      BY <1>1, <2>2, <3>1, <3>2 DEF Requests
  <2> QED
    BY <2>1, <2>2
<1> HIDE DEF r
<1>3. Running(r)
  BY <1>2 DEF Running, AfterGates
<1>4. /\ p \in Requests /\ Alike(p, r) /\ p.missing \subseteq q.missing
      /\ q.sealed => p.sealed
      /\ \A d \in p.missing : ~Holds(system', d, q.who)
      /\ ~system'.unsealed => p.sealed
  BY <1>1, <1>2, <1>3, BecomeFields
<1>5. Gate \notin p.missing
  <2>1. CASE Gate = "rules"
    BY <1>1, <1>4, <2>1 DEF GatePasses, Passes, Good, Paid
  <2>2. CASE Gate # "rules"
    BY <1>1, <1>4, <2>2 DEF GatePasses, Passes
  <2> QED
    BY <2>1, <2>2
<1>6. \A d \in p.missing : \E j \in (q.gate + 1)..n : d = q.route.gates[j]
  <2> TAKE d \in p.missing
  <2>1. PICK j \in q.gate..n : d = q.route.gates[j]
    BY <1>1, <1>4 DEF Good, Paid, Owing
  <2>2. j # q.gate
    BY <1>5, <2>1 DEF Gate
  <2>3. j \in (q.gate + 1)..n
    BY <1>1, <2>1, <2>2
  <2> QED
    BY <2>1, <2>3
<1>7. LastGate <=> q.gate = n
  BY DEF LastGate
<1> HIDE DEF q, n, p
<1>8. Formed(p)
  BY <1>1, <1>2, <1>4, <1>7 DEF Good, Formed, Alike, OfApi, AfterGates, n
<1>9. Paid(p)
  <2>1. CASE LastGate
    <3>1. p.missing = {}
      BY <1>1, <1>6, <1>7, <2>1
    <3> QED
      BY <1>1, <1>2, <1>4, <2>1, <3>1 DEF Paid, Alike, AfterGates
  <2>2. CASE ~LastGate
    <3>1. p.missing \subseteq Owing(p)
      BY <1>2, <1>4, <1>6, <2>2 DEF Owing, Alike, n
    <3> QED
      BY <1>1, <1>2, <1>4, <2>2, <3>1 DEF Good, Paid, Written, Alike
  <2> QED
    BY <2>1, <2>2
<1>10. Written(p) /\ Right(p)
  BY <1>1, <1>2, <1>4 DEF Good, Written, Right, Alike, AfterGates
<1>11. SealSeen(system', p)
  BY <1>4 DEF SealSeen
<1> QED
  BY <1>1, <1>8, <1>9, <1>10, <1>11 DEF Good, Ruled, p

-----------------------------------------------------------------------------
(* Denials, effects, rows and the end                                       *)

\* What remains to be shown of an action: that the request it makes is good.
LEMMA BecomeRuled ==
  ASSUME NEW r, Good(r), Become(r), system' \in Systems
  PROVE  Ruled'
BY BecomeGood DEF Ruled

\* What no step of a request changes but its beginning and its end.
Kept(q, r) ==
  /\ r \in Requests /\ r.route = q.route /\ r.who = q.who
  /\ r.admitted = q.admitted /\ r.asked = q.asked
  /\ r.missing = q.missing /\ r.sealed = q.sealed

LEMMA KeptFormed ==
  ASSUME NEW q, Good(q), NEW r, Kept(q, r), r.gate \in {1, q.gate},
         q.step # "idle", r.step \in {"effect", "record", "answered"},
         r.shown = {} \/ r.shown = q.shown \/ OfApi(q)
  PROVE  Formed(r)
<1>1. Len(q.route.gates) \in Nat
  BY GoodRoute, LenProperties DEF Good, Fits
<1>2. 1 \in 1..(Len(q.route.gates) + 1)
  BY <1>1
<1> QED
  BY <1>2 DEF Good, Formed, Kept, OfApi

\* A denial of the API has its row still to come.
LEMMA ApiDeniesRuled ==
  ASSUME Ruled, ApiDenies
  PROVE  Ruled'
<1> DEFINE q == request
           r == [q EXCEPT !.step = "record", !.gate = 1, !.outcome = "denied"]
<1>1. /\ Good(q) /\ q.step = "gate" /\ OfApi(q) /\ Become(r)
      /\ system' \in Systems
  BY DEF Ruled, ApiDenies, At, Api, OfApi
<1> HIDE DEF q
<1>2. /\ Kept(q, r) /\ r.step = "record" /\ r.gate = 1 /\ r.outcome = "denied"
      /\ r.shown = q.shown /\ r.row = q.row
  BY <1>1 DEF Good, Formed, Requests, Kept
<1> HIDE DEF r
<1>3. Formed(r)
  BY <1>1, <1>2, KeptFormed
<1>4. Paid(r)
  BY <1>1, <1>2 DEF Good, Paid, Kept
<1>5. Written(r) /\ Right(r)
  <2>1. q.route.row = "after"
    BY <1>1, GoodRoute DEF Good, ApiFits
  <2> QED
    BY <1>1, <1>2, <2>1 DEF Good, Written, Right, Kept
<1> QED
  BY <1>1, <1>3, <1>4, <1>5, BecomeRuled DEF Good

\* GateRefuses and Fail: whoever fails has no row, or one written ahead.
LEMMA FailedRuled ==
  ASSUME Ruled, At("gate") \/ At("effect"), Answer("failed"), system' = system
  PROVE  Ruled'
<1> DEFINE q == request
           r == [q EXCEPT !.step = "answered", !.outcome = "failed"]
<1>1. /\ Good(q) /\ q.step \in {"gate", "effect"} /\ Become(r)
      /\ system' \in Systems
  BY DEF Ruled, At, Answer
<1> HIDE DEF q
<1>2. /\ Kept(q, r) /\ r.step = "answered" /\ r.gate = q.gate
      /\ r.outcome = "failed" /\ r.shown = q.shown /\ r.row = q.row
  BY <1>1 DEF Good, Formed, Requests, Kept
<1> HIDE DEF r
<1>3. Formed(r)
  BY <1>1, <1>2, KeptFormed
<1>4. Paid(r)
  BY <1>1, <1>2 DEF Good, Paid, Kept
<1>5. Written(r) /\ Right(r)
  <2>1. \/ q.row = "none"
        \/ q.row = "ok" /\ q.route.effect \in {"seal", "openSession"}
    BY <1>1, GoodRoute DEF Good, Written, Fits
  <2> QED
    BY <1>2, <2>1 DEF Written, Right, Kept
<1> QED
  BY <1>1, <1>3, <1>4, <1>5, BecomeRuled DEF Good

\* An effect is taken with nothing missing, and its row is still to come, or was
\* written ahead, or is not called for.
LEMMA TakeRuled ==
  ASSUME Ruled, Take
  PROVE  Ruled'
<1> DEFINE q == request
           step == IF q.route.row = "after" THEN "record" ELSE "answered"
           shown == IF q.route = MetadataList THEN Listed(Stored, q.asked)
                    ELSE {}
           r == [q EXCEPT !.step = step, !.outcome = "done", !.shown = shown]
<1>1. Good(q) /\ q.step = "effect" /\ Become(r)
  BY DEF Ruled, Take, At
<1>2. system' \in Systems
  BY <1>1, OutcomesAreChanges, ChangesTyped DEF Ruled, Take, Good
<1> HIDE DEF q
<1>3. /\ q.route = MetadataList => shown = Below(Stored, q.asked) /\ OfApi(q)
      /\ q.route # MetadataList => shown = {}
      /\ shown \subseteq Stored
  <2>1. q.asked \in Path /\ Stored \subseteq Path
    BY <1>1, PathsAssumption DEF Good, Formed, Requests
  <2>2. Listed(Stored, q.asked) = Below(Stored, q.asked)
    BY <2>1, ListMeans
  <2>3. Below(Stored, q.asked) \subseteq Stored
    BY DEF Below
  <2>4. q.route = MetadataList => OfApi(q)
    BY <1>1, GoodRoute DEF Good, GuiFits
  <2> QED
    BY <2>2, <2>3, <2>4
<1>4. step \in {"record", "answered"}
        /\ (q.route.row = "after" <=> step = "record")
  OBVIOUS
<1> HIDE DEF step, shown
<1>5. /\ Kept(q, r) /\ r.step = step /\ r.gate = q.gate
      /\ r.outcome = "done" /\ r.shown = shown /\ r.row = q.row
      /\ r.lost = q.lost
  BY <1>1, <1>3, <1>4 DEF Good, Formed, Requests, Kept
<1> HIDE DEF r
<1>6. Formed(r)
  BY <1>1, <1>3, <1>4, <1>5, KeptFormed
<1>7. Paid(r)
  BY <1>1, <1>5 DEF Good, Paid, Kept
<1>8. Written(r)
  <2>1. /\ Fits(q.route) /\ (OfApi(q) => q.route.row = "after")
        /\ (Worth(r) <=> Worth(q)) /\ (Excused(r) <=> Excused(q))
    BY <1>1, <1>5, GoodRoute DEF Good, ApiFits, Worth, Excused, Kept, OfApi
  <2>2. CASE q.route.row = "after"
    BY <1>1, <1>4, <1>5, <2>2 DEF Good, Written, Kept
  <2>3. CASE q.route.row = "before"
    BY <1>1, <1>4, <1>5, <2>1, <2>3 DEF Good, Written, Kept
  <2>4. CASE q.route.row = "never"
    <3>1. ~Worth(q)
      BY <2>1, <2>4 DEF Worth, Fits, AuditedEffects
    <3> QED
      BY <1>1, <1>4, <1>5, <2>1, <2>4, <3>1 DEF Good, Written, Kept
  <2> QED
    BY <2>1, <2>2, <2>3, <2>4 DEF Fits
<1>9. Right(r)
  BY <1>3, <1>5 DEF Right, Kept
<1> QED
  BY <1>1, <1>2, <1>6, <1>7, <1>8, <1>9, BecomeRuled DEF Good

\* So has a read that finds nothing.
LEMMA FindNothingRuled ==
  ASSUME Ruled, FindNothing
  PROVE  Ruled'
<1> DEFINE q == request
           r == [q EXCEPT !.step = "record", !.outcome = "missing"]
<1>1. /\ Good(q) /\ q.step = "effect" /\ q.route.effect = "value" /\ Become(r)
      /\ system' \in Systems
  BY DEF Ruled, FindNothing, At, Effect
<1> HIDE DEF q
<1>2. /\ Kept(q, r) /\ r.step = "record" /\ r.gate = q.gate
      /\ r.outcome = "missing" /\ r.shown = q.shown /\ r.row = q.row
  BY <1>1 DEF Good, Formed, Requests, Kept
<1> HIDE DEF r
<1>3. Formed(r)
  BY <1>1, <1>2, KeptFormed
<1>4. Paid(r)
  BY <1>1, <1>2 DEF Good, Paid, Kept
<1>5. Written(r) /\ Right(r)
  <2>1. q.route.row = "after"
    BY <1>1, GoodRoute DEF Good, Fits
  <2> QED
    BY <1>1, <1>2, <2>1 DEF Good, Written, Right, Kept
<1> QED
  BY <1>1, <1>3, <1>4, <1>5, BecomeRuled DEF Good

\* A row that is missing without its INSERT having failed is one of the GUI
\* after a seal.
LEMMA RecordedRuled ==
  ASSUME Ruled, NEW row \in {"none", Code}, NEW lost \in BOOLEAN,
         row # Code => lost \/ ~CanSign, Recorded(row, lost)
  PROVE  Ruled'
<1> DEFINE q == request
           step == IF q.route.row = "before" THEN "effect" ELSE "answered"
           r == [q EXCEPT !.step = step, !.row = row, !.lost = lost]
<1>1. Good(q) /\ q.step = "record" /\ Become(r) /\ system' \in Systems
  BY DEF Ruled, Recorded, At, Ahead
<1>2. Code = IF q.outcome \in {"denied", "missing"} THEN q.outcome ELSE "ok"
  BY DEF Code
<1>3. ~CanSign => ~OfApi(q) /\ q.sealed
  BY <1>1 DEF CanSign, Api, OfApi, Ruled, SealSeen, Running
<1> HIDE DEF q
<1>4. row \in {"none", "ok", "missing", "denied"}
  BY <1>2
<1>5. step \in {"effect", "answered"}
        /\ (q.route.row = "before" <=> step = "effect")
  OBVIOUS
<1> HIDE DEF step
<1>6. /\ Kept(q, r) /\ r.step = step /\ r.gate = q.gate
      /\ r.outcome = q.outcome /\ r.shown = q.shown /\ r.row = row
      /\ r.lost = lost
  BY <1>1, <1>4, <1>5 DEF Good, Formed, Requests, Kept
<1> HIDE DEF r
<1>7. Formed(r)
  BY <1>1, <1>5, <1>6, KeptFormed
<1>8. Paid(r)
  BY <1>1, <1>5, <1>6 DEF Good, Paid, Written, Kept
<1>9. Written(r)
  <2>1. Excused(r) \/ row = Code
    BY <1>3, <1>6 DEF Excused, Kept, OfApi
  <2>2. CASE q.route.row = "before"
    <3>1. q.outcome = "none" /\ Code = "ok"
      BY <1>1, <1>2, <2>2 DEF Good, Written
    <3> QED
      BY <1>5, <1>6, <2>1, <2>2, <3>1 DEF Written, Kept
  <2>3. CASE q.route.row # "before"
    <3>1. q.outcome \in {"done", "missing", "denied"}
      BY <1>1, <2>3 DEF Good, Written
    <3> QED
      BY <1>2, <1>5, <1>6, <2>1, <2>3, <3>1 DEF Written, Kept
  <2> QED
    BY <2>2, <2>3
<1>10. Right(r)
  BY <1>1, <1>6 DEF Good, Right, Kept
<1> QED
  BY <1>1, <1>7, <1>8, <1>9, <1>10, BecomeRuled DEF Good

\* Ruled is inductive.
LEMMA NextRuled ==
  ASSUME Ruled, [Next]_vars
  PROVE  Ruled'
<1>1. CASE Begin
  BY <1>1, GuiBeginRuled, ApiBeginRuled DEF Begin
<1>2. CASE GatePasses
  BY <1>2, GatePassesRuled
<1>3. CASE ApiDenies
  BY <1>3, ApiDeniesRuled
<1>4. CASE GateRefuses
  BY <1>4, FailedRuled DEF GateRefuses
<1>5. CASE Fail
  BY <1>5, FailedRuled DEF Fail
<1>6. CASE Take
  BY <1>6, TakeRuled
<1>7. CASE FindNothing
  BY <1>7, FindNothingRuled
<1>8. CASE Record
  <2> DEFINE row == IF CanSign THEN Code ELSE "none"
  <2>1. row \in {"none", Code} /\ (row # Code => ~CanSign)
    OBVIOUS
  <2>2. Recorded(row, FALSE)
    BY <1>8, Zenon DEF Record
  <2> HIDE DEF row
  <2> QED
    BY <2>1, <2>2, RecordedRuled
<1>9. CASE RecordFails
  BY <1>9, RecordedRuled DEF RecordFails
<1>10. CASE End
  <2>1. Become(Idle) /\ system' \in Systems
    BY <1>10 DEF End, Ruled
  <2> QED
    BY <2>1, IdleGood, BecomeRuled
<1>11. CASE Interference
  <2>1. Become(request) /\ system' \in Systems
    BY <1>11, ChangesTyped DEF Interference, Ruled
  <2> QED
    BY <2>1, BecomeRuled DEF Ruled
<1>12. CASE Restart
  <2>1. system' \in Systems
    BY <1>12 DEF Restart, Ruled, Systems
  <2>2. request' = Idle
    BY <1>12 DEF Restart
  <2>3. Good(request') /\ SealSeen(system', request')
    <3>1. SealSeen(system', Idle)
      BY DEF SealSeen, Running, Idle
    <3> QED
      BY <2>2, <3>1, IdleGood
  <2> QED
    BY <2>1, <2>3 DEF Ruled
<1>13. CASE UNCHANGED vars
  BY <1>13 DEF vars, Ruled
<1> QED
  BY <1>1, <1>2, <1>3, <1>4, <1>5, <1>6, <1>7, <1>8, <1>9, <1>10, <1>11, <1>12,
     <1>13 DEF Next

LEMMA AlwaysRuled == Spec => []Ruled
<1>1. Init => Ruled
  BY InitRuled
<1>2. Ruled /\ [Next]_vars => Ruled'
  BY NextRuled
<1> QED
  BY <1>1, <1>2, PTL DEF Spec

-----------------------------------------------------------------------------
(* Theorems                                                                 *)

\* Each invariant of Handlers is a part of Ruled.
LEMMA RuledImplies ==
  ASSUME Ruled
  PROVE  /\ TypeOK /\ EffectsEarned /\ UseIsRecorded /\ RowsAreTrue
         /\ ListsAreExact
<1>1. TypeOK
  BY DEF Ruled, Systems, Good, Formed, Requests, OfApi, TypeOK, Api
<1>2. EffectsEarned
  BY DEF Ruled, Good, Paid, EffectsEarned
<1>3. UseIsRecorded
  <2>1. Audited => Worth(request)
    BY DEF Audited, Worth, Effect, Api, OfApi
  <2>2. ~request.lost /\ (Api \/ ~request.sealed) => ~Excused(request)
    BY DEF Excused, Api, OfApi
  <2> QED
    BY <2>1, <2>2 DEF Ruled, Good, Written, UseIsRecorded, At
<1>4. RowsAreTrue
  <2>1. request.step \in {"idle", "gate", "effect", "record", "answered"}
    BY DEF Ruled, Good, Formed, Requests
  <2>2. CASE request.step = "effect"
    <3>1. Fits(request.route)
      BY <2>2, GoodRoute DEF Ruled, Good
    <3> QED
      BY <2>2, <3>1 DEF Ruled, Good, Written, Fits, RowsAreTrue, Effect
  <2>3. CASE request.step # "effect"
    BY <2>1, <2>3 DEF Ruled, Good, Written, RowsAreTrue, Effect
  <2> QED
    BY <2>2, <2>3
<1>5. ListsAreExact
  BY DEF Ruled, Good, Right, ListsAreExact
<1> QED
  BY <1>1, <1>2, <1>3, <1>4, <1>5

\* The types of the state (TypeOK).
THEOREM TypeCorrect == Spec => []TypeOK
BY AlwaysRuled, RuledImplies, PTL

\* Whatever other requests, expiries and seals come in between, what a request
\* does or shows is covered by conditions met since it began: the guards of
\* web/mod.rs and begin in kv.rs leave no way around (EffectsEarned).
THEOREM EffectsAlwaysEarned == Spec => []EffectsEarned
BY AlwaysRuled, RuledImplies, PTL

\* An answered request that used the system has its row, and the row says so,
\* unless the INSERT failed or the GUI lost its key to a seal (UseIsRecorded).
THEOREM UseAlwaysRecorded == Spec => []UseIsRecorded
BY AlwaysRuled, RuledImplies, PTL

\* No row states what did not happen, but those written ahead (RowsAreTrue).
THEOREM RowsAlwaysTrue == Spec => []RowsAreTrue
BY AlwaysRuled, RuledImplies, PTL

\* LIST shows the stored paths below the one asked for, and no others,
\* although metadata_list_inner compares text (ListsAreExact).
THEOREM ListsAlwaysExact == Spec => []ListsAreExact
BY AlwaysRuled, RuledImplies, PTL

\* What a request does to the system is one of the changes others expect, so
\* following one request speaks for any number (OthersAreInterference).
THEOREM EffectsAreInterference == Spec => OthersAreInterference
<1>1. Ruled /\ [Next]_vars => [Take => system' \in Changes]_vars
  <2> SUFFICES ASSUME Ruled, Take PROVE system' \in Changes
    OBVIOUS
  <2> QED
    BY OutcomesAreChanges DEF Ruled, Good, Take
<1> QED
  BY <1>1, AlwaysRuled, PTL DEF Spec, OthersAreInterference
=================================================================================
