--------------------------- MODULE FollowerProofs ---------------------------
(***************************************************************************)
(* Theorems about Follower: its log is a copy of the primary's, and its    *)
(* graph is what the log says.                                             *)
(***************************************************************************)
EXTENDS Follower, FiniteSetTheorems, SequenceTheorems, WellFoundedInduction, TLAPS

-----------------------------------------------------------------------------
(* Induction.                                                              *)

LEMMA Least ==
  ASSUME NEW S \in SUBSET Nat, S # {}
  PROVE \E n \in S : \A m \in S : n <= m
<1>1. \E n \in S : \A m \in S : <<m, n>> \notin {ss \in Nat \X Nat : ss[1] < ss[2]}
  <2> DEFINE R == {ss \in Nat \X Nat : ss[1] < ss[2]}
  <2>1. IsWellFoundedOn(R, Nat)
    BY NatLessThanWellFounded, Zenon DEF OpToRel
  <2> HIDE DEF R
  <2>2. \E n \in S : \A m \in S : <<m, n>> \notin R
    BY <2>1, WFMin, Zenon
  <2> QED
    BY <2>2 DEF R
<1>2. PICK n \in S : \A m \in S : <<m, n>> \notin {ss \in Nat \X Nat : ss[1] < ss[2]}
  BY <1>1
<1>3. ASSUME NEW m \in S PROVE n <= m
  <2>1. m \in Nat /\ n \in Nat
    OBVIOUS
  <2>2. ~(m < n)
    <3>1. SUFFICES ASSUME m < n PROVE <<m, n>> \in {ss \in Nat \X Nat : ss[1] < ss[2]}
      BY <1>2
    <3> DEFINE p == <<m, n>>
    <3>2. p \in Nat \X Nat /\ p[1] = m /\ p[2] = n
      BY <2>1
    <3> QED
      BY <3>1, <3>2
  <2> QED
    BY <2>1, <2>2
<1> QED
  BY <1>3

LEMMA Induction ==
  ASSUME NEW S \in SUBSET Nat, 0 \in S, \A n \in S : n + 1 \in S
  PROVE S = Nat
<1>1. SUFFICES ASSUME Nat \ S # {} PROVE FALSE
  OBVIOUS
<1>2. PICK n \in Nat \ S : \A m \in Nat \ S : n <= m
  BY <1>1, Least
<1>3. n - 1 \in S
  BY <1>2
<1> QED
  BY <1>2, <1>3

Counting(l, n, f) ==
  f = [k \in 0 .. n |-> IF k = 0 THEN <<>>
                        ELSE IF l[k] \in Ops THEN Append(f[k - 1], l[k]) ELSE f[k - 1]]

LEMMA Unfold ==
  ASSUME NEW l
  PROVE OpsOf(l) = (CHOOSE f : Counting(l, Len(l), f))[Len(l)]
BY DEF OpsOf, Counting

LEMMA Exists ==
  ASSUME NEW l, NEW n \in Nat
  PROVE \E f : Counting(l, n, f)
<1> DEFINE S == {k \in Nat : \E f : Counting(l, k, f)}
<1>1. 0 \in S
  <2>1. Counting(l, 0, [k \in 0 .. 0 |-> <<>>])
    BY DEF Counting
  <2> QED
    BY <2>1
<1>2. ASSUME NEW k \in S PROVE k + 1 \in S
  <2>1. PICK f : Counting(l, k, f)
    OBVIOUS
  <2> DEFINE g == [i \in 0 .. k + 1 |-> IF i = 0 THEN <<>>
                        ELSE IF l[i] \in Ops THEN Append(f[i - 1], l[i]) ELSE f[i - 1]]
  <2>2. ASSUME NEW i \in 0 .. k PROVE g[i] = f[i]
    <3>1. f[i] = IF i = 0 THEN <<>> ELSE IF l[i] \in Ops THEN Append(f[i - 1], l[i]) ELSE f[i - 1]
      BY <2>1 DEF Counting
    <3>2. g[i] = IF i = 0 THEN <<>> ELSE IF l[i] \in Ops THEN Append(f[i - 1], l[i]) ELSE f[i - 1]
      OBVIOUS
    <3> QED
      BY <3>1, <3>2
  <2>3. Counting(l, k + 1, g)
    <3> DEFINE h == [i \in 0 .. k + 1 |-> IF i = 0 THEN <<>>
                        ELSE IF l[i] \in Ops THEN Append(g[i - 1], l[i]) ELSE g[i - 1]]
    <3>1. ASSUME NEW i \in 0 .. k + 1 PROVE g[i] = h[i]
      <4>1. CASE i = 0
        BY <4>1
      <4>2. CASE i # 0
        <5>1. i - 1 \in 0 .. k /\ g[i - 1] = f[i - 1]
          <6>1. k \in Nat /\ i \in 0 .. k + 1
            OBVIOUS
          <6>2. i - 1 \in 0 .. k
            BY <6>1, <4>2
          <6> HIDE DEF g
          <6> QED
            BY <6>2, <2>2
        <5>2. g[i] = IF l[i] \in Ops THEN Append(f[i - 1], l[i]) ELSE f[i - 1]
          BY <4>2
        <5>3. h[i] = IF l[i] \in Ops THEN Append(g[i - 1], l[i]) ELSE g[i - 1]
          BY <4>2
        <5> QED
          BY <5>1, <5>2, <5>3
      <4> QED
        BY <4>1, <4>2
    <3>2. g = h
      <4> HIDE DEF h
      <4> QED
      BY <3>1 DEF h
    <3> QED
      BY <3>2 DEF Counting
  <2> QED
    BY <2>3
<1>3. S = Nat
  BY <1>1, <1>2, Induction
<1> QED
  BY <1>3


LEMMA OpsOfUpto ==
  ASSUME NEW l, Len(l) \in Nat
  PROVE \E f : /\ OpsOf(l) = f[Len(l)]
               /\ f[0] = <<>>
               /\ \A k \in 1 .. Len(l) :
                    f[k] = IF l[k] \in Ops THEN Append(f[k - 1], l[k]) ELSE f[k - 1]
<1> DEFINE f == CHOOSE f : Counting(l, Len(l), f)
<1>1. Counting(l, Len(l), f)
  BY Exists
<1>2. OpsOf(l) = f[Len(l)]
  BY Unfold
<1> HIDE DEF f
<1>3. ASSUME NEW k \in 0 .. Len(l)
      PROVE f[k] = IF k = 0 THEN <<>>
                   ELSE IF l[k] \in Ops THEN Append(f[k - 1], l[k]) ELSE f[k - 1]
  BY <1>1 DEF Counting
<1>4. f[0] = <<>>
  BY <1>3
<1>5. ASSUME NEW k \in 1 .. Len(l)
      PROVE f[k] = IF l[k] \in Ops THEN Append(f[k - 1], l[k]) ELSE f[k - 1]
  BY <1>3
<1> QED
  BY <1>2, <1>4, <1>5

LEMMA OpsOfEmpty == OpsOf(<<>>) = <<>>
BY OpsOfUpto

LEMMA OpsOfType ==
  ASSUME NEW R, NEW l \in Seq(R)
  PROVE /\ OpsOf(l) \in Seq(R \cap Ops)
        /\ Len(OpsOf(l)) <= Len(l)
        /\ l # <<>> /\ l[1] \notin Ops => Len(OpsOf(l)) < Len(l)
<1>1. PICK f : /\ OpsOf(l) = f[Len(l)]
               /\ f[0] = <<>>
               /\ \A k \in 1 .. Len(l) :
                    f[k] = IF l[k] \in Ops THEN Append(f[k - 1], l[k]) ELSE f[k - 1]
  BY OpsOfUpto
<1> DEFINE S == {k \in Nat : k <= Len(l) =>
                   /\ f[k] \in Seq(R \cap Ops) /\ Len(f[k]) <= k
                   /\ k > 0 /\ l[1] \notin Ops => Len(f[k]) < k}
<1>2. 0 \in S
  <2>1. <<>> \in Seq(R \cap Ops) /\ Len(<<>>) = 0
    OBVIOUS
  <2>2. f[0] \in Seq(R \cap Ops) /\ Len(f[0]) <= 0
    BY <1>1, <2>1
  <2>3. ~(0 > 0) /\ 0 \in Nat
    OBVIOUS
  <2> QED
    BY <2>2, <2>3
<1>3. ASSUME NEW k \in S PROVE k + 1 \in S
  <2>1. k \in Nat
    OBVIOUS
  <2>2. SUFFICES ASSUME k + 1 <= Len(l)
                 PROVE /\ f[k + 1] \in Seq(R \cap Ops) /\ Len(f[k + 1]) <= k + 1
                       /\ l[1] \notin Ops => Len(f[k + 1]) < k + 1
    BY <2>1
  <2>3. /\ f[k] \in Seq(R \cap Ops) /\ Len(f[k]) <= k
        /\ k > 0 /\ l[1] \notin Ops => Len(f[k]) < k
    BY <2>1, <2>2
  <2>4. f[k + 1] = IF l[k + 1] \in Ops THEN Append(f[k], l[k + 1]) ELSE f[k]
    <3>1. k + 1 \in 1 .. Len(l) /\ k + 1 - 1 = k
      BY <2>1, <2>2
    <3> QED
      BY <1>1, <3>1
  <2>5. l[k + 1] \in R
    BY <2>1, <2>2
  <2> HIDE DEF S
  <2>6. CASE l[k + 1] \in Ops
    <3>1. f[k + 1] \in Seq(R \cap Ops) /\ Len(f[k + 1]) = Len(f[k]) + 1
      BY <2>3, <2>4, <2>5, <2>6
    <3>2. k = 0 => l[1] \in Ops
      BY <2>6
    <3> QED
      BY <2>1, <2>3, <3>1, <3>2
  <2>7. CASE l[k + 1] \notin Ops
    BY <2>1, <2>3, <2>4, <2>7
  <2> QED
    BY <2>6, <2>7
<1>4. S = Nat
  <2> HIDE DEF S
  <2>1. S \in SUBSET Nat
    BY DEF S
  <2> QED
    BY <1>2, <1>3, <2>1, Induction
<1>5. Len(l) \in S
  BY <1>4
<1>6. l # <<>> => Len(l) > 0
  OBVIOUS
<1> QED
  BY <1>1, <1>5, <1>6

LEMMA OpsOfConcat ==
  ASSUME NEW R, NEW l \in Seq(R), NEW m \in Seq(R)
  PROVE OpsOf(l \o m) = OpsOf(l) \o OpsOf(m)
<1>1. PICK f : /\ OpsOf(l) = f[Len(l)]
               /\ f[0] = <<>>
               /\ \A k \in 1 .. Len(l) :
                    f[k] = IF l[k] \in Ops THEN Append(f[k - 1], l[k]) ELSE f[k - 1]
  BY OpsOfUpto
<1>2. PICK g : /\ OpsOf(m) = g[Len(m)]
               /\ g[0] = <<>>
               /\ \A k \in 1 .. Len(m) :
                    g[k] = IF m[k] \in Ops THEN Append(g[k - 1], m[k]) ELSE g[k - 1]
  BY OpsOfUpto
<1> DEFINE lm == l \o m
<1>3. lm \in Seq(R) /\ Len(lm) = Len(l) + Len(m)
  OBVIOUS
<1>4. PICK h : /\ OpsOf(lm) = h[Len(lm)]
               /\ h[0] = <<>>
               /\ \A k \in 1 .. Len(lm) :
                    h[k] = IF lm[k] \in Ops THEN Append(h[k - 1], lm[k]) ELSE h[k - 1]
  <2>1. Len(lm) \in Nat
    BY <1>3
  <2> HIDE DEF lm
  <2> QED
    BY <2>1, OpsOfUpto
<1>5. ASSUME NEW k \in 1 .. Len(l) PROVE lm[k] = l[k]
  OBVIOUS
<1>6. ASSUME NEW k \in 1 .. Len(m) PROVE lm[Len(l) + k] = m[k]
  OBVIOUS
<1> HIDE DEF lm
<1>7. h[Len(l)] = f[Len(l)]
  <2> DEFINE S == {k \in Nat : k <= Len(l) => h[k] = f[k]}
  <2>1. 0 \in S
    BY <1>1, <1>4
  <2>2. ASSUME NEW k \in S PROVE k + 1 \in S
    <3>1. k \in Nat
      OBVIOUS
    <3>2. SUFFICES ASSUME k + 1 <= Len(l) PROVE h[k + 1] = f[k + 1]
      BY <3>1
    <3>3. h[k] = f[k]
      BY <3>1, <3>2
    <3>4. k + 1 \in 1 .. Len(l) /\ k + 1 \in 1 .. Len(lm) /\ k + 1 - 1 = k
      BY <3>1, <3>2, <1>3
    <3> HIDE DEF S
    <3> QED
      <4> DEFINE i == k + 1
      <4>1. i \in 1 .. Len(l) /\ i \in 1 .. Len(lm) /\ i - 1 = k
        BY <3>1, <3>4
      <4> HIDE DEF i
      <4>2. h[i] = IF lm[i] \in Ops THEN Append(h[k], lm[i]) ELSE h[k]
        BY <4>1, <1>4
      <4>3. f[i] = IF l[i] \in Ops THEN Append(f[k], l[i]) ELSE f[k]
        BY <4>1, <1>1
      <4>4. lm[i] = l[i]
        BY <4>1, <1>5
      <4>5. h[i] = f[i]
        BY <3>3, <4>2, <4>3, <4>4
      <4> QED
        BY <4>5 DEF i
  <2>3. S = Nat
    <3> HIDE DEF S
    <3>1. S \in SUBSET Nat
      BY DEF S
    <3> QED
      BY <2>1, <2>2, <3>1, Induction
  <2> QED
    BY <2>3
<1> DEFINE a == OpsOf(l)
<1>8. a \in Seq(R) /\ a = h[Len(l)]
  <2>1. a \in Seq(R \cap Ops)
    BY OpsOfType
  <2> QED
    BY <1>1, <1>7, <2>1, SeqMonotonic
<1>9. h[Len(l) + Len(m)] = a \o g[Len(m)]
  <2> HIDE DEF a
  <2> DEFINE S == {k \in Nat : k <= Len(m) => g[k] \in Seq(R) /\ h[Len(l) + k] = a \o g[k]}
  <2>1. 0 \in S
    <3>1. a \o <<>> = a /\ <<>> \in Seq(R)
      BY <1>8, ConcatEmptySeq
    <3>2. Len(l) + 0 = Len(l)
      OBVIOUS
    <3> QED
      BY <1>2, <1>8, <3>1, <3>2
  <2>2. ASSUME NEW k \in S PROVE k + 1 \in S
    <3>1. k \in Nat
      OBVIOUS
    <3>2. SUFFICES ASSUME k + 1 <= Len(m)
                   PROVE g[k + 1] \in Seq(R) /\ h[Len(l) + (k + 1)] = a \o g[k + 1]
      BY <3>1
    <3>3. g[k] \in Seq(R) /\ h[Len(l) + k] = a \o g[k]
      BY <3>1, <3>2
    <3> DEFINE i == Len(l) + (k + 1)
    <3>4. k + 1 \in 1 .. Len(m) /\ k + 1 - 1 = k /\ i \in 1 .. Len(lm) /\ i - 1 = Len(l) + k
      BY <3>1, <3>2, <1>3
    <3>5. lm[i] = m[k + 1]
      BY <3>4, <1>6
    <3>6. m[k + 1] \in R
      BY <3>4
    <3>7. g[k + 1] = IF m[k + 1] \in Ops THEN Append(g[k], m[k + 1]) ELSE g[k]
      BY <3>4, <1>2
    <3>8. h[i] = IF m[k + 1] \in Ops THEN Append(h[Len(l) + k], m[k + 1]) ELSE h[Len(l) + k]
      BY <3>4, <3>5, <1>4
    <3> HIDE DEF S, i
    <3>9. g[k + 1] \in Seq(R)
      BY <3>3, <3>6, <3>7
    <3>10. Append(a \o g[k], m[k + 1]) = a \o Append(g[k], m[k + 1])
      <4> DEFINE x == m[k + 1]
                 b == g[k]
      <4>1. a \in Seq(R) /\ b \in Seq(R) /\ x \in R /\ <<x>> \in Seq(R)
        BY <3>3, <3>6, <1>8
      <4> HIDE DEF x, b
      <4>2. Append(a \o b, x) = (a \o b) \o <<x>> /\ Append(b, x) = b \o <<x>> /\ a \o b \in Seq(R)
        BY <4>1, AppendIsConcat, ConcatProperties
      <4>3. (a \o b) \o <<x>> = a \o (b \o <<x>>)
        BY <4>1, ConcatAssociative
      <4>4. Append(a \o b, x) = a \o Append(b, x)
        BY <4>2, <4>3
      <4> QED
        BY <4>4 DEF x, b
    <3>11. h[i] = a \o g[k + 1]
      BY <3>3, <3>7, <3>8, <3>10
    <3> QED
      BY <3>9, <3>11 DEF i
  <2>3. S = Nat
    <3> HIDE DEF S
    <3>1. S \in SUBSET Nat
      BY DEF S
    <3> QED
      BY <2>1, <2>2, <3>1, Induction
  <2>4. Len(m) \in S
    <3>1. Len(m) \in Nat
      OBVIOUS
    <3> QED
      BY <2>3, <3>1
  <2> QED
    BY <2>4
<1> QED
  BY <1>2, <1>3, <1>4, <1>9 DEF lm

-----------------------------------------------------------------------------
(* The inductive invariant.                                                *)

Lines == Ops \cup {Theirs}

\* The primary has, or had, a log that goes on from l.
Had(l) == \E v \in versions \cup {primary} : IsPrefix(l, v)

\* Logs of the primary begin with its header.
Heads ==
  /\ IsFiniteSet(versions)
  /\ \A v \in versions \cup {primary} : v \in Seq(Lines) /\ v # <<>> /\ v[1] = Theirs

\* Ours begins with a header, unless it is cut there.
HeadedLog(l) == l # <<>> => l[1] \in {Ours, Theirs, Torn}
Headed == HeadedLog(log)

\* Between the request and its answer the overlap is the end of our log, or it
\* could not be read.
Asked ==
  pc \in {"fetch", "handle"} =>
    expected = <<>> \/ (from <= Len(log) /\ expected = From(log, from))

\* What an answer is: the rest of a log that the primary had, which begins as
\* ours does if the overlap is the same and nothing was overlooked.
AnswerOf(u) ==
  /\ u # <<>> /\ u[1] = Theirs /\ Had(u)
  /\ \/ from <= Len(u) /\ response.body = From(u, from)
     \/ from <= Len(u) + 1 /\ response.body = From(Append(u, Torn), from)
  /\ overlooked \/ expected = <<>> \/ Diverged(response) \/ IsPrefix(SubSeq(log, 1, from), u)

Answered ==
  pc = "handle" =>
    \/ response.status = 409
    \/ response.status = 200 /\ \E u \in Seq(Lines) : AnswerOf(u)

IInv ==
  /\ TypeOK /\ Heads /\ Headed /\ Asked /\ Answered /\ CopyOfPrimary /\ GraphIsLog

-----------------------------------------------------------------------------
(* Prefixes, ends and concatenation.                                       *)

LEMMA PrefixByElements ==
  ASSUME NEW R, NEW s \in Seq(R), NEW t \in Seq(R)
  PROVE IsPrefix(s, t) <=> Len(s) <= Len(t) /\ \A i \in 1 .. Len(s) : s[i] = t[i]
<1>1. CASE Len(s) <= Len(t)
  <2>1. SubSeq(s, 1, Len(s)) = s
    OBVIOUS
  <2> DEFINE x == SubSeq(t, 1, Len(s))
  <2>2. x \in Seq(R) /\ Len(x) = Len(s) /\ \A i \in 1 .. Len(s) : x[i] = t[i]
    BY <1>1
  <2> HIDE DEF x
  <2>3. s = x <=> \A i \in 1 .. Len(s) : s[i] = x[i]
    BY <2>2, SeqEqual
  <2> QED
    BY <1>1, <2>1, <2>2, <2>3 DEF IsPrefix, x
<1>2. CASE ~(Len(s) <= Len(t))
  BY <1>2 DEF IsPrefix
<1> QED
  BY <1>1, <1>2

LEMMA PrefixTrans ==
  ASSUME NEW R, NEW s \in Seq(R), NEW t \in Seq(R), NEW u \in Seq(R),
         IsPrefix(s, t), IsPrefix(t, u)
  PROVE IsPrefix(s, u)
<1>1. Len(s) <= Len(t) /\ \A i \in 1 .. Len(s) : s[i] = t[i]
  BY PrefixByElements
<1>2. Len(t) <= Len(u) /\ \A i \in 1 .. Len(t) : t[i] = u[i]
  BY PrefixByElements
<1>3. ASSUME NEW i \in 1 .. Len(s) PROVE s[i] = u[i]
  <2>1. i \in 1 .. Len(t)
    BY <1>1
  <2> QED
    BY <1>1, <1>2, <2>1
<1>4. Len(s) <= Len(u)
  BY <1>1, <1>2
<1> QED
  BY <1>3, <1>4, PrefixByElements

LEMMA FromElements ==
  ASSUME NEW R, NEW l \in Seq(R), NEW n \in 0 .. Len(l)
  PROVE /\ From(l, n) \in Seq(R) /\ Len(From(l, n)) = Len(l) - n
        /\ \A i \in 1 .. Len(l) - n : From(l, n)[i] = l[n + i]
<1>1. n + 1 \in 1 .. Len(l) + 1 /\ Len(l) \in Nat /\ n \in Nat
  OBVIOUS
<1>2. ASSUME NEW i \in n + 1 .. Len(l) PROVE l[i] \in R
  BY <1>1
<1> QED
  BY <1>1, <1>2, SubSeqProperties DEF From

\* A log whose end is the beginning of what another has from there on, and that
\* agrees with it before, becomes that other one.
LEMMA Rebuilt ==
  ASSUME NEW R, NEW l \in Seq(R), NEW u \in Seq(R), NEW n \in 0 .. Len(l), n <= Len(u),
         IsPrefix(SubSeq(l, 1, n), u), IsPrefix(From(l, n), From(u, n))
  PROVE l \o From(From(u, n), Len(From(l, n))) = u
<1> DEFINE e == From(l, n)
           b == From(u, n)
           p == SubSeq(l, 1, n)
<1>1. e \in Seq(R) /\ Len(e) = Len(l) - n /\ \A i \in 1 .. Len(l) - n : e[i] = l[n + i]
  BY FromElements
<1>2. n \in 0 .. Len(u)
  OBVIOUS
<1>3. b \in Seq(R) /\ Len(b) = Len(u) - n /\ \A i \in 1 .. Len(u) - n : b[i] = u[n + i]
  BY <1>2, FromElements
<1>4. p \in Seq(R) /\ Len(p) = n /\ \A i \in 1 .. n : p[i] = l[i]
  OBVIOUS
<1> HIDE DEF e, b, p
<1>5. \A i \in 1 .. n : p[i] = u[i]
  <2>1. IsPrefix(p, u)
    BY DEF p
  <2> QED
    BY <2>1, <1>4, PrefixByElements
<1>6. Len(e) <= Len(b) /\ \A i \in 1 .. Len(e) : e[i] = b[i]
  <2>1. IsPrefix(e, b)
    BY DEF e, b
  <2> QED
    BY <2>1, <1>1, <1>3, PrefixByElements
<1> DEFINE m == From(b, Len(e))
<1>7. m \in Seq(R) /\ Len(m) = Len(u) - Len(l) /\ \A i \in 1 .. Len(u) - Len(l) : m[i] = b[Len(e) + i]
  <2>1. Len(e) \in 0 .. Len(b)
    BY <1>1, <1>3, <1>6
  <2>2. Len(b) - Len(e) = Len(u) - Len(l)
    BY <1>1, <1>3
  <2> QED
    <3>1. m \in Seq(R) /\ Len(m) = Len(b) - Len(e) /\ \A i \in 1 .. Len(b) - Len(e) : m[i] = b[Len(e) + i]
      BY <2>1, <1>3, FromElements
    <3> HIDE DEF m
    <3> QED
      BY <3>1, <2>2
<1> HIDE DEF m
<1> DEFINE x == l \o m
<1>8. /\ x \in Seq(R) /\ Len(x) = Len(l) + Len(m)
      /\ \A i \in 1 .. Len(l) : x[i] = l[i]
      /\ \A i \in 1 .. Len(m) : x[Len(l) + i] = m[i]
  BY <1>7
<1> HIDE DEF x
<1>9. Len(x) = Len(u)
  BY <1>7, <1>8
<1>10. ASSUME NEW i \in 1 .. Len(u) PROVE x[i] = u[i]
  <2>1. CASE i <= n
    BY <2>1, <1>4, <1>5, <1>8
  <2>2. CASE n < i /\ i <= Len(l)
    <3> DEFINE j == i - n
    <3>1. j \in 1 .. Len(l) - n /\ j \in 1 .. Len(e) /\ j \in 1 .. Len(u) - n /\ n + j = i
      BY <2>2, <1>1
    <3> HIDE DEF j
    <3>2. l[i] = e[j] /\ e[j] = b[j] /\ b[j] = u[i]
      BY <3>1, <1>1, <1>3, <1>6
    <3>3. x[i] = l[i]
      BY <2>2, <1>8
    <3> QED
      BY <3>2, <3>3
  <2>3. CASE Len(l) < i
    <3> DEFINE j == i - Len(l)
               k == Len(e) + j
    <3>1. /\ j \in 1 .. Len(u) - Len(l) /\ j \in 1 .. Len(m) /\ Len(l) + j = i
          /\ k \in 1 .. Len(u) - n /\ n + k = i
      <4>1. Len(l) \in Nat /\ Len(u) \in Nat /\ i \in 1 .. Len(u) /\ n \in 0 .. Len(l)
        OBVIOUS
      <4> QED
        BY <4>1, <2>3, <1>1, <1>7
    <3>2. x[i] = m[j] /\ m[j] = b[Len(e) + j]
      <4> HIDE DEF j
      <4> QED
        BY <3>1, <1>7, <1>8
    <3>3. b[k] = u[i]
      <4> HIDE DEF k
      <4> QED
        BY <3>1, <1>3
    <3> QED
      BY <3>2, <3>3
  <2> QED
    BY <2>1, <2>2, <2>3
<1>11. x = u
  BY <1>8, <1>9, <1>10, SeqEqual
<1> QED
  BY <1>11 DEF x, m, e, b

\* The end of what ends in a torn line ends in it, too.
LEMMA TornAtTheEnd ==
  ASSUME NEW u \in Seq(Records), NEW n \in 0 .. Len(u) + 1,
         NEW k \in Nat, k < Len(From(Append(u, Torn), n))
  PROVE Torn \in ToSet(From(From(Append(u, Torn), n), k))
<1> DEFINE w == Append(u, Torn)
           b == From(w, n)
           m == From(b, k)
<1>1. w \in Seq(Records) /\ Len(w) = Len(u) + 1 /\ w[Len(w)] = Torn
  BY DEF Records
<1> HIDE DEF w
<1>2. b \in Seq(Records) /\ Len(b) = Len(w) - n /\ \A i \in 1 .. Len(w) - n : b[i] = w[n + i]
  <2>1. n \in 0 .. Len(w)
    BY <1>1
  <2> QED
    BY <1>1, <2>1, FromElements
<1>3. k < Len(b)
  BY DEF b, w
<1> HIDE DEF b
<1>4. m \in Seq(Records) /\ Len(m) = Len(b) - k /\ \A i \in 1 .. Len(b) - k : m[i] = b[k + i]
  <2>1. k \in 0 .. Len(b)
    BY <1>2, <1>3
  <2> QED
    BY <1>2, <2>1, FromElements
<1> HIDE DEF m
<1>5. m[Len(m)] = b[Len(b)]
  <2>1. Len(m) \in 1 .. Len(b) - k /\ k + Len(m) = Len(b)
    BY <1>2, <1>3, <1>4
  <2> QED
    BY <2>1, <1>4
<1>6. b[Len(b)] = w[Len(w)]
  <2>1. Len(b) \in 1 .. Len(w) - n /\ n + Len(b) = Len(w)
    BY <1>1, <1>2, <1>3
  <2> QED
    BY <2>1, <1>2
<1>7. Len(m) \in DOMAIN m /\ m[Len(m)] = Torn
  <2>1. m[Len(m)] = Torn
    BY <1>1, <1>5, <1>6
  <2>2. Len(m) \in 1 .. Len(m)
    BY <1>2, <1>3, <1>4
  <2>3. DOMAIN m = 1 .. Len(m)
    BY <1>4
  <2> QED
    BY <2>1, <2>2, <2>3
<1>8. Torn \in ToSet(m)
  BY <1>7 DEF ToSet
<1> QED
  BY <1>8 DEF m, b, w

-----------------------------------------------------------------------------
(* The primary.                                                            *)

SourceOK ==
  /\ primary \in Seq(Lines) /\ Len(primary) \in 1 .. MaxLog
  /\ torn \in BOOLEAN /\ Cardinality(versions) <= MaxVersions

LocalOK ==
  /\ log \in Seq(Records) /\ graph \in Seq(Ops) /\ columns \in 0 .. Len(graph)
  /\ {id, sidecar} \subseteq {NoId, Ours, Theirs}
  /\ pc \in {"probe", "fetch", "handle", "resync", "sidecar", "down"}
  /\ from \in Nat /\ expected \in Seq(Records)
  /\ response \in [status : {0, 200, 409}, body : Seq(Records)]
  /\ {damaged, glued, overlooked} \subseteq BOOLEAN /\ faults \in 0 .. MaxFaults

LEMMA TypeParts == TypeOK <=> SourceOK /\ LocalOK
BY DEF TypeOK, SourceOK, LocalOK, Lines

LEMMA HadSelf ==
  ASSUME NEW v, v \in versions \cup {primary}, v \in Seq(Lines)
  PROVE Had(v)
<1>1. IsPrefix(v, v)
  BY PrefixByElements
<1> QED
  BY <1>1 DEF Had

\* What the primary had it still has had after a step of it.
LEMMA WriteStep ==
  ASSUME SourceOK, Heads, NEW op \in Ops, Write(op)
  PROVE SourceOK' /\ Heads' /\ \A u \in Seq(Lines) : Had(u) => Had(u)'
<1>1. primary \in Seq(Lines) /\ Len(primary) \in 1 .. MaxLog /\ op \in Lines /\ primary[1] = Theirs
  BY DEF SourceOK, Lines, Heads
<1>2. primary' = Append(primary, op) /\ Len(primary) < MaxLog /\ UNCHANGED <<torn, versions>>
  BY DEF Write
<1>3. /\ primary' \in Seq(Lines) /\ Len(primary') = Len(primary) + 1
      /\ primary'[1] = Theirs /\ \A i \in 1 .. Len(primary) : primary'[i] = primary[i]
  BY <1>1, <1>2
<1>4. MaxLog \in Nat
  BY FollowerAssumption
<1>5. SourceOK'
  BY <1>1, <1>2, <1>3, <1>4 DEF SourceOK
<1>6. Heads'
  <2>1. primary' # <<>>
    BY <1>1, <1>3
  <2> QED
    BY <1>2, <1>3, <2>1 DEF Heads
<1>7. ASSUME NEW u \in Seq(Lines), Had(u) PROVE Had(u)'
  <2>1. PICK v \in versions \cup {primary} : IsPrefix(u, v)
    BY <1>7 DEF Had
  <2>2. CASE v \in versions
    BY <2>1, <2>2, <1>2 DEF Had
  <2>3. CASE v = primary
    <3>1. IsPrefix(primary, primary')
      BY <1>1, <1>3, PrefixByElements
    <3>2. IsPrefix(u, primary')
      BY <1>1, <1>3, <2>1, <2>3, <3>1, PrefixTrans
    <3> QED
      BY <3>2 DEF Had
  <2> QED
    BY <2>1, <2>2, <2>3
<1> QED
  BY <1>5, <1>6, <1>7

LEMMA RewriteStep ==
  ASSUME SourceOK, Heads, Rewrite
  PROVE SourceOK' /\ Heads' /\ \A u \in Seq(Lines) : Had(u) => Had(u)'
<1>1. /\ primary \in Seq(Lines) /\ Len(primary) \in 1 .. MaxLog /\ primary[1] = Theirs
      /\ IsFiniteSet(versions) /\ Theirs \in Lines /\ Theirs \notin Ops
  BY RecordsAssumption DEF SourceOK, Heads, Lines
<1>2. /\ primary' \in Rewrites \cup {SubSeq(primary, 1, n) : n \in 1 .. Len(primary)}
      /\ Cardinality(versions) < MaxVersions /\ primary \notin versions
      /\ versions' = versions \cup {primary} /\ UNCHANGED torn
  BY DEF Rewrite
<1>3. primary' \in Seq(Lines) /\ Len(primary') \in 1 .. MaxLog /\ primary'[1] = Theirs
  <2>1. ASSUME NEW n \in 1 .. Len(primary), primary' = SubSeq(primary, 1, n)
        PROVE primary' \in Seq(Lines) /\ Len(primary') \in 1 .. MaxLog /\ primary'[1] = Theirs
    <3> DEFINE x == SubSeq(primary, 1, n)
    <3>1. x \in Seq(Lines) /\ Len(x) = n /\ x[1] = primary[1]
      BY <1>1
    <3> HIDE DEF x
    <3>2. MaxLog \in Nat
      BY FollowerAssumption
    <3>3. n \in 1 .. MaxLog
      BY <1>1, <3>2
    <3> QED
      BY <1>1, <2>1, <3>1, <3>3 DEF x
  <2>2. ASSUME primary' \in Rewrites
        PROVE primary' \in Seq(Lines) /\ Len(primary') \in 1 .. MaxLog /\ primary'[1] = Theirs
    <3> DEFINE o == OpsOf(primary)
               S == ToSet(o)
    <3>1. o \in Seq(Lines \cap Ops) /\ Len(o) < Len(primary)
      <4>1. primary # <<>> /\ primary[1] \notin Ops
        BY <1>1
      <4> QED
        BY <1>1, <4>1, OpsOfType
    <3> HIDE DEF o
    <3>2. S \subseteq Lines
      BY <3>1 DEF ToSet
    <3>3. IsFiniteSet(S) /\ Cardinality(S) <= Len(o)
      <4>1. IsFiniteSet(1 .. Len(o)) /\ Cardinality(1 .. Len(o)) = Len(o)
        <5>1. Len(o) \in Nat
          BY <3>1
        <5>2. /\ IsFiniteSet(1 .. Len(o))
              /\ Cardinality(1 .. Len(o)) = IF 1 > Len(o) THEN 0 ELSE Len(o) - 1 + 1
          BY <5>1, FS_Interval
        <5> QED
          BY <5>1, <5>2
      <4>2. o \in Surjection(1 .. Len(o), S)
        <5>1. DOMAIN o = 1 .. Len(o) /\ \A i \in 1 .. Len(o) : o[i] \in S
          BY <3>1 DEF ToSet
        <5>2. o \in [1 .. Len(o) -> S]
          BY <3>1, <5>1
        <5>3. \A x \in S : \E i \in 1 .. Len(o) : o[i] = x
          BY <5>1 DEF ToSet
        <5> QED
          BY <5>2, <5>3 DEF Surjection
      <4> HIDE DEF S
      <4> QED
        BY <4>1, <4>2, FS_Surjection
    <3>10. PICK n \in 0 .. Cardinality(S) : \E t \in [1 .. n -> S] : primary' = <<Theirs>> \o t
      BY <2>2 DEF Rewrites, S, o
    <3>4. PICK t \in [1 .. n -> S] : primary' = <<Theirs>> \o t
      BY <3>10
    <3>5. Cardinality(S) \in Nat /\ Len(o) \in Nat
      BY <3>1, <3>3, FS_CardinalityType
    <3>6. n \in Nat /\ n <= Len(o)
      BY <3>3, <3>5
    <3>7. t \in Seq(Lines) /\ Len(t) = n
      <4>1. t \in [1 .. n -> Lines]
        BY <3>2
      <4> QED
        BY <3>6, <4>1
    <3>8. /\ primary' \in Seq(Lines) /\ Len(primary') = 1 + n /\ primary'[1] = Theirs
      <4> DEFINE h == <<Theirs>>
      <4>1. h \in Seq(Lines) /\ Len(h) = 1 /\ h[1] = Theirs
        BY <1>1
      <4>2. 1 \in 1 .. Len(h) + Len(t)
        BY <3>6, <3>7, <4>1
      <4> HIDE DEF h
      <4>3. h \o t \in Seq(Lines) /\ Len(h \o t) = Len(h) + Len(t) /\ (h \o t)[1] = h[1]
        BY <3>7, <4>1, <4>2, ConcatProperties
      <4> QED
        BY <3>4, <3>7, <4>1, <4>3 DEF h
    <3>9. 1 + n \in 1 .. MaxLog
      <4>1. MaxLog \in Nat /\ Len(primary) \in Nat /\ n < Len(primary) /\ Len(primary) <= MaxLog
        BY <1>1, <3>1, <3>5, <3>6, FollowerAssumption
      <4> QED
        BY <3>6, <4>1
    <3> QED
      BY <3>8, <3>9
  <2> QED
    BY <1>2, <2>1, <2>2
<1>4. IsFiniteSet(versions') /\ Cardinality(versions') <= MaxVersions
  <2>1. IsFiniteSet(versions') /\ Cardinality(versions') = Cardinality(versions) + 1
    BY <1>1, <1>2, FS_AddElement
  <2>2. Cardinality(versions) \in Nat /\ MaxVersions \in Nat
    BY <1>1, FS_CardinalityType, FollowerAssumption
  <2> QED
    BY <1>2, <2>1, <2>2
<1>5. SourceOK'
  BY <1>2, <1>3, <1>4 DEF SourceOK
<1>6. Heads'
  <2>1. primary' # <<>>
    BY <1>3
  <2> QED
    BY <1>2, <1>3, <1>4, <2>1 DEF Heads
<1>7. ASSUME NEW u \in Seq(Lines), Had(u) PROVE Had(u)'
  BY <1>2, <1>7 DEF Had
<1> QED
  BY <1>5, <1>6, <1>7

LEMMA PrefixType ==
  ASSUME NEW s \in Seq(Records), NEW v \in Seq(Lines), IsPrefix(s, v)
  PROVE s \in Seq(Lines)
<1>1. v \in Seq(Records)
  <2>1. Lines \subseteq Records
    BY DEF Lines, Records
  <2> QED
    BY <2>1, SeqMonotonic
<1>2. Len(s) <= Len(v) /\ \A i \in 1 .. Len(s) : s[i] = v[i]
  BY <1>1, PrefixByElements
<1>3. ASSUME NEW i \in 1 .. Len(s) PROVE s[i] \in Lines
  <2>1. i \in 1 .. Len(v)
    BY <1>2
  <2> QED
    BY <1>2, <2>1
<1> QED
  BY <1>3

LEMMA SourceKept ==
  ASSUME SourceOK, Heads, UNCHANGED source
  PROVE SourceOK' /\ Heads' /\ \A u : Had(u)' <=> Had(u)
BY DEF SourceOK, Heads, Had, source

\* What is said of the standby stays true when only the primary steps.
LEMMA PrimaryStep ==
  ASSUME IInv, (\E op \in Ops : Write(op)) \/ WriteFails \/ RestartPrimary \/ Rewrite
  PROVE IInv'
<1>1. SourceOK /\ LocalOK /\ Heads /\ Headed /\ Asked /\ Answered /\ CopyOfPrimary /\ GraphIsLog
  BY TypeParts DEF IInv
<1>2. UNCHANGED <<local, sidecar, pc, request, history>>
  BY DEF Write, WriteFails, RestartPrimary, Rewrite
<1>3. SourceOK' /\ Heads' /\ \A u \in Seq(Lines) : Had(u) => Had(u)'
  <2>1. CASE \E op \in Ops : Write(op)
    BY <1>1, <2>1, WriteStep
  <2>2. CASE WriteFails \/ RestartPrimary
    BY <1>1, <2>2 DEF WriteFails, RestartPrimary, SourceOK, Heads, Had
  <2>3. CASE Rewrite
    BY <1>1, <2>3, RewriteStep
  <2> QED
    BY <2>1, <2>2, <2>3
<1>4. LocalOK'
  BY <1>1, <1>2 DEF LocalOK, local, request, history
<1>5. Headed' /\ Asked' /\ GraphIsLog'
  BY <1>1, <1>2 DEF Headed, Asked, GraphIsLog, local, request, history
<1>6. Answered'
  <2>1. ASSUME NEW u \in Seq(Lines), AnswerOf(u) PROVE AnswerOf(u)'
    <3>1. Had(u)'
      BY <1>3, <2>1 DEF AnswerOf
    <3>2. UNCHANGED <<log, pc, from, expected, response, overlooked>>
      BY <1>2 DEF local, request, history
    <3> QED
      BY <2>1, <3>1, <3>2 DEF AnswerOf, Diverged
  <2> QED
    BY <1>1, <1>2, <2>1 DEF Answered, request
<1>7. CopyOfPrimary'
  <2>1. SUFFICES ASSUME ~overlooked', ~glued', log' # <<Ours>>
                 PROVE \E v \in versions' \cup {primary'} : IsPrefix(log', v)
    BY DEF CopyOfPrimary
  <2>2. UNCHANGED <<log, overlooked, glued>>
    BY <1>2 DEF local, history
  <2>3. Had(log)
    BY <1>1, <2>1, <2>2 DEF CopyOfPrimary, Had
  <2>4. log \in Seq(Lines)
    <3>1. PICK v \in versions \cup {primary} : IsPrefix(log, v)
      BY <2>3 DEF Had
    <3>2. v \in Seq(Lines)
      BY <1>1 DEF Heads
    <3>3. log \in Seq(Records)
      BY <1>1 DEF LocalOK
    <3> QED
      BY <3>1, <3>2, <3>3, PrefixType
  <2>5. Had(log)'
    BY <1>3, <2>2, <2>3, <2>4
  <2> QED
    BY <2>5 DEF Had
<1> QED
  BY <1>3, <1>4, <1>5, <1>6, <1>7, TypeParts, PTL DEF IInv

-----------------------------------------------------------------------------
(* One round of the standby.                                               *)

LEMMA ProbeStep ==
  ASSUME IInv, Probe
  PROVE LocalOK' /\ Headed' /\ Asked' /\ Answered' /\ CopyOfPrimary' /\ GraphIsLog'
<1>1. LocalOK /\ Headed /\ CopyOfPrimary /\ GraphIsLog
  BY TypeParts DEF IInv
<1> DEFINE start == Len(log) - Smaller(Len(log), Overlap)
<1>2. /\ pc' = "fetch" /\ response' = Lost
      /\ \/ from' = start /\ expected' = From(log, start)
         \/ from' \in {0, start} /\ expected' = <<>>
      /\ faults' \in 0 .. MaxFaults
      /\ UNCHANGED <<source, local, sidecar, damaged, glued, overlooked>>
  <2>1. faults \in 0 .. MaxFaults /\ MaxFaults \in Nat
    BY <1>1, FollowerAssumption DEF LocalOK
  <2>2. Fault => faults' \in 0 .. MaxFaults
    BY <2>1 DEF Fault
  <2>3. /\ \/ Request(start, From(log, start)) /\ UNCHANGED faults
           \/ Fault /\ (Request(0, <<>>) \/ Request(start, <<>>))
        /\ pc' = "fetch" /\ UNCHANGED <<source, local, sidecar, damaged, glued, overlooked>>
    BY DEF Probe
  <2> HIDE DEF start
  <2> QED
    BY <2>1, <2>2, <2>3 DEF Request
<1>3. log \in Seq(Records) /\ pc = "probe"
  BY <1>1 DEF LocalOK, Probe
<1>4. start \in 0 .. Len(log)
  BY <1>3, FollowerAssumption DEF Smaller
<1> HIDE DEF start
<1>5. From(log, start) \in Seq(Records) /\ <<>> \in Seq(Records)
  BY <1>3, <1>4, FromElements
<1>6. LocalOK'
  <2>1. from' \in Nat /\ expected' \in Seq(Records)
    <3>1. start \in Nat /\ 0 \in Nat
      BY <1>3, <1>4
    <3> QED
      BY <1>2, <1>5, <3>1
  <2>2. response' \in [status : {0, 200, 409}, body : Seq(Records)]
    BY <1>2, <1>5 DEF Lost
  <2> QED
    BY <1>1, <1>2, <2>1, <2>2 DEF LocalOK, local
<1>7. Headed' /\ GraphIsLog' /\ CopyOfPrimary' /\ Answered'
  BY <1>1, <1>2, <1>3 DEF Headed, GraphIsLog, CopyOfPrimary, Answered, local, source
<1>8. Asked'
  BY <1>2, <1>3, <1>4 DEF Asked, local
<1> QED
  BY <1>6, <1>7, <1>8

LEMMA FetchStep ==
  ASSUME IInv, Fetch
  PROVE LocalOK' /\ Headed' /\ Asked' /\ Answered' /\ CopyOfPrimary' /\ GraphIsLog'
<1>1. SourceOK /\ LocalOK /\ Heads /\ Headed /\ Asked /\ CopyOfPrimary /\ GraphIsLog
  BY TypeParts DEF IInv
<1>2. /\ pc = "fetch" /\ pc' = "handle"
      /\ response' = IF from > Len(Shipped) THEN Gone ELSE Sent(From(Shipped, from))
      /\ overlooked' = (overlooked \/ (expected # <<>> /\ ~Diverged(response') /\ ~SameUpTo(from)))
      /\ UNCHANGED <<source, local, sidecar, from, expected, damaged, glued, faults>>
  BY DEF Fetch
<1>3. /\ primary \in Seq(Lines) /\ primary \in Seq(Records) /\ primary # <<>> /\ primary[1] = Theirs
      /\ from \in Nat /\ Shipped \in Seq(Records)
      /\ Shipped = primary \/ Shipped = Append(primary, Torn)
      /\ overlooked \in BOOLEAN
  <2>1. primary \in Seq(Lines) /\ Lines \subseteq Records /\ Torn \in Records
    BY <1>1 DEF SourceOK, Lines, Records
  <2>2. primary \in Seq(Records)
    BY <2>1, SeqMonotonic
  <2> QED
    BY <1>1, <2>1, <2>2 DEF Heads, Shipped, LocalOK
<1>4. response' \in [status : {0, 200, 409}, body : Seq(Records)] /\ overlooked' \in BOOLEAN
  <2>1. CASE from > Len(Shipped)
    BY <1>2, <1>3, <2>1 DEF Gone
  <2>2. CASE ~(from > Len(Shipped))
    <3>1. from \in 0 .. Len(Shipped)
      BY <1>3, <2>2
    <3>2. From(Shipped, from) \in Seq(Records)
      BY <1>3, <3>1, FromElements
    <3> QED
      BY <1>2, <1>3, <2>2, <3>2 DEF Sent
  <2> QED
    BY <2>1, <2>2
<1>5. LocalOK'
  BY <1>1, <1>2, <1>4 DEF LocalOK, local
<1>6. Headed' /\ Asked' /\ GraphIsLog' /\ CopyOfPrimary'
  BY <1>1, <1>2, <1>3 DEF Headed, Asked, GraphIsLog, CopyOfPrimary, local, source
<1>7. Answered'
  <2>1. CASE from > Len(Shipped)
    BY <1>2, <2>1 DEF Answered, Gone
  <2>2. CASE ~(from > Len(Shipped))
    <3>1. response'.status = 200 /\ response'.body = From(Shipped, from)
      BY <1>2, <2>2 DEF Sent
    <3>2. Had(primary)'
      <4>1. Had(primary)
        BY <1>3, HadSelf
      <4> QED
        BY <1>2, <4>1 DEF Had, source
    <3>3. \/ from' <= Len(primary) /\ response'.body = From(primary, from')
          \/ from' <= Len(primary) + 1 /\ response'.body = From(Append(primary, Torn), from')
      <4>1. from' = from
        BY <1>2
      <4>2. CASE Shipped = primary
        BY <1>3, <2>2, <3>1, <4>1, <4>2
      <4>3. CASE Shipped = Append(primary, Torn)
        BY <1>3, <2>2, <3>1, <4>1, <4>3
      <4> QED
        BY <1>3, <4>2, <4>3
    <3>4. overlooked' \/ expected' = <<>> \/ Diverged(response)' \/ IsPrefix(SubSeq(log', 1, from'), primary)
      BY <1>2, <1>3 DEF Diverged, SameUpTo, local
    <3>5. AnswerOf(primary)'
      BY <1>2, <1>3, <3>2, <3>3, <3>4 DEF AnswerOf, source
    <3>6. primary' = primary
      BY <1>2 DEF source
    <3> QED
      BY <1>3, <3>1, <3>5, <3>6 DEF Answered
  <2> QED
    BY <2>1, <2>2
<1> QED
  BY <1>5, <1>6, <1>7

LEMMA MovesOn ==
  ASSUME IInv, FetchFails \/ Resync \/ NothingApplied
  PROVE LocalOK' /\ Headed' /\ Asked' /\ Answered' /\ CopyOfPrimary' /\ GraphIsLog'
<1>1. LocalOK /\ Headed /\ CopyOfPrimary /\ GraphIsLog
  BY TypeParts DEF IInv
<1>2. /\ pc \in {"fetch", "handle"} /\ pc' \in {"resync", "sidecar"}
      /\ UNCHANGED <<source, local, sidecar, request, history>>
  BY DEF FetchFails, Resync, NothingApplied, Continues
<1>3. LocalOK'
  BY <1>1, <1>2 DEF LocalOK, local, request, history
<1>4. Headed' /\ Asked' /\ Answered' /\ CopyOfPrimary' /\ GraphIsLog'
  BY <1>1, <1>2 DEF Headed, Asked, Answered, CopyOfPrimary, GraphIsLog, local, source, request, history
<1> QED
  BY <1>3, <1>4

-----------------------------------------------------------------------------
(* What is applied.                                                        *)

LEMMA NewType ==
  ASSUME IInv, Continues
  PROVE /\ response.body \in Seq(Records) /\ Len(expected) \in 0 .. Len(response.body)
        /\ New \in Seq(Records) /\ Len(New) = Len(response.body) - Len(expected)
        /\ IsPrefix(expected, response.body)
<1>1. response.body \in Seq(Records) /\ expected \in Seq(Records)
  BY TypeParts DEF IInv, LocalOK
<1>2. IsPrefix(expected, response.body)
  BY DEF Continues, Diverged
<1>3. Len(expected) \in 0 .. Len(response.body)
  BY <1>1, <1>2, PrefixByElements
<1>4. New \in Seq(Records) /\ Len(New) = Len(response.body) - Len(expected)
  BY <1>1, <1>3, FromElements DEF New
<1> QED
  BY <1>1, <1>2, <1>3, <1>4

\* A log the answer is the rest of.
LEMMA AnswerFound ==
  ASSUME IInv, Applicable
  PROVE \E u \in Seq(Lines) : AnswerOf(u) /\ from <= Len(u) /\ response.body = From(u, from)
<1>1. response.status = 200 => \E u \in Seq(Lines) : AnswerOf(u)
  BY DEF IInv, Answered, Applicable, Continues
<1>2. response.status # 409 /\ pc = "handle" /\ New # <<>> /\ Torn \notin ToSet(New)
  BY DEF Applicable, Continues, Diverged
<1>3. PICK u \in Seq(Lines) : AnswerOf(u)
  BY <1>1, <1>2 DEF IInv, Answered
<1>4. SUFFICES ASSUME from <= Len(u) + 1, response.body = From(Append(u, Torn), from)
               PROVE FALSE
  BY <1>3 DEF AnswerOf
<1>5. u \in Seq(Records) /\ from \in 0 .. Len(u) + 1
  <2>1. Lines \subseteq Records
    BY DEF Lines, Records
  <2>2. from \in Nat
    BY TypeParts DEF IInv, LocalOK
  <2>3. u \in Seq(Records)
    BY <2>1, SeqMonotonic
  <2> QED
    BY <1>4, <2>2, <2>3
<1>6. Len(expected) \in Nat /\ Len(expected) < Len(response.body)
  <2>1. /\ New \in Seq(Records) /\ Len(New) = Len(response.body) - Len(expected)
        /\ Len(expected) \in 0 .. Len(response.body) /\ response.body \in Seq(Records)
    BY NewType DEF Applicable
  <2>2. Len(New) # 0
    BY <1>2, <2>1, EmptySeq
  <2> QED
    BY <2>1, <2>2
<1>7. Torn \in ToSet(New)
  BY <1>4, <1>5, <1>6, TornAtTheEnd DEF New
<1> QED
  BY <1>2, <1>7

LEMMA NewHeaded ==
  ASSUME IInv, Applicable, log = <<>>
  PROVE from = 0 /\ expected = <<>> /\ New[1] = Theirs
<1>1. PICK u \in Seq(Lines) : AnswerOf(u) /\ from <= Len(u) /\ response.body = From(u, from)
  BY AnswerFound
<1>2. from \in Nat /\ (from > 0 => expected # <<>>)
  BY TypeParts DEF IInv, LocalOK, Applicable
<1>3. expected = <<>>
  <2>1. expected = <<>> \/ (from <= Len(log) /\ expected = From(log, from))
    BY DEF IInv, Asked, Applicable, Continues
  <2>2. Len(log) = 0
    BY DEF IInv
  <2>3. SUFFICES ASSUME from = 0, expected = From(log, from) PROVE expected = <<>>
    BY <1>2, <2>1, <2>2
  <2>4. <<>> \in Seq(Records) /\ 0 \in 0 .. Len(<<>>)
    OBVIOUS
  <2>5. From(<<>>, 0) \in Seq(Records) /\ Len(From(<<>>, 0)) = Len(<<>>) - 0
    BY <2>4, FromElements
  <2>6. From(<<>>, 0) = <<>>
    BY <2>5, EmptySeq
  <2> QED
    BY <2>3, <2>6
<1>4. from = 0
  BY <1>2, <1>3
<1>5. u # <<>> /\ u[1] = Theirs
  BY <1>1 DEF AnswerOf
<1>6. 0 \in 0 .. Len(u) /\ 1 \in 1 .. Len(u) - 0 /\ 0 + 1 = 1
  BY <1>5
<1> DEFINE b == From(u, 0)
<1>7. b \in Seq(Lines) /\ Len(b) = Len(u) /\ b[1] = Theirs
  BY <1>5, <1>6, FromElements
<1>8. response.body = b
  BY <1>1, <1>4
<1> HIDE DEF b
<1>9. 0 \in 0 .. Len(b) /\ 1 \in 1 .. Len(b) - 0
  BY <1>6, <1>7
<1>10. From(b, 0)[1] = b[0 + 1]
  BY <1>7, <1>9, FromElements
<1>11. New = From(b, 0)
  BY <1>3, <1>8 DEF New
<1> QED
  BY <1>3, <1>4, <1>7, <1>10, <1>11

\* What our log becomes is a log that the primary had.
LEMMA NewContinues ==
  ASSUME IInv, Applicable, ~overlooked, ~Misplaced
  PROVE log \o New \in Seq(Lines) /\ Had(log \o New)
<1>1. PICK u \in Seq(Lines) : AnswerOf(u) /\ from <= Len(u) /\ response.body = From(u, from)
  BY AnswerFound
<1>2. /\ log \in Seq(Records) /\ from \in Nat /\ expected \in Seq(Records)
      /\ from + Len(expected) = Len(log)
      /\ from > 0 => expected # <<>>
  BY TypeParts DEF IInv, LocalOK, Applicable, Misplaced
<1>3. u \in Seq(Records)
  <2>1. Lines \subseteq Records
    BY DEF Lines, Records
  <2> QED
    BY <2>1, SeqMonotonic
<1>4. log \o New = u
  <2>1. CASE expected = <<>>
    <3>1. from = 0 /\ log = <<>>
      <4>1. from = 0 /\ Len(log) = 0
        BY <1>2, <2>1
      <4> QED
        BY <1>2, <4>1, EmptySeq
    <3>2. New = From(From(u, 0), 0)
      BY <1>1, <2>1, <3>1 DEF New
    <3>3. From(u, 0) = u /\ From(From(u, 0), 0) = u
      BY <1>3 DEF From
    <3>4. <<>> \o u = u
      BY <1>3, ConcatEmptySeq
    <3> QED
      BY <3>1, <3>2, <3>3, <3>4
  <2>2. CASE expected # <<>>
    <3>1. from <= Len(log) /\ expected = From(log, from)
      BY <2>2 DEF IInv, Asked, Applicable, Continues
    <3>2. from \in 0 .. Len(log) /\ from <= Len(u)
      BY <1>1, <1>2, <3>1
    <3>3. IsPrefix(SubSeq(log, 1, from), u)
      BY <1>1, <2>2 DEF AnswerOf, Applicable, Continues
    <3>4. IsPrefix(From(log, from), From(u, from))
      BY <1>1, <3>1 DEF Applicable, Continues, Diverged
    <3>5. log \o From(From(u, from), Len(From(log, from))) = u
      BY <1>2, <1>3, <3>2, <3>3, <3>4, Rebuilt
    <3> QED
      BY <1>1, <3>1, <3>5 DEF New
  <2> QED
    BY <2>1, <2>2
<1> QED
  BY <1>1, <1>4 DEF AnswerOf

LEMMA LogGrows ==
  ASSUME IInv, Applicable, NEW n \in 0 .. Len(New)
  PROVE log \o SubSeq(New, 1, n) \in Seq(Records) /\ HeadedLog(log \o SubSeq(New, 1, n))
<1> DEFINE m == SubSeq(New, 1, n)
<1>1. log \in Seq(Records) /\ New \in Seq(Records) /\ New # <<>> /\ HeadedLog(log)
  BY NewType, TypeParts DEF IInv, LocalOK, Applicable, Headed
<1>2. m \in Seq(Records) /\ Len(m) = n /\ \A i \in 1 .. n : m[i] = New[i]
  BY <1>1
<1> HIDE DEF m
<1> DEFINE x == log \o m
<1>3. /\ x \in Seq(Records) /\ Len(x) = Len(log) + n
      /\ \A i \in 1 .. Len(log) : x[i] = log[i]
      /\ \A i \in 1 .. n : x[Len(log) + i] = m[i]
  <2>1. Len(m) = n /\ m \in Seq(Records) /\ log \in Seq(Records)
    BY <1>1, <1>2
  <2>2. /\ x \in Seq(Records) /\ Len(x) = Len(log) + Len(m)
        /\ \A i \in 1 .. Len(log) : x[i] = log[i]
        /\ \A i \in 1 .. Len(m) : x[Len(log) + i] = m[i]
    BY <2>1
  <2> QED
    BY <2>1, <2>2
<1> HIDE DEF x
<1>4. HeadedLog(x)
  <2>1. SUFFICES ASSUME x # <<>> PROVE x[1] \in {Ours, Theirs, Torn}
    BY DEF HeadedLog
  <2>2. CASE log # <<>>
    <3>1. 1 \in 1 .. Len(log)
      BY <1>1, <2>2
    <3> QED
      BY <1>1, <1>3, <2>2, <3>1 DEF HeadedLog
  <2>3. CASE log = <<>>
    <3>1. Len(log) = 0
      BY <2>3
    <3>2. n # 0
      BY <1>3, <2>1, <3>1, EmptySeq
    <3>3. 1 \in 1 .. n /\ Len(log) + 1 = 1
      BY <3>1, <3>2
    <3>4. New[1] = Theirs
      BY <2>3, NewHeaded
    <3>5. x[1] = m[1]
      BY <1>3, <3>3
    <3> QED
      BY <1>2, <3>3, <3>4, <3>5
  <2> QED
    BY <2>2, <2>3
<1> QED
  BY <1>3, <1>4 DEF x, m

LEMMA ApplyStep ==
  ASSUME IInv, Apply
  PROVE LocalOK' /\ Headed' /\ Asked' /\ Answered' /\ CopyOfPrimary' /\ GraphIsLog'
<1>1. SourceOK /\ LocalOK /\ Heads /\ CopyOfPrimary /\ GraphIsLog
  BY TypeParts DEF IInv
<1>2. /\ Applicable
      /\ log' = log \o New /\ graph' = graph \o OpsOf(New) /\ columns' = Len(graph')
      /\ Named(New) /\ glued' = (glued \/ Misplaced) /\ pc' = "sidecar"
      /\ UNCHANGED <<source, sidecar, request, damaged, overlooked, faults>>
  BY DEF Apply
<1>3. New \in Seq(Records) /\ log \in Seq(Records) /\ graph \in Seq(Ops)
  BY <1>1, <1>2, NewType DEF LocalOK, Applicable
<1>4. log' \in Seq(Records) /\ Headed'
  <2>1. SubSeq(New, 1, Len(New)) = New /\ Len(New) \in 0 .. Len(New)
    BY <1>3
  <2>2. log \o New \in Seq(Records) /\ HeadedLog(log \o New)
    BY <1>2, <2>1, LogGrows
  <2> QED
    BY <1>2, <2>2 DEF Headed, HeadedLog
<1>5. graph' \in Seq(Ops)
  <2>1. OpsOf(New) \in Seq(Records \cap Ops)
    BY <1>3, OpsOfType
  <2>2. OpsOf(New) \in Seq(Ops)
    BY <2>1, SeqMonotonic
  <2> QED
    BY <1>2, <1>3, <2>2, ConcatProperties
<1>6. columns' \in 0 .. Len(graph')
  BY <1>2, <1>5
<1>7. id' \in {NoId, Ours, Theirs} /\ glued' \in BOOLEAN
  BY <1>1, <1>2 DEF Named, LocalOK, Misplaced
<1>8. LocalOK'
  BY <1>1, <1>2, <1>4, <1>5, <1>6, <1>7 DEF LocalOK, request
<1>9. GraphIsLog'
  BY <1>1, <1>2, <1>3, OpsOfConcat DEF GraphIsLog, Applicable, Continues
<1>10. CopyOfPrimary'
  <2>1. SUFFICES ASSUME ~overlooked', ~glued' PROVE Had(log)'
    BY DEF CopyOfPrimary, Had
  <2>2. ~overlooked /\ ~Misplaced
    BY <1>2, <2>1
  <2>3. Had(log \o New)
    BY <1>2, <2>2, NewContinues
  <2> QED
    BY <1>2, <2>3 DEF Had, source
<1>11. Asked' /\ Answered'
  BY <1>2 DEF Asked, Answered
<1> QED
  BY <1>4, <1>8, <1>9, <1>10, <1>11

LEMMA ApplyFailsStep ==
  ASSUME IInv, ApplyFails
  PROVE LocalOK' /\ Headed' /\ Asked' /\ Answered' /\ CopyOfPrimary' /\ GraphIsLog'
<1>1. LocalOK
  BY TypeParts DEF IInv
<1>2. /\ Applicable /\ Fault /\ Named(New)
      /\ \/ /\ \E n \in 0 .. Len(New) - 1, t \in {<<>>, <<Torn>>} : log' = log \o SubSeq(New, 1, n) \o t
            /\ UNCHANGED graph
         \/ log' = log \o New /\ graph' = graph \o OpsOf(New)
      /\ damaged' = TRUE /\ glued' = TRUE /\ pc' = "sidecar"
      /\ UNCHANGED <<columns, source, sidecar, request, overlooked>>
  BY DEF ApplyFails
<1>3. New \in Seq(Records) /\ log \in Seq(Records) /\ graph \in Seq(Ops)
  BY <1>1, <1>2, NewType DEF LocalOK, Applicable
<1>4. log' \in Seq(Records) /\ Headed'
  <2>1. ASSUME NEW n \in 0 .. Len(New) - 1, NEW t \in {<<>>, <<Torn>>},
               log' = log \o SubSeq(New, 1, n) \o t
        PROVE log' \in Seq(Records) /\ HeadedLog(log')
    <3> DEFINE x == log \o SubSeq(New, 1, n)
    <3>1. x \in Seq(Records) /\ HeadedLog(x)
      <4>1. n \in 0 .. Len(New)
        BY <1>3
      <4> QED
        BY <1>2, <4>1, LogGrows
    <3>2. t \in Seq(Records) /\ (t # <<>> => t[1] = Torn /\ Len(t) = 1)
      <4>1. Torn \in Records
        BY DEF Records
      <4>2. <<Torn>> \in Seq(Records) /\ <<Torn>>[1] = Torn /\ Len(<<Torn>>) = 1 /\ <<>> \in Seq(Records)
        BY <4>1
      <4> QED
        BY <4>2
    <3>3. log' = x \o t
      BY <2>1
    <3> HIDE DEF x
    <3>4. CASE x = <<>>
      <4>1. log' = t
        BY <3>2, <3>3, <3>4, ConcatEmptySeq
      <4> QED
        BY <3>2, <4>1 DEF HeadedLog
    <3>5. CASE x # <<>>
      <4>1. log' \in Seq(Records) /\ log'[1] = x[1]
        <5>1. 1 \in 1 .. Len(x)
          BY <3>1, <3>5
        <5> QED
          BY <3>1, <3>2, <3>3, <5>1
      <4> QED
        BY <3>1, <3>5, <4>1 DEF HeadedLog
    <3> QED
      BY <3>4, <3>5
  <2>2. ASSUME log' = log \o New PROVE log' \in Seq(Records) /\ HeadedLog(log')
    <3>1. SubSeq(New, 1, Len(New)) = New /\ Len(New) \in 0 .. Len(New)
      BY <1>3
    <3>2. log \o New \in Seq(Records) /\ HeadedLog(log \o New)
      BY <1>2, <3>1, LogGrows
    <3> QED
      BY <2>2, <3>2
  <2>3. log' \in Seq(Records) /\ HeadedLog(log')
    BY <1>2, <2>1, <2>2
  <2> QED
    BY <2>3 DEF Headed, HeadedLog
<1>5. graph' \in Seq(Ops) /\ columns \in 0 .. Len(graph')
  <2>1. OpsOf(New) \in Seq(Records \cap Ops)
    BY <1>3, OpsOfType
  <2>2. OpsOf(New) \in Seq(Ops)
    BY <2>1, SeqMonotonic
  <2>3. /\ graph \o OpsOf(New) \in Seq(Ops)
        /\ Len(graph \o OpsOf(New)) = Len(graph) + Len(OpsOf(New))
    BY <1>3, <2>2, ConcatProperties
  <2>4. columns \in 0 .. Len(graph) /\ Len(graph) \in Nat /\ Len(OpsOf(New)) \in Nat
    BY <1>1, <1>3, <2>2 DEF LocalOK
  <2>5. CASE graph' = graph
    BY <1>3, <2>4, <2>5
  <2>6. CASE graph' = graph \o OpsOf(New)
    <3>1. columns \in 0 .. Len(graph) + Len(OpsOf(New))
      BY <2>4
    <3> QED
      BY <2>3, <2>6, <3>1
  <2> QED
    BY <1>2, <2>5, <2>6
<1>6. id' \in {NoId, Ours, Theirs} /\ faults' \in 0 .. MaxFaults
  BY <1>1, <1>2, FollowerAssumption DEF Named, Fault, LocalOK
<1>7. LocalOK'
  BY <1>1, <1>2, <1>4, <1>5, <1>6 DEF LocalOK, request
<1>8. Asked' /\ Answered' /\ CopyOfPrimary' /\ GraphIsLog'
  BY <1>2 DEF Asked, Answered, CopyOfPrimary, GraphIsLog
<1> QED
  BY <1>4, <1>7, <1>8

LEMMA HadNothing ==
  ASSUME IInv
  PROVE Had(<<>>)
<1>1. primary \in Seq(Lines) /\ <<>> \in Seq(Lines) /\ Len(<<>>) = 0
  BY TypeParts DEF IInv, SourceOK
<1>2. IsPrefix(<<>>, primary)
  <2>1. Len(<<>>) <= Len(primary) /\ \A i \in 1 .. Len(<<>>) : <<>>[i] = primary[i]
    BY <1>1
  <2> QED
    BY <1>1, <2>1, PrefixByElements
<1> QED
  BY <1>2 DEF Had

LEMMA ResetStep ==
  ASSUME IInv, Reset \/ ResetFails
  PROVE LocalOK' /\ Headed' /\ Asked' /\ Answered' /\ CopyOfPrimary' /\ GraphIsLog'
<1>1. LocalOK /\ Headed /\ CopyOfPrimary
  BY TypeParts DEF IInv
<1>2. /\ pc' = "probe" /\ log' \in {log, <<>>}
      /\ \/ /\ log' = <<>> /\ graph' = <<>> /\ columns' = 0 /\ id' = NoId
            /\ damaged' = FALSE /\ glued' = FALSE /\ overlooked' = FALSE /\ faults' = faults
         \/ Fault /\ damaged' = TRUE /\ UNCHANGED <<graph, columns, id, glued, overlooked>>
      /\ UNCHANGED <<source, sidecar, request>>
  BY DEF Reset, ResetFails, Discard
<1>3. faults' \in 0 .. MaxFaults
  BY <1>1, <1>2, FollowerAssumption DEF Fault, LocalOK
<1>4. /\ log' \in Seq(Records) /\ graph' \in Seq(Ops) /\ columns' \in 0 .. Len(graph')
      /\ id' \in {NoId, Ours, Theirs}
  <2>1. <<>> \in Seq(Records) /\ <<>> \in Seq(Ops) /\ 0 \in 0 .. Len(<<>>)
    OBVIOUS
  <2>2. /\ log \in Seq(Records) /\ graph \in Seq(Ops) /\ columns \in 0 .. Len(graph)
        /\ id \in {NoId, Ours, Theirs}
    BY <1>1 DEF LocalOK
  <2>3. log' \in Seq(Records)
    BY <1>2, <2>1, <2>2
  <2>4. CASE log' = <<>> /\ graph' = <<>> /\ columns' = 0 /\ id' = NoId
    BY <2>1, <2>4
  <2>5. CASE UNCHANGED <<graph, columns, id>>
    BY <2>2, <2>3, <2>5
  <2> QED
    BY <1>2, <2>4, <2>5
<1>5. LocalOK'
  BY <1>1, <1>2, <1>3, <1>4 DEF LocalOK, request
<1>6. Headed'
  BY <1>1, <1>2 DEF Headed, HeadedLog
<1>7. Asked' /\ Answered'
  BY <1>2 DEF Asked, Answered
<1>8. GraphIsLog'
  <2>1. Len(<<>>) = 0
    OBVIOUS
  <2> QED
    BY <1>2, <2>1, OpsOfEmpty DEF GraphIsLog
<1>9. CopyOfPrimary'
  <2>1. SUFFICES ASSUME ~overlooked', ~glued', log' # <<Ours>> PROVE Had(log)'
    BY DEF CopyOfPrimary, Had
  <2>2. CASE log' = <<>>
    BY <1>2, <2>2, HadNothing DEF Had, source
  <2>3. CASE log' = log /\ log' # <<>>
    BY <1>1, <1>2, <2>1, <2>3 DEF CopyOfPrimary, Had, source
  <2> QED
    BY <1>2, <2>2, <2>3
<1> QED
  BY <1>5, <1>6, <1>7, <1>8, <1>9

LEMMA FetchSidecarStep ==
  ASSUME IInv, FetchSidecar
  PROVE LocalOK' /\ Headed' /\ Asked' /\ Answered' /\ CopyOfPrimary' /\ GraphIsLog'
<1>1. LocalOK /\ Headed /\ CopyOfPrimary /\ GraphIsLog
  BY TypeParts DEF IInv
<1>2. /\ pc = "sidecar" /\ pc' = "probe" /\ sidecar' \in {sidecar, Theirs}
      /\ columns' \in {columns, Len(graph)}
      /\ UNCHANGED <<source, log, graph, id, request, history>>
  BY DEF FetchSidecar
<1>3. columns' \in 0 .. Len(graph)
  BY <1>1, <1>2 DEF LocalOK
<1>4. LocalOK'
  BY <1>1, <1>2, <1>3 DEF LocalOK, request, history
<1>5. Headed' /\ Asked' /\ Answered' /\ CopyOfPrimary' /\ GraphIsLog'
  BY <1>1, <1>2 DEF Headed, Asked, Answered, CopyOfPrimary, GraphIsLog, source, history
<1> QED
  BY <1>4, <1>5

LEMMA PrefixConcat ==
  ASSUME NEW R, NEW s \in Seq(R), NEW t \in Seq(R), NEW n \in 0 .. Len(t)
  PROVE IsPrefix(s \o SubSeq(t, 1, n), s \o t)
<1> DEFINE p == SubSeq(t, 1, n)
           x == s \o p
           y == s \o t
<1>1. p \in Seq(R) /\ Len(p) = n /\ \A i \in 1 .. n : p[i] = t[i]
  OBVIOUS
<1> HIDE DEF p
<1>2. /\ x \in Seq(R) /\ Len(x) = Len(s) + n
      /\ \A i \in 1 .. Len(s) : x[i] = s[i]
      /\ \A i \in 1 .. n : x[Len(s) + i] = p[i]
  <2>1. /\ x \in Seq(R) /\ Len(x) = Len(s) + Len(p)
        /\ \A i \in 1 .. Len(s) : x[i] = s[i]
        /\ \A i \in 1 .. Len(p) : x[Len(s) + i] = p[i]
    <3>1. p \in Seq(R) /\ Len(p) \in Nat /\ Len(s) \in Nat
      BY <1>1
    <3>2. /\ x \in Seq(R) /\ Len(x) = Len(s) + Len(p)
          /\ \A i \in 1 .. Len(s) + Len(p) : x[i] = IF i <= Len(s) THEN s[i] ELSE p[i - Len(s)]
      BY <3>1, ConcatProperties
    <3> HIDE DEF x
    <3>3. ASSUME NEW i \in 1 .. Len(p) PROVE x[Len(s) + i] = p[i]
      <4> DEFINE k == Len(s) + i
      <4>1. k \in 1 .. Len(s) + Len(p) /\ ~(k <= Len(s)) /\ k - Len(s) = i
        BY <3>1
      <4> HIDE DEF k
      <4>2. x[k] = p[i]
        BY <3>2, <4>1
      <4> QED
        BY <4>2 DEF k
    <3>4. ASSUME NEW i \in 1 .. Len(s) PROVE x[i] = s[i]
      BY <3>1, <3>2
    <3> QED
      BY <3>2, <3>3, <3>4
  <2> QED
    BY <1>1, <2>1
<1>3. /\ y \in Seq(R) /\ Len(y) = Len(s) + Len(t)
      /\ \A i \in 1 .. Len(s) : y[i] = s[i]
      /\ \A i \in 1 .. Len(t) : y[Len(s) + i] = t[i]
  OBVIOUS
<1> HIDE DEF x, y
<1>4. ASSUME NEW i \in 1 .. Len(x) PROVE x[i] = y[i]
  <2>1. CASE i <= Len(s)
    BY <1>2, <1>3, <2>1
  <2>2. CASE i > Len(s)
    <3> DEFINE j == i - Len(s)
    <3>1. j \in 1 .. n /\ j \in 1 .. Len(t) /\ Len(s) + j = i
      BY <1>2, <2>2
    <3> HIDE DEF j
    <3>2. x[i] = p[j] /\ p[j] = t[j] /\ y[i] = t[j]
      BY <1>1, <1>2, <1>3, <3>1
    <3> QED
      BY <3>2
  <2> QED
    BY <2>1, <2>2
<1>5. Len(x) <= Len(y)
  BY <1>2, <1>3
<1>6. IsPrefix(x, y)
  BY <1>2, <1>3, <1>4, <1>5, PrefixByElements
<1> QED
  BY <1>6 DEF x, y, p

-----------------------------------------------------------------------------
(* Restarts.                                                               *)

LEMMA CutType ==
  ASSUME NEW l \in Seq(Records), HeadedLog(l)
  PROVE /\ Cut(l) \in Seq(Records) /\ HeadedLog(Cut(l))
        /\ ~Broken(l) /\ Cut(l) # <<>> => Cut(l)[1] \in {Ours, Theirs}
<1>1. Cut(l) \in Seq(Records) /\ (Cut(l) # <<>> => l # <<>> /\ Cut(l)[1] = l[1])
  <2>1. CASE l # <<>> /\ Last(l) = Torn
    <3> DEFINE n == Len(l) - 1
               c == SubSeq(l, 1, n)
    <3>1. n \in 0 .. Len(l)
      BY <2>1
    <3>2. Cut(l) = c
      BY <2>1 DEF Cut, Front
    <3> HIDE DEF n
    <3>3. c \in Seq(Records) /\ Len(c) = n /\ \A i \in 1 .. n : c[i] = l[i]
      BY <3>1
    <3> HIDE DEF c
    <3>4. ASSUME c # <<>> PROVE c[1] = l[1]
      <4>1. Len(c) # 0
        BY <3>3, <3>4, EmptySeq
      <4>2. 1 \in 1 .. n
        BY <3>1, <3>3, <4>1
      <4> QED
        BY <3>3, <4>2
    <3> QED
      BY <2>1, <3>2, <3>3, <3>4
  <2>2. CASE ~(l # <<>> /\ Last(l) = Torn)
    BY <2>2 DEF Cut
  <2> QED
    BY <2>1, <2>2
<1>2. HeadedLog(Cut(l))
  BY <1>1 DEF HeadedLog
<1>3. ASSUME ~Broken(l), Cut(l) # <<>> PROVE Cut(l)[1] # Torn
  <2>1. 1 \in DOMAIN Cut(l)
    BY <1>1, <1>3
  <2>2. Cut(l)[1] \in ToSet(Cut(l))
    BY <2>1 DEF ToSet
  <2> QED
    BY <1>3, <2>2 DEF Broken
<1> QED
  BY <1>1, <1>2, <1>3 DEF HeadedLog

\* Whatever a process left, the next one is in a state the invariant allows.
LEMMA ReopenType ==
  ASSUME NEW l \in Seq(Records), HeadedLog(l), Reopen(l)
  PROVE /\ log' \in Seq(Records) /\ graph' \in Seq(Ops) /\ columns' \in 0 .. Len(graph')
        /\ id' \in {NoId, Ours, Theirs} /\ pc' \in {"probe", "down"} /\ damaged' = FALSE
        /\ from' \in Nat /\ expected' \in Seq(Records)
        /\ response' \in [status : {0, 200, 409}, body : Seq(Records)]
        /\ Headed' /\ GraphIsLog' /\ Asked' /\ Answered'
<1>1. from' = 0 /\ expected' = <<>> /\ response' = Lost /\ damaged' = FALSE
  BY DEF Reopen, Request
<1>2. /\ from' \in Nat /\ expected' \in Seq(Records)
      /\ response' \in [status : {0, 200, 409}, body : Seq(Records)]
  <2>1. <<>> \in Seq(Records)
    OBVIOUS
  <2> QED
    BY <1>1, <2>1 DEF Lost
<1>3. CASE Broken(l)
  <2>1. log' = l /\ graph' = <<>> /\ columns' = 0 /\ id' = NoId /\ pc' = "down"
    BY <1>3 DEF Reopen
  <2>2. <<>> \in Seq(Ops) /\ 0 \in 0 .. Len(<<>>)
    OBVIOUS
  <2>3. Headed' /\ GraphIsLog' /\ Asked' /\ Answered'
    BY <2>1 DEF Headed, HeadedLog, GraphIsLog, Asked, Answered
  <2> QED
    BY <1>1, <1>2, <2>1, <2>2, <2>3
<1>4. CASE ~Broken(l)
  <2> DEFINE opened == IF l = <<>> THEN <<Ours>> ELSE Cut(l)
  <2>1. /\ log' = opened /\ graph' = OpsOf(opened) /\ columns' = Len(graph')
        /\ id' = IF opened = <<>> THEN NoId ELSE opened[1]
        /\ pc' \in {"probe", "down"}
    BY <1>4 DEF Reopen
  <2>2. opened \in Seq(Records) /\ (opened # <<>> => opened[1] \in {Ours, Theirs})
    <3>1. CASE l = <<>>
      <4>1. Ours \in Records
        BY DEF Records
      <4>2. opened = <<Ours>> /\ <<Ours>> \in Seq(Records) /\ <<Ours>>[1] = Ours
        BY <3>1, <4>1
      <4> QED
        BY <4>2
    <3>2. CASE l # <<>>
      BY <1>4, <3>2, CutType
    <3> QED
      BY <3>1, <3>2
  <2> HIDE DEF opened
  <2>3. graph' \in Seq(Ops) /\ columns' \in 0 .. Len(graph')
    <3>1. OpsOf(opened) \in Seq(Records \cap Ops)
      BY <2>2, OpsOfType
    <3>2. graph' \in Seq(Ops)
      BY <2>1, <3>1, SeqMonotonic
    <3>3. Len(graph') \in 0 .. Len(graph')
      BY <3>2
    <3> QED
      BY <2>1, <3>2, <3>3
  <2>4. Headed' /\ GraphIsLog' /\ Asked' /\ Answered'
    BY <2>1, <2>2 DEF Headed, HeadedLog, GraphIsLog, Asked, Answered
  <2> QED
    BY <1>1, <1>2, <2>1, <2>2, <2>3, <2>4
<1> QED
  BY <1>3, <1>4

\* What was shipped has no torn line, and opens as it is.
LEMMA ReopenIntact ==
  ASSUME NEW l, l = <<Ours>> \/ l \in Seq(Lines), Reopen(l)
  PROVE log' = l \/ log' = <<Ours>>
<1>1. Torn \notin ToSet(l) /\ (l # <<>> => Last(l) # Torn)
  <2>1. CASE l = <<Ours>>
    BY <2>1, RecordsAssumption DEF ToSet, Last
  <2>2. CASE l \in Seq(Lines)
    <3>1. ASSUME NEW i \in 1 .. Len(l) PROVE l[i] # Torn
      BY <2>2, RecordsAssumption DEF Lines
    <3>2. DOMAIN l = 1 .. Len(l)
      BY <2>2
    <3>3. l # <<>> => Len(l) \in 1 .. Len(l)
      BY <2>2
    <3> QED
      BY <3>1, <3>2, <3>3 DEF ToSet, Last
  <2> QED
    BY <2>1, <2>2
<1>2. Cut(l) = l /\ ~Broken(l)
  BY <1>1 DEF Cut, Broken
<1> QED
  BY <1>2 DEF Reopen

\* A prefix of what the primary had is one, too.
LEMMA HadLess ==
  ASSUME IInv, NEW l \in Seq(Records), NEW m \in Seq(Lines), Had(m), IsPrefix(l, m)
  PROVE l \in Seq(Lines) /\ Had(l)
<1>1. PICK v \in versions \cup {primary} : IsPrefix(m, v)
  BY DEF Had
<1>2. v \in Seq(Lines)
  BY <1>1 DEF IInv, Heads
<1>3. l \in Seq(Lines)
  BY PrefixType
<1>4. IsPrefix(l, v)
  BY <1>1, <1>2, <1>3, PrefixTrans
<1> QED
  BY <1>1, <1>3, <1>4 DEF Had

LEMMA KillStep ==
  ASSUME IInv, Kill \/ Stop
  PROVE LocalOK' /\ Headed' /\ Asked' /\ Answered' /\ CopyOfPrimary' /\ GraphIsLog'
<1>1. SourceOK /\ LocalOK /\ Heads /\ Headed /\ CopyOfPrimary
  BY TypeParts DEF IInv
<1>2. faults' \in 0 .. MaxFaults /\ sidecar' \in {NoId, Ours, Theirs} /\ UNCHANGED <<source, overlooked>>
  BY <1>1, FollowerAssumption DEF Kill, Stop, LocalOK
<1>3. \/ Reopen(log) /\ UNCHANGED glued
      \/ /\ Applicable /\ \E n \in 0 .. Len(New) : Reopen(log \o SubSeq(New, 1, n))
         /\ glued' = (glued \/ Misplaced)
  BY DEF Kill, Stop
<1>4. PICK l \in Seq(Records) :
        /\ HeadedLog(l) /\ Reopen(l)
        /\ \/ l = log /\ UNCHANGED glued
           \/ /\ Applicable /\ \E n \in 0 .. Len(New) : l = log \o SubSeq(New, 1, n)
              /\ glued' = (glued \/ Misplaced)
  <2>1. CASE Reopen(log) /\ UNCHANGED glued
    BY <1>1, <2>1 DEF LocalOK, Headed
  <2>2. CASE /\ Applicable /\ \E n \in 0 .. Len(New) : Reopen(log \o SubSeq(New, 1, n))
             /\ glued' = (glued \/ Misplaced)
    <3>1. PICK n \in 0 .. Len(New) : Reopen(log \o SubSeq(New, 1, n))
      BY <2>2
    <3>2. log \o SubSeq(New, 1, n) \in Seq(Records) /\ HeadedLog(log \o SubSeq(New, 1, n))
      BY <2>2, LogGrows
    <3> QED
      BY <2>2, <3>1, <3>2
  <2> QED
    BY <1>3, <2>1, <2>2
<1>5. /\ log' \in Seq(Records) /\ graph' \in Seq(Ops) /\ columns' \in 0 .. Len(graph')
      /\ id' \in {NoId, Ours, Theirs} /\ pc' \in {"probe", "down"} /\ damaged' = FALSE
      /\ from' \in Nat /\ expected' \in Seq(Records)
      /\ response' \in [status : {0, 200, 409}, body : Seq(Records)]
      /\ Headed' /\ GraphIsLog' /\ Asked' /\ Answered'
  BY <1>4, ReopenType
<1>6. LocalOK'
  <2>1. glued' \in BOOLEAN /\ overlooked' \in BOOLEAN
    BY <1>1, <1>2, <1>4 DEF LocalOK, Misplaced
  <2> QED
    BY <1>2, <1>5, <2>1 DEF LocalOK
<1>7. CopyOfPrimary'
  <2>1. SUFFICES ASSUME ~overlooked', ~glued', log' # <<Ours>> PROVE Had(log')
    BY <1>2 DEF CopyOfPrimary, Had, source
  <2>2. ~overlooked /\ ~glued /\ (log = <<Ours>> \/ Had(log))
    <3>1. ~overlooked
      BY <1>2, <2>1
    <3>2. ~glued
      BY <1>4, <2>1
    <3> QED
      BY <1>1, <3>1, <3>2 DEF CopyOfPrimary, Had
  <2>3. log \in Seq(Records)
    BY <1>1 DEF LocalOK
  <2>4. l = <<Ours>> \/ (l \in Seq(Lines) /\ Had(l))
    <3>1. CASE l = log
      <4>1. CASE Had(log)
        <5>1. PICK v \in versions \cup {primary} : IsPrefix(log, v)
          BY <4>1 DEF Had
        <5>2. v \in Seq(Lines)
          BY <1>1 DEF Heads
        <5> QED
          BY <2>3, <3>1, <4>1, <5>1, <5>2, PrefixType
      <4> QED
        BY <2>2, <3>1, <4>1
    <3>2. CASE /\ Applicable /\ \E n \in 0 .. Len(New) : l = log \o SubSeq(New, 1, n)
               /\ glued' = (glued \/ Misplaced)
      <4>1. ~Misplaced
        BY <2>1, <3>2
      <4>2. log \o New \in Seq(Lines) /\ Had(log \o New)
        BY <2>2, <3>2, <4>1, NewContinues
      <4>3. PICK n \in 0 .. Len(New) : l = log \o SubSeq(New, 1, n)
        BY <3>2
      <4>4. New \in Seq(Records)
        BY <3>2, NewType DEF Applicable
      <4>5. IsPrefix(l, log \o New)
        BY <2>3, <4>3, <4>4, PrefixConcat
      <4> QED
        BY <4>2, <4>5, HadLess
    <3> QED
      BY <1>4, <3>1, <3>2
  <2>5. log' = l
    BY <1>4, <2>1, <2>4, ReopenIntact
  <2> QED
    BY <2>1, <2>4, <2>5
<1> QED
  BY <1>5, <1>6, <1>7

-----------------------------------------------------------------------------
(* The theorems.                                                           *)

LEMMA InitOK ==
  ASSUME Init
  PROVE IInv
<1>1. /\ primary = <<Theirs>> /\ torn = FALSE /\ versions = {}
      /\ log = <<Ours>> /\ graph = <<>> /\ columns = 0 /\ id = Ours /\ sidecar = NoId
      /\ pc = "probe" /\ from = 0 /\ expected = <<>> /\ response = Lost
      /\ damaged = FALSE /\ glued = FALSE /\ overlooked = FALSE /\ faults = 0
  BY DEF Init
<1>2. SourceOK
  <2>1. Theirs \in Lines /\ MaxLog \in Nat \ {0} /\ MaxVersions \in Nat
    BY FollowerAssumption DEF Lines
  <2>2. <<Theirs>> \in Seq(Lines) /\ Len(<<Theirs>>) = 1
    BY <2>1
  <2>3. Cardinality(versions) = 0
    BY <1>1, FS_EmptySet
  <2> QED
    <3>1. Len(primary) \in 1 .. MaxLog
      BY <1>1, <2>1, <2>2
    <3>2. Cardinality(versions) <= MaxVersions
      BY <2>1, <2>3
    <3> QED
      BY <1>1, <2>2, <3>1, <3>2 DEF SourceOK
<1>3. LocalOK
  <2>1. Ours \in Records /\ MaxFaults \in Nat
    BY FollowerAssumption DEF Records
  <2>2. <<Ours>> \in Seq(Records) /\ <<>> \in Seq(Records) /\ <<>> \in Seq(Ops) /\ 0 \in 0 .. Len(<<>>)
    BY <2>1
  <2>3. response \in [status : {0, 200, 409}, body : Seq(Records)]
    BY <1>1, <2>2 DEF Lost
  <2> QED
    <3>1. columns \in 0 .. Len(graph) /\ faults \in 0 .. MaxFaults
      BY <1>1, <2>1, <2>2
    <3> QED
      BY <1>1, <2>2, <2>3, <3>1 DEF LocalOK
<1>4. Heads
  <2>1. Theirs \in Lines
    BY DEF Lines
  <2>2. <<Theirs>> \in Seq(Lines) /\ <<Theirs>> # <<>> /\ <<Theirs>>[1] = Theirs
    BY <2>1
  <2> QED
    BY <1>1, <2>2, FS_EmptySet DEF Heads
<1>5. GraphIsLog
  <2>1. Ours \in Records /\ Ours \notin Ops
    BY RecordsAssumption DEF Records
  <2> DEFINE l == <<Ours>>
  <2>2. l \in Seq(Records) /\ l # <<>> /\ l[1] \notin Ops /\ Len(l) = 1
    BY <2>1
  <2> HIDE DEF l
  <2>3. OpsOf(l) \in Seq(Records \cap Ops) /\ Len(OpsOf(l)) < 1
    BY <2>2, OpsOfType
  <2>4. OpsOf(l) = <<>>
    <3>1. Len(OpsOf(l)) = 0
      BY <2>3
    <3> QED
      BY <2>3, <3>1, EmptySeq
  <2>5. Len(<<>>) = 0
    OBVIOUS
  <2> QED
    BY <1>1, <2>4, <2>5 DEF GraphIsLog, l
<1>6. Headed /\ Asked /\ Answered /\ CopyOfPrimary
  BY <1>1 DEF Headed, HeadedLog, Asked, Answered, CopyOfPrimary
<1> QED
  BY <1>2, <1>3, <1>4, <1>5, <1>6, TypeParts DEF IInv

LEMMA StandbyStep ==
  ASSUME IInv, Poll \/ FetchFails \/ ApplyFails \/ ResetFails \/ Kill \/ Stop
  PROVE IInv'
<1>1. LocalOK' /\ Headed' /\ Asked' /\ Answered' /\ CopyOfPrimary' /\ GraphIsLog'
  <2>1. CASE Probe
    BY <2>1, ProbeStep
  <2>2. CASE Fetch
    BY <2>2, FetchStep
  <2>3. CASE FetchFails \/ Resync \/ NothingApplied
    BY <2>3, MovesOn
  <2>4. CASE Apply
    BY <2>4, ApplyStep
  <2>5. CASE ApplyFails
    BY <2>5, ApplyFailsStep
  <2>6. CASE Reset \/ ResetFails
    BY <2>6, ResetStep
  <2>7. CASE FetchSidecar
    BY <2>7, FetchSidecarStep
  <2>8. CASE Kill \/ Stop
    BY <2>8, KillStep
  <2> QED
    BY <2>1, <2>2, <2>3, <2>4, <2>5, <2>6, <2>7, <2>8 DEF Poll
<1>2. UNCHANGED source
  BY DEF Poll, Probe, Fetch, FetchFails, Resync, NothingApplied, Apply, ApplyFails, Reset,
         ResetFails, FetchSidecar, Kill, Stop
<1>3. SourceOK' /\ Heads'
  BY <1>2, SourceKept, TypeParts DEF IInv
<1> QED
  BY <1>1, <1>3, TypeParts, PTL DEF IInv

LEMMA Stutter ==
  ASSUME IInv, UNCHANGED vars
  PROVE IInv'
BY DEF IInv, TypeOK, Heads, Headed, HeadedLog, Asked, Answered, AnswerOf, Had, Diverged, CopyOfPrimary,
       GraphIsLog, vars, source, local, request, history

LEMMA InductiveInvariant == Spec => []IInv
<1>1. Init => IInv
  BY InitOK
<1>2. IInv /\ [Next]_vars => IInv'
  <2>1. SUFFICES ASSUME IInv, [Next]_vars PROVE IInv'
    OBVIOUS
  <2>2. CASE Poll \/ FetchFails \/ ApplyFails \/ ResetFails \/ Kill \/ Stop
    BY <2>1, <2>2, StandbyStep
  <2>3. CASE (\E op \in Ops : Write(op)) \/ WriteFails \/ RestartPrimary \/ Rewrite
    BY <2>1, <2>3, PrimaryStep
  <2>4. CASE UNCHANGED vars
    BY <2>1, <2>4, Stutter
  <2> QED
    BY <2>1, <2>2, <2>3, <2>4 DEF Next
<1> QED
  BY <1>1, <1>2, PTL DEF Spec

\* The log of the standby is a prefix of a log that the primary has or had
\* (serve.rs:804), for every overlap, length of log and number of faults: but for
\* an overlap that agreed by chance, or what an error left in the log.
THEOREM CopiesPrimary == Spec => []CopyOfPrimary
<1>1. IInv => CopyOfPrimary
  BY DEF IInv
<1> QED
  BY <1>1, InductiveInvariant, PTL

\* The standby is typed in every state, and serves the graph its log says, with
\* a column for each edge (serve.rs:828), unless an error of its disk has left the
\* two apart.
THEOREM ServesItsLog == Spec => []WellFormed
<1>1. IInv => WellFormed
  BY DEF IInv, WellFormed
<1> QED
  BY <1>1, InductiveInvariant, PTL
=============================================================================
