------------------------------ MODULE SeqLemmas ------------------------------
(***************************************************************************)
(* What the operators on sequences that the models use return: Append,     *)
(* Front, Head, Tail, RemoveAt, RemoveFirst, Without; and sums.            *)
(***************************************************************************)
EXTENDS Seqs, SequencesExt, TLAPS, SequenceTheorems,
        FiniteSetTheorems, WellFoundedInduction

LEMMA IsSeqIntro ==
  ASSUME NEW S, NEW s \in Seq(S)
  PROVE  IsSeq(s)
  BY DEF IsSeq

LEMMA AppendIsSeq ==
  ASSUME NEW s, IsSeq(s), NEW e
  PROVE  /\ IsSeq(Append(s, e))
         /\ Len(Append(s, e)) = Len(s) + 1
         /\ \A k \in DOMAIN s : Append(s, e)[k] = s[k]
         /\ DOMAIN Append(s, e) = 1 .. (Len(s) + 1)
         /\ DOMAIN s = 1 .. Len(s) /\ Len(s) \in Nat
         /\ Append(s, e)[Len(s) + 1] = e
         /\ \A k \in DOMAIN Append(s, e) :
              Append(s, e)[k] = e \/ (k \in DOMAIN s /\ Append(s, e)[k] = s[k])
  <1> DEFINE S == {s[j] : j \in DOMAIN s} \union {e}
  <1>1. s \in Seq({s[j] : j \in DOMAIN s}) BY DEF IsSeq
  <1>2. s \in Seq(S) BY <1>1
  <1>3. e \in S OBVIOUS
  <1> HIDE DEF S
  <1>4. /\ Append(s, e) \in Seq(S)
        /\ Len(Append(s, e)) = Len(s) + 1
        /\ \A k \in 1 .. Len(s) : Append(s, e)[k] = s[k]
        /\ Append(s, e)[Len(s) + 1] = e
    BY <1>2, <1>3, AppendProperties
  <1>5. IsSeq(Append(s, e))
    BY <1>4, IsSeqIntro
  <1>6. DOMAIN s = 1 .. Len(s) /\ Len(s) \in Nat
    BY <1>2
  <1>7. DOMAIN Append(s, e) = 1 .. (Len(s) + 1)
    BY <1>4
  <1> QED BY <1>4, <1>5, <1>6, <1>7

LEMMA OneElement ==
  ASSUME NEW S, NEW e \in S, NEW s, s = [i \in 1 .. 1 |-> e]
  PROVE  s \in Seq(S) /\ Len(s) = 1 /\ s[1] = e
  <1>1. s \in [1 .. 1 -> S] /\ 1 \in Nat
    OBVIOUS
  <1>2. s \in Seq(S)
    BY <1>1, IsASeq
  <1> QED BY <1>1, <1>2

LEMMA FrontIsSeq ==
  ASSUME NEW s, IsSeq(s), s # << >>
  PROVE  /\ IsSeq(Front(s))
         /\ Len(s) \in Nat \ {0} /\ DOMAIN s = 1 .. Len(s)
         /\ Len(Front(s)) = Len(s) - 1 /\ DOMAIN Front(s) = 1 .. Len(s) - 1
         /\ \A k \in 1 .. Len(s) - 1 : Front(s)[k] = s[k]
  <1> DEFINE S == {s[j] : j \in DOMAIN s}
  <1>1. s \in Seq(S) BY DEF IsSeq
  <1> HIDE DEF S
  <1>2. Len(s) \in Nat \ {0} /\ DOMAIN s = 1 .. Len(s)
    BY <1>1, EmptySeq
  <1>3. /\ Front(s) \in Seq(S) /\ Len(Front(s)) = Len(s) - 1
        /\ \A k \in 1 .. Len(s) - 1 : Front(s)[k] = s[k]
    <2>1. \A k \in 1 .. Len(s) - 1 : s[k] \in S
      BY <1>1, <1>2
    <2> QED BY <1>2, <2>1, SubSeqProperties DEF Front
  <1>4. IsSeq(Front(s)) /\ DOMAIN Front(s) = 1 .. Len(s) - 1
    BY <1>2, <1>3, IsSeqIntro
  <1> QED BY <1>2, <1>3, <1>4

LEMMA FrontOfAppend ==
  ASSUME NEW s, IsSeq(s), NEW e
  PROVE  Front(Append(s, e)) = s /\ Last(Append(s, e)) = e
  <1> DEFINE a == Append(s, e)
             S == {s[j] : j \in DOMAIN s}
  <1>1. /\ IsSeq(a) /\ Len(a) = Len(s) + 1 /\ Len(s) \in Nat
        /\ \A k \in DOMAIN s : a[k] = s[k]
        /\ DOMAIN s = 1 .. Len(s) /\ a[Len(s) + 1] = e
    BY AppendIsSeq
  <1>2. s \in Seq(S) BY DEF IsSeq
  <1> HIDE DEF a, S
  <1>3. \A k \in 1 .. Len(s) : a[k] \in S
    BY <1>1, <1>2
  <1>4. /\ Front(a) \in Seq(S) /\ Len(Front(a)) = Len(s)
        /\ \A k \in 1 .. Len(s) : Front(a)[k] = s[k]
    BY <1>1, <1>3, SubSeqProperties DEF Front
  <1>5. Front(a) = s
    BY <1>2, <1>4, SeqEqual
  <1> QED BY <1>1, <1>5 DEF a, Last

LEMMA HeadAndTail ==
  ASSUME NEW S, NEW s \in Seq(S), s # << >>
  PROVE  /\ Head(s) \in S /\ Tail(s) \in Seq(S)
         /\ s = << Head(s) >> \o Tail(s)
  <1>1. Len(s) \in Nat \ {0}
    BY EmptySeq
  <1>2. /\ Head(s) \in S /\ Tail(s) \in Seq(S)
        /\ Len(Tail(s)) = Len(s) - 1
        /\ \A k \in 1 .. Len(Tail(s)) : Tail(s)[k] = s[k + 1]
    BY HeadTailProperties
  <1>3. Head(s) = s[1]
    BY <1>1
  <1> DEFINE h == << Head(s) >>
             w == Tail(s)
  <1>4. /\ h \in Seq(S) /\ Len(h) = 1 /\ h[1] = s[1]
        /\ w \in Seq(S) /\ Len(w) = Len(s) - 1
    BY <1>2, <1>3
  <1> HIDE DEF h, w
  <1>5. /\ h \o w \in Seq(S) /\ Len(h \o w) = Len(h) + Len(w)
        /\ \A k \in 1 .. Len(h) + Len(w) :
             (h \o w)[k] = IF k <= Len(h) THEN h[k] ELSE w[k - Len(h)]
    BY <1>4, ConcatProperties
  <1>6. Len(h \o w) = Len(s)
    BY <1>1, <1>2, <1>4, <1>5 DEF w
  <1>7. ASSUME NEW k \in 1 .. Len(s)
        PROVE  (h \o w)[k] = s[k]
    <2>1. CASE k = 1
      BY <2>1, <1>1, <1>2, <1>4, <1>5 DEF w
    <2>2. CASE k # 1
      <3>1. k - 1 \in 1 .. Len(w)
        BY <2>2, <1>1, <1>2 DEF w
      <3>2. (h \o w)[k] = w[k - 1]
        BY <2>2, <3>1, <1>1, <1>4, <1>5, <1>6
      <3>3. w[k - 1] = s[(k - 1) + 1]
        BY <3>1, <1>2 DEF w
      <3> QED BY <3>2, <3>3
    <2> QED BY <2>1, <2>2
  <1>8. h \o w = s
    BY <1>5, <1>6, <1>7, SeqEqual
  <1> QED BY <1>2, <1>8 DEF h, w

LEMMA RemoveAtType ==
  ASSUME NEW S, NEW s \in Seq(S), NEW i \in 1 .. Len(s)
  PROVE  /\ RemoveAt(s, i) \in Seq(S)
         /\ Len(RemoveAt(s, i)) = Len(s) - 1
  <1> DEFINE a == SubSeq(s, 1, i - 1)
             b == SubSeq(s, i + 1, Len(s))
  <1>1. a \in Seq(S) /\ Len(a) = i - 1
    BY SubSeqProperties
  <1>2. b \in Seq(S) /\ Len(b) = Len(s) - i
    BY SubSeqProperties
  <1>3. RemoveAt(s, i) = a \o b
    BY DEF RemoveAt
  <1>4. Len(s) \in Nat
    OBVIOUS
  <1> HIDE DEF a, b
  <1>5. a \o b \in Seq(S) /\ Len(a \o b) = Len(a) + Len(b)
    BY <1>1, <1>2
  <1> QED BY <1>1, <1>2, <1>3, <1>4, <1>5

LEMMA RemoveAtIsSeq ==
  ASSUME NEW s, IsSeq(s), NEW i \in 1 .. Len(s)
  PROVE  /\ IsSeq(RemoveAt(s, i))
         /\ \A k \in DOMAIN RemoveAt(s, i) :
              \E j \in DOMAIN s : RemoveAt(s, i)[k] = s[j]
  <1> DEFINE S == {s[j] : j \in DOMAIN s}
  <1>1. s \in Seq(S) BY DEF IsSeq
  <1>2. RemoveAt(s, i) \in Seq(S) BY <1>1, RemoveAtType
  <1>3. \A k \in DOMAIN RemoveAt(s, i) : RemoveAt(s, i)[k] \in S
    BY <1>2
  <1> QED BY <1>2, <1>3, IsSeqIntro

LEMMA RemoveAtIndex ==
  ASSUME NEW S, NEW s \in Seq(S), NEW p \in 1 .. Len(s)
  PROVE  /\ Len(RemoveAt(s, p)) = Len(s) - 1 /\ Len(s) \in Nat
         /\ DOMAIN RemoveAt(s, p) = 1 .. (Len(s) - 1)
         /\ \A k \in 1 .. (Len(s) - 1) :
              RemoveAt(s, p)[k] = IF k < p THEN s[k] ELSE s[k + 1]
  <1> DEFINE a == SubSeq(s, 1, p - 1)
             b == SubSeq(s, p + 1, Len(s))
  <1>1. Len(s) \in Nat /\ p \in Int
    OBVIOUS
  <1>2. a \in Seq(S) /\ Len(a) = p - 1 /\ \A k \in 1 .. (p - 1) : a[k] = s[k]
    BY <1>1, SubSeqProperties
  <1>3. b \in Seq(S) /\ Len(b) = Len(s) - p /\ \A k \in 1 .. (Len(s) - p) : b[k] = s[p + k]
    BY <1>1, SubSeqProperties
  <1>4. RemoveAt(s, p) = a \o b
    BY DEF RemoveAt
  <1> HIDE DEF a, b
  <1>5. Len(RemoveAt(s, p)) = Len(s) - 1 /\ DOMAIN RemoveAt(s, p) = 1 .. (Len(s) - 1)
    BY <1>1, <1>2, <1>3, <1>4
  <1>6. ASSUME NEW k \in 1 .. (Len(s) - 1)
        PROVE  RemoveAt(s, p)[k] = IF k < p THEN s[k] ELSE s[k + 1]
    <2>1. CASE k < p
      BY <1>1, <1>2, <1>3, <1>4, <2>1
    <2>2. CASE ~(k < p)
      <3>1. k - (p - 1) \in 1 .. (Len(s) - p)
        BY <1>1, <2>2
      <3>2. RemoveAt(s, p)[k] = b[k - (p - 1)]
        BY <1>1, <1>2, <1>3, <1>4, <2>2
      <3>3. b[k - (p - 1)] = s[k + 1]
        BY <1>1, <1>3, <3>1
      <3> QED BY <2>2, <3>2, <3>3
    <2> QED BY <2>1, <2>2
  <1> QED BY <1>1, <1>5, <1>6

LEMMA Between ==
  ASSUME NEW n \in Nat, NEW k \in 1 .. n, k # n
  PROVE  /\ k \in 1 .. n - 1 /\ k + 1 \in 1 .. n
         /\ \A i \in Nat : ~ (k < i) => k \in i .. n /\ k + 1 \in i .. n
  OBVIOUS

LEMMA LeastIndex ==
  ASSUME NEW T, T \subseteq Nat, T # {}
  PROVE  Min(T) \in T /\ \A y \in T : Min(T) <= y
  <1> DEFINE Less == {p \in Nat \X Nat : p[1] < p[2]}
  <1>1. IsWellFoundedOn(Less, Nat)
    BY NatLessThanWellFounded DEF OpToRel
  <1>2. \E x \in T : \A y \in T : ~ (<<y, x>> \in Less)
    <2> HIDE DEF Less
    <2> QED BY <1>1, WFMin
  <1>3. PICK x \in T : \A y \in T : x <= y
    <2>1. PICK x \in T : \A y \in T : ~ (<<y, x>> \in Less)
      BY <1>2
    <2>2. \A y \in T : ~ (y < x)
      BY <2>1
    <2> QED BY <2>2
  <1> QED BY <1>3 DEF Min

LEMMA RemoveFirstAt ==
  ASSUME NEW S, NEW s \in Seq(S), NEW x,
         \E i \in 1 .. Len(s) : s[i] = x
  PROVE  \E i \in 1 .. Len(s) :
           /\ s[i] = x /\ RemoveFirst(s, x) = RemoveAt(s, i)
           /\ \A j \in 1 .. Len(s) : s[j] = x => i <= j
  <1> DEFINE I == {i \in 1 .. Len(s) : s[i] = x}
  <1>1. I \subseteq Nat /\ I # {}
    OBVIOUS
  <1>2. Min(I) \in I /\ \A y \in I : Min(I) <= y
    <2> HIDE DEF I
    <2> QED BY <1>1, LeastIndex
  <1>3. RemoveFirst(s, x) = RemoveAt(s, Min(I))
    BY <1>1 DEF RemoveFirst, SelectInSeq
  <1> QED BY <1>2, <1>3

LEMMA RemoveFirstType ==
  ASSUME NEW S, NEW s \in Seq(S), NEW x
  PROVE  RemoveFirst(s, x) \in Seq(S)
  <1>1. CASE \E i \in 1 .. Len(s) : s[i] = x
    <2>1. PICK i \in 1 .. Len(s) : RemoveFirst(s, x) = RemoveAt(s, i)
      BY <1>1, RemoveFirstAt
    <2> QED BY <2>1, RemoveAtType, RemoveAtIndex
  <1>2. CASE ~ \E i \in 1 .. Len(s) : s[i] = x
    BY <1>2 DEF RemoveFirst
  <1> QED BY <1>1, <1>2

LEMMA ConcatOne ==
  ASSUME NEW S, NEW s \in Seq(S), NEW t \in Seq(S), Len(t) = 1
  PROVE  /\ Len(s) \in Nat /\ DOMAIN s = 1 .. Len(s)
         /\ DOMAIN (s \o t) = 1 .. (Len(s) + 1)
         /\ \A c \in 1 .. Len(s) : (s \o t)[c] = s[c]
         /\ (s \o t)[Len(s) + 1] = t[1]
  <1>1. Len(s) \in Nat /\ DOMAIN s = 1 .. Len(s)
    OBVIOUS
  <1>b. s \o t \in Seq(S) /\ Len(s \o t) = Len(s) + Len(t)
    BY ConcatProperties
  <1>2. s \o t \in Seq(S) /\ Len(s \o t) = Len(s) + 1
    BY <1>1, <1>b
  <1>a. \A c \in 1 .. Len(s) + Len(t) :
          (s \o t)[c] = IF c <= Len(s) THEN s[c] ELSE t[c - Len(s)]
    BY ConcatProperties
  <1> DEFINE u == s \o t
             n == Len(s)
  <1> HIDE DEF u, n
  <1>3. \A c \in 1 .. n : u[c] = s[c]
    BY <1>1, <1>a DEF u, n
  <1>4. u[n + 1] = t[1]
    <2>1. n + 1 \in 1 .. n + Len(t) /\ ~(n + 1 <= n) /\ (n + 1) - n = 1
      BY <1>1 DEF n
    <2> QED BY <1>a, <2>1 DEF u, n
  <1>5. DOMAIN (s \o t) = 1 .. (Len(s) + 1)
    BY <1>2
  <1> QED BY <1>1, <1>3, <1>4, <1>5 DEF u, n

-----------------------------------------------------------------------------
(***************************************************************************)
(* Recursive functions: induction on the naturals, and that there is a     *)
(* function for a recursion that says how each value follows from the one  *)
(* before.                                                                 *)
(***************************************************************************)
\* Induction on the naturals, over a set.
LEMMA InductionOnNat ==
  ASSUME NEW S, 0 \in S, \A n \in Nat : n \in S => n + 1 \in S
  PROVE  \A n \in Nat : n \in S
  <1> DEFINE T == {n \in Nat : n \notin S}
  <1> SUFFICES ASSUME T # {} PROVE FALSE
    OBVIOUS
  <1> DEFINE m == Min(T)
  <1>1. T \subseteq Nat
    OBVIOUS
  <1>2. m \in T /\ \A y \in T : m <= y
    <2> HIDE DEF T
    <2> QED BY <1>1, LeastIndex
  <1> HIDE DEF m
  <1>3. m \in Nat /\ m \notin S /\ m # 0
    BY <1>2
  <1>4. m - 1 \in Nat /\ ~(m <= m - 1)
    BY <1>3
  <1>5. m - 1 \in S
    BY <1>2, <1>4
  <1>6. (m - 1) + 1 = m
    BY <1>3
  <1> QED BY <1>3, <1>4, <1>5, <1>6

\* h follows step from base, up to n.
Follows(h, base, step, n) ==
  h[0] = base /\ \A k \in 0 .. n - 1 : h[k + 1] = step[k][h[k]]

LEMMA FollowsAgree ==
  ASSUME NEW base, NEW step, NEW m \in Nat, NEW n \in Nat, NEW h, NEW g,
         Follows(h, base, step, m), Follows(g, base, step, n), m <= n
  PROVE  h[m] = g[m]
  <1> DEFINE S == {k \in Nat : k <= m => h[k] = g[k]}
  <1>1. 0 \in S
    BY DEF Follows
  <1>2. ASSUME NEW k \in Nat, k \in S PROVE k + 1 \in S
    <2> SUFFICES ASSUME k + 1 <= m PROVE h[k + 1] = g[k + 1]
      OBVIOUS
    <2>1. k \in 0 .. m - 1 /\ k \in 0 .. n - 1 /\ h[k] = g[k]
      BY <1>2
    <2> QED BY <2>1 DEF Follows
  <1>3. \A k \in Nat : k \in S
    <2> HIDE DEF S
    <2> QED BY <1>1, <1>2, InductionOnNat
  <1> QED BY <1>3

\* h follows step from base for ever, and stays in V.
FollowsIn(h, V, base, step) ==
  h \in [Nat -> V] /\ h[0] = base /\ \A k \in Nat : h[k + 1] = step[k][h[k]]

StaysIn(step, V) == \A k \in Nat : \A v \in V : step[k][v] \in V

\* A function defined by recursion on the naturals there is.
LEMMA RecursionOnNat ==
  ASSUME NEW V, NEW base \in V, NEW step, StaysIn(step, V)
  PROVE  \E g : FollowsIn(g, V, base, step)
  <1> DEFINE Approx(n) == {h \in [0 .. n -> V] : Follows(h, base, step, n)}
             S == {n \in Nat : Approx(n) # {}}
  <1>a. \A k \in Nat : \A v \in V : step[k][v] \in V
    BY DEF StaysIn
  <1>1. 0 \in S
    <2>1. [k \in 0 .. 0 |-> base] \in Approx(0)
      BY DEF Follows
    <2> QED BY <2>1
  <1>2. ASSUME NEW n \in Nat, n \in S PROVE n + 1 \in S
    <2>1. PICK h \in [0 .. n -> V] : Follows(h, base, step, n)
      BY <1>2
    <2> DEFINE g == [k \in 0 .. n + 1 |-> IF k <= n THEN h[k] ELSE step[n][h[n]]]
    <2>2. g \in [0 .. n + 1 -> V]
      BY <1>a
    <2>3. g[0] = base
      BY <2>1 DEF Follows
    <2>4. ASSUME NEW k \in 0 .. (n + 1) - 1 PROVE g[k + 1] = step[k][g[k]]
      <3>1. CASE k = n
        BY <3>1
      <3>2. CASE k # n
        <4>1. k \in 0 .. n - 1 /\ k + 1 <= n /\ k <= n
          BY <3>2
        <4> QED BY <2>1, <4>1 DEF Follows
      <3> QED BY <3>1, <3>2
    <2>5. g \in Approx(n + 1)
      BY <2>2, <2>3, <2>4 DEF Follows
    <2> QED BY <2>5
  <1>3. \A n \in Nat : n \in S
    <2> HIDE DEF S
    <2> QED BY <1>1, <1>2, InductionOnNat
  <1> DEFINE pick(n) == CHOOSE h \in [0 .. n -> V] : Follows(h, base, step, n)
             g == [n \in Nat |-> pick(n)[n]]
  <1>4. ASSUME NEW n \in Nat
        PROVE  pick(n) \in [0 .. n -> V] /\ Follows(pick(n), base, step, n)
    <2>1. \E h \in [0 .. n -> V] : Follows(h, base, step, n)
      BY <1>3
    <2> QED BY <2>1
  <1> HIDE DEF pick
  <1>5. g \in [Nat -> V]
    BY <1>4
  <1>6. g[0] = base
    BY <1>4 DEF Follows
  <1>7. ASSUME NEW k \in Nat PROVE g[k + 1] = step[k][g[k]]
    <2>1. Follows(pick(k), base, step, k) /\ Follows(pick(k + 1), base, step, k + 1)
      BY <1>4
    <2>2. pick(k)[k] = pick(k + 1)[k]
      BY <2>1, FollowsAgree
    <2>3. pick(k + 1)[k + 1] = step[k][pick(k + 1)[k]]
      <3>1. k \in 0 .. (k + 1) - 1
        OBVIOUS
      <3> QED BY <2>1, <3>1 DEF Follows
    <2> QED BY <2>2, <2>3
  <1> QED BY <1>5, <1>6, <1>7 DEF FollowsIn

-----------------------------------------------------------------------------
(***************************************************************************)
(* Without leaves elements out and changes nothing else.                   *)
(***************************************************************************)
Growing(f, s, drop) ==
  f = [k \in 0 .. Len(s) |->
         IF k = 0 THEN << >> ELSE IF drop[k] THEN f[k - 1] ELSE Append(f[k - 1], s[k])]

LEMMA GrowingIs ==
  ASSUME NEW S, NEW s \in Seq(S), NEW drop
  PROVE  \E f : Growing(f, s, drop)
  <1> DEFINE step == [k \in Nat |-> [v \in Seq(S) |->
                IF k + 1 \in 1 .. Len(s) /\ ~drop[k + 1] THEN Append(v, s[k + 1]) ELSE v]]
  <1>1. \A k \in Nat : \A v \in Seq(S) : step[k][v] \in Seq(S)
    <2> SUFFICES ASSUME NEW k \in Nat, NEW v \in Seq(S) PROVE step[k][v] \in Seq(S)
      OBVIOUS
    <2>1. CASE k + 1 \in 1 .. Len(s) /\ ~drop[k + 1]
      <3>1. s[k + 1] \in S
        BY <2>1
      <3> QED BY <2>1, <3>1
    <2>2. CASE ~(k + 1 \in 1 .. Len(s) /\ ~drop[k + 1])
      BY <2>2
    <2> QED BY <2>1, <2>2
  <1>2. << >> \in Seq(S)
    OBVIOUS
  <1>3. PICK g : FollowsIn(g, Seq(S), << >>, step)
    <2>1. StaysIn(step, Seq(S))
      BY <1>1 DEF StaysIn
    <2> HIDE DEF step
    <2> QED BY <1>2, <2>1, RecursionOnNat
  <1> HIDE DEF step
  <1> DEFINE f == [k \in 0 .. Len(s) |-> g[k]]
  <1>4. Len(s) \in Nat
    OBVIOUS
  <1>5. ASSUME NEW k \in 0 .. Len(s)
        PROVE  f[k] = IF k = 0 THEN << >> ELSE IF drop[k] THEN f[k - 1] ELSE Append(f[k - 1], s[k])
    <2>1. CASE k = 0
      BY <1>3, <2>1 DEF FollowsIn
    <2>2. CASE k # 0
      <3>1. k - 1 \in Nat /\ k - 1 \in 0 .. Len(s) /\ (k - 1) + 1 = k /\ k \in 1 .. Len(s)
        BY <1>4, <2>2
      <3>2. g[k] = step[k - 1][g[k - 1]] /\ g[k - 1] \in Seq(S)
        BY <1>3, <3>1 DEF FollowsIn
      <3> QED BY <2>2, <3>1, <3>2 DEF step
    <2> QED BY <2>1, <2>2
  <1>6. f = [k \in 0 .. Len(s) |->
         IF k = 0 THEN << >> ELSE IF drop[k] THEN f[k - 1] ELSE Append(f[k - 1], s[k])]
    <2>1. f = [k \in 0 .. Len(s) |-> f[k]]
      OBVIOUS
    <2> HIDE DEF f
    <2> QED BY <1>5, <2>1
  <1> QED BY <1>6 DEF Growing

\* The elements of t are elements of s, in its order, each at most once.
Within(t, s, idx) ==
  /\ idx \in [1 .. Len(t) -> 1 .. Len(s)]
  /\ \A j \in 1 .. Len(t) : t[j] = s[idx[j]]
  /\ \A i, j \in 1 .. Len(t) : i < j => idx[i] < idx[j]

LEMMA WithoutIs ==
  ASSUME NEW S, NEW s \in Seq(S), NEW drop
  PROVE  \E f : Growing(f, s, drop) /\ Without(s, drop) = f[Len(s)]
  <1> DEFINE kept == CHOOSE f : Growing(f, s, drop)
  <1>1. Growing(kept, s, drop)
    BY GrowingIs
  <1>2. Without(s, drop) = kept[Len(s)]
    BY DEF Without, Growing
  <1> QED BY <1>1, <1>2

LEMMA WithoutWithin ==
  ASSUME NEW S, NEW s \in Seq(S), NEW drop
  PROVE  Without(s, drop) \in Seq(S) /\ \E idx : Within(Without(s, drop), s, idx)
  <1>1. PICK f : Growing(f, s, drop) /\ Without(s, drop) = f[Len(s)]
    BY WithoutIs
  <1>2. Len(s) \in Nat /\ DOMAIN s = 1 .. Len(s)
    OBVIOUS
  <1> DEFINE Good(k) == /\ f[k] \in Seq(S)
                        /\ \E idx \in [1 .. Len(f[k]) -> 1 .. k] :
                             /\ \A j \in 1 .. Len(f[k]) : f[k][j] = s[idx[j]]
                             /\ \A i, j \in 1 .. Len(f[k]) : i < j => idx[i] < idx[j]
             K == {k \in Nat : k <= Len(s) => Good(k)}
  <1>3. 0 \in K
    <2>1. f[0] = << >>
      BY <1>1, <1>2 DEF Growing
    <2>2. [j \in 1 .. 0 |-> 0] \in [1 .. Len(f[0]) -> 1 .. 0]
      BY <2>1
    <2>3. f[0] \in Seq(S) /\ 1 .. Len(f[0]) = {}
      BY <2>1
    <2> QED BY <2>2, <2>3
  <1>4. ASSUME NEW k \in Nat, k \in K PROVE k + 1 \in K
    <2> SUFFICES ASSUME k + 1 <= Len(s) PROVE Good(k + 1)
      OBVIOUS
    <2>1. Good(k)
      BY <1>2, <1>4
    <2>2. k + 1 \in 0 .. Len(s) /\ k + 1 # 0 /\ (k + 1) - 1 = k /\ k + 1 \in 1 .. Len(s)
      BY <1>2
    <2>3. f[k + 1] = IF drop[k + 1] THEN f[k] ELSE Append(f[k], s[k + 1])
      BY <1>1, <2>2 DEF Growing
    <2>4. PICK idx \in [1 .. Len(f[k]) -> 1 .. k] :
            /\ \A j \in 1 .. Len(f[k]) : f[k][j] = s[idx[j]]
            /\ \A i, j \in 1 .. Len(f[k]) : i < j => idx[i] < idx[j]
      BY <2>1
    <2> DEFINE u == f[k]
               n == Len(u)
    <2>5. u \in Seq(S) /\ n \in Nat
      BY <2>1
    <2>6. CASE drop[k + 1]
      <3>1. f[k + 1] = u
        BY <2>3, <2>6
      <3>2. idx \in [1 .. n -> 1 .. k + 1]
        BY <2>4
      <3> QED BY <2>4, <2>5, <3>1, <3>2
    <2>7. CASE ~drop[k + 1]
      <3> DEFINE v == f[k + 1]
                 idx2 == [j \in 1 .. n + 1 |-> IF j <= n THEN idx[j] ELSE k + 1]
      <3>1. v = Append(u, s[k + 1]) /\ s[k + 1] \in S
        BY <1>2, <2>2, <2>3, <2>7
      <3> HIDE DEF u, v
      <3>2. /\ v \in Seq(S) /\ Len(v) = n + 1 /\ v[n + 1] = s[k + 1]
            /\ \A j \in 1 .. n : v[j] = u[j]
        BY <2>5, <3>1, AppendProperties
      <3>3. idx \in [1 .. n -> 1 .. k] /\ \A j \in 1 .. n : u[j] = s[idx[j]]
        BY <2>4 DEF u
      <3>4. \A i, j \in 1 .. n : i < j => idx[i] < idx[j]
        BY <2>4 DEF u
      <3>5. idx2 \in [1 .. Len(v) -> 1 .. k + 1]
        BY <2>5, <3>2, <3>3
      <3>6. \A j \in 1 .. Len(v) : v[j] = s[idx2[j]]
        BY <2>5, <3>2, <3>3
      <3>7. \A j \in 1 .. n + 1 : idx2[j] = IF j <= n THEN idx[j] ELSE k + 1
        OBVIOUS
      <3> HIDE DEF idx2, n
      <3>a. ASSUME NEW i \in 1 .. Len(v), NEW j \in 1 .. Len(v), i < j
            PROVE  idx2[i] < idx2[j]
        <4>0. i \in 1 .. n + 1 /\ j \in 1 .. n + 1
          BY <3>2, <3>a DEF n
        <4>1. i \in 1 .. n
          BY <2>5, <4>0, <3>a
        <4>2. idx2[i] = idx[i] /\ idx[i] \in 1 .. k
          BY <2>5, <3>3, <3>7, <4>0, <4>1
        <4>3. CASE j <= n
          <5>1. j \in 1 .. n /\ idx2[j] = idx[j]
            BY <2>5, <3>7, <4>0, <4>3
          <5> QED BY <3>4, <3>a, <4>1, <4>2, <5>1
        <4>4. CASE ~(j <= n)
          <5>1. idx2[j] = k + 1
            BY <3>7, <4>0, <4>4
          <5> QED BY <4>2, <5>1
        <4> QED BY <4>3, <4>4
      <3>8. /\ v \in Seq(S)
            /\ \E i2 \in [1 .. Len(v) -> 1 .. k + 1] :
                 /\ \A j \in 1 .. Len(v) : v[j] = s[i2[j]]
                 /\ \A i, j \in 1 .. Len(v) : i < j => i2[i] < i2[j]
        BY <3>2, <3>5, <3>6, <3>a
      <3> QED BY <3>8 DEF v
    <2> QED BY <2>6, <2>7
  <1>5. \A k \in Nat : k \in K
    <2> HIDE DEF K
    <2> QED BY <1>3, <1>4, InductionOnNat
  <1>6. Good(Len(s))
    BY <1>2, <1>5
  <1> QED BY <1>1, <1>6 DEF Within

-----------------------------------------------------------------------------
(***************************************************************************)
(* SumFunction where every value is zero or one amount.                    *)
(***************************************************************************)
\* The recursion SumFunction is made of.
Summing(h, f) ==
  h = [s \in SUBSET DOMAIN f |->
         IF s = {} THEN 0
         ELSE LET x == CHOOSE x \in s : TRUE IN f[x] + h[s \ {x}]]

LEMMA SumIs ==
  ASSUME NEW f
  PROVE  SumFunction(f) = (CHOOSE h : Summing(h, f))[DOMAIN f]
  BY DEF SumFunction, SumFunctionOnSet, FoldFunctionOnSet, MapThenFoldSet, Summing

\* How many elements of s the function f gives r to.
Count(f, r, s) == Cardinality({x \in s : f[x] = r})

LEMMA CountStep ==
  ASSUME NEW s, IsFiniteSet(s), NEW f, NEW r, NEW x \in s
  PROVE  /\ Count(f, r, s) \in Nat /\ Count(f, r, s \ {x}) \in Nat
         /\ Count(f, r, s) = Count(f, r, s \ {x}) + (IF f[x] = r THEN 1 ELSE 0)
  <1> DEFINE A == {y \in s : f[y] = r}
             B == {y \in s \ {x} : f[y] = r}
  <1>1. A \in SUBSET s /\ B = A \ {x} /\ (x \in A <=> f[x] = r)
    OBVIOUS
  <1> HIDE DEF A, B
  <1>2. IsFiniteSet(A)
    BY <1>1, FS_Subset
  <1>3. Cardinality(A) \in Nat
    BY <1>2, FS_CardinalityType
  <1>4. /\ IsFiniteSet(A \ {x})
        /\ Cardinality(A \ {x}) = IF x \in A THEN Cardinality(A) - 1 ELSE Cardinality(A)
    BY <1>2, FS_RemoveElement
  <1>5. Cardinality(A \ {x}) \in Nat
    BY <1>4, FS_CardinalityType
  <1>6. Cardinality(A) = Cardinality(B) + (IF f[x] = r THEN 1 ELSE 0) /\ Cardinality(B) \in Nat
    BY <1>1, <1>3, <1>4, <1>5
  <1> QED BY <1>3, <1>6 DEF Count, A, B

\* The sum of a function that is zero or r is r as often as it is r.
LEMMA SumOfEqual ==
  ASSUME NEW D, IsFiniteSet(D), NEW r \in Nat \ {0}, NEW f \in [D -> {0, r}]
  PROVE  SumFunction(f) = r * Count(f, r, D) /\ Count(f, r, D) \in Nat
  <1> DEFINE g == [s \in SUBSET D |-> r * Count(f, r, s)]
  <1>1. ASSUME NEW s \in SUBSET D, NEW x \in s
        PROVE  /\ IsFiniteSet(s) /\ f[x] \in {0, r}
               /\ s \ {x} \in SUBSET D
               /\ Count(f, r, s) \in Nat /\ Count(f, r, s \ {x}) \in Nat
               /\ r * Count(f, r, s) = f[x] + r * Count(f, r, s \ {x})
    <2>1. IsFiniteSet(s) /\ f[x] \in {0, r} /\ s \ {x} \in SUBSET D
      BY FS_Subset
    <2>2. /\ Count(f, r, s) \in Nat /\ Count(f, r, s \ {x}) \in Nat
          /\ Count(f, r, s) = Count(f, r, s \ {x}) + (IF f[x] = r THEN 1 ELSE 0)
      BY <2>1, CountStep
    <2>3. \A n \in Nat : r * (n + 1) = r + r * n /\ r * n \in Nat
      OBVIOUS
    <2> QED BY <2>1, <2>2, <2>3
  <1>2. ASSUME NEW s \in SUBSET D, s # {}
        PROVE  (CHOOSE x \in s : TRUE) \in s
    BY <1>2
  <1>3. Count(f, r, {}) = 0
    <2>1. {x \in {} : f[x] = r} = {}
      OBVIOUS
    <2> QED BY <2>1, FS_EmptySet DEF Count
  <1>4. Summing(g, f)
    <2>1. ASSUME NEW s \in SUBSET D, s # {}
          PROVE  LET x == CHOOSE x \in s : TRUE IN g[s] = f[x] + g[s \ {x}]
      <3> DEFINE x == CHOOSE y \in s : TRUE
      <3>1. x \in s
        BY <1>2, <2>1
      <3> HIDE DEF x
      <3>2. g[s] = f[x] + g[s \ {x}]
        BY <1>1, <3>1
      <3> QED BY <3>2 DEF x
    <2>2. g[{}] = 0
      BY <1>3
    <2>3. g = [s \in SUBSET DOMAIN f |-> g[s]]
      OBVIOUS
    <2> HIDE DEF g
    <2>4. g = [s \in SUBSET DOMAIN f |->
                 IF s = {} THEN 0
                 ELSE LET x == CHOOSE x \in s : TRUE IN f[x] + g[s \ {x}]]
      BY <2>1, <2>2, <2>3
    <2> QED BY <2>4 DEF Summing
  <1> DEFINE h == CHOOSE h : Summing(h, f)
  <1>5. Summing(h, f)
    BY <1>4
  <1> HIDE DEF h, g
  <1>6. ASSUME NEW s \in SUBSET D
        PROVE  h[s] = IF s = {} THEN 0 ELSE LET x == CHOOSE x \in s : TRUE IN f[x] + h[s \ {x}]
    BY <1>5 DEF Summing
  <1> DEFINE Sized(n) == {s \in SUBSET D : Cardinality(s) = n}
             N == {n \in Nat : \A s \in Sized(n) : h[s] = r * Count(f, r, s)}
  <1>7. 0 \in N
    <2> SUFFICES ASSUME NEW s \in SUBSET D, Cardinality(s) = 0
                 PROVE  h[s] = r * Count(f, r, s)
      OBVIOUS
    <2>1. s = {}
      BY FS_Subset, FS_EmptySet
    <2> QED BY <1>3, <1>6, <2>1
  <1>8. ASSUME NEW n \in Nat, n \in N PROVE n + 1 \in N
    <2> SUFFICES ASSUME NEW s \in SUBSET D, Cardinality(s) = n + 1
                 PROVE  h[s] = r * Count(f, r, s)
      OBVIOUS
    <2>1. IsFiniteSet(s) /\ s # {}
      BY FS_Subset, FS_EmptySet
    <2> DEFINE x == CHOOSE y \in s : TRUE
    <2>2. x \in s
      BY <1>2, <2>1
    <2>3. h[s] = f[x] + h[s \ {x}]
      BY <1>6, <2>1
    <2> HIDE DEF x
    <2>4. Cardinality(s \ {x}) = n /\ s \ {x} \in SUBSET D
      <3> HIDE DEF N
      <3>1. Cardinality(s \ {x}) = Cardinality(s) - 1
        BY <2>1, <2>2, FS_RemoveElement
      <3>2. s \ {x} \in SUBSET D
        OBVIOUS
      <3> QED BY <3>1, <3>2
    <2>5. h[s \ {x}] = r * Count(f, r, s \ {x})
      BY <1>8, <2>4
    <2> QED BY <1>1, <2>2, <2>3, <2>5
  <1>9. \A n \in Nat : n \in N
    <2> HIDE DEF N
    <2> QED BY <1>7, <1>8, InductionOnNat
  <1>10. Cardinality(D) \in Nat
    BY FS_CardinalityType
  <1>11. h[D] = r * Count(f, r, D)
    BY <1>9, <1>10
  <1>12. SumFunction(f) = h[D]
    BY SumIs DEF h
  <1>13. Count(f, r, D) \in Nat
    <2>1. {x \in D : f[x] = r} \in SUBSET D
      OBVIOUS
    <2> HIDE DEF N
    <2>2. IsFiniteSet({x \in D : f[x] = r})
      BY <2>1, FS_Subset
    <2> QED BY <2>2, FS_CardinalityType DEF Count
  <1> QED BY <1>11, <1>12, <1>13

\* f is zero or r at each of finitely many places.
ZeroOr(r, f) == IsFiniteSet(DOMAIN f) /\ f \in [DOMAIN f -> {0, r}]

\* h finds for each place where f is r another one where g is.
Embeds(h, r, f, g) ==
  /\ h \in [DOMAIN f -> DOMAIN g]
  /\ \A x \in DOMAIN f : f[x] = r => g[h[x]] = r
  /\ \A x, y \in DOMAIN f : f[x] = r /\ f[y] = r /\ h[x] = h[y] => x = y

LEMMA SumAtMost ==
  ASSUME NEW r \in Nat \ {0}, NEW f, ZeroOr(r, f), NEW g, ZeroOr(r, g),
         NEW h, Embeds(h, r, f, g)
  PROVE  SumFunction(f) \in Nat /\ SumFunction(g) \in Nat /\ SumFunction(f) <= SumFunction(g)
  <1> DEFINE D == DOMAIN f
             E == DOMAIN g
  <1>a. /\ IsFiniteSet(D) /\ IsFiniteSet(E)
        /\ f \in [D -> {0, r}] /\ g \in [E -> {0, r}] /\ h \in [D -> E]
        /\ \A x \in D : f[x] = r => g[h[x]] = r
        /\ \A x, y \in D : f[x] = r /\ f[y] = r /\ h[x] = h[y] => x = y
    BY DEF ZeroOr, Embeds
  <1> HIDE DEF D, E
  <1> DEFINE A == {x \in D : f[x] = r}
             B == {x \in E : g[x] = r}
             i == [x \in A |-> h[x]]
  <1>1. i \in Injection(A, B)
    BY <1>a DEF Injection, IsInjective
  <1>2. IsFiniteSet(B)
    <2>1. B \in SUBSET E
      OBVIOUS
    <2> HIDE DEF B
    <2> QED BY <1>a, <2>1, FS_Subset
  <1>3. Cardinality(A) <= Cardinality(B)
    <2> HIDE DEF A, B, i
    <2> QED BY <1>1, <1>2, FS_Injection
  <1>4. Count(f, r, D) <= Count(g, r, E)
    BY <1>3 DEF Count
  <1>5. /\ SumFunction(f) = r * Count(f, r, D) /\ Count(f, r, D) \in Nat
        /\ SumFunction(g) = r * Count(g, r, E) /\ Count(g, r, E) \in Nat
    BY <1>a, SumOfEqual
  <1>6. \A m, n \in Nat : r * m \in Nat /\ (m <= n => r * m <= r * n)
    <2>1. ASSUME NEW m \in Nat, NEW n \in Nat, m <= n PROVE r * m <= r * n
      <3>1. n - m \in Nat /\ n = m + (n - m)
        BY <2>1
      <3>2. \A k \in Nat : r * (m + k) = r * m + r * k /\ r * k \in Nat /\ r * m \in Nat
        OBVIOUS
      <3>3. r * n = r * m + r * (n - m) /\ r * (n - m) \in Nat /\ r * m \in Nat
        BY <3>1, <3>2
      <3> QED BY <3>3
    <2> QED BY <2>1
  <1> QED BY <1>4, <1>5, <1>6

\* The sum is zero only if every value is.
LEMMA SumIsZero ==
  ASSUME NEW D, IsFiniteSet(D), NEW r \in Nat \ {0}, NEW f \in [D -> {0, r}],
         SumFunction(f) = 0
  PROVE  \A x \in D : f[x] = 0
  <1>1. SumFunction(f) = r * Count(f, r, D) /\ Count(f, r, D) \in Nat
    BY SumOfEqual
  <1>2. \A n \in Nat : r * n = 0 => n = 0
    OBVIOUS
  <1>3. Cardinality({x \in D : f[x] = r}) = 0
    BY <1>1, <1>2 DEF Count
  <1>4. IsFiniteSet({x \in D : f[x] = r})
    <2> DEFINE A == {x \in D : f[x] = r}
    <2>1. A \in SUBSET D
      OBVIOUS
    <2> HIDE DEF A
    <2>2. IsFiniteSet(A)
      BY <2>1, FS_Subset
    <2> QED BY <2>2 DEF A
  <1>5. {x \in D : f[x] = r} = {}
    BY <1>3, <1>4, FS_EmptySet
  <1> QED BY <1>5
=============================================================================
