----------------------------- MODULE WireProofs -----------------------------
(***************************************************************************)
(* Theorems about Wire and Codec, for every size of a number, a hash, a    *)
(* key and a command, every name of a command, every set of letters and    *)
(* every bound: a transaction and a block are read back from what was      *)
(* written of them, and written back as what they were read of; a          *)
(* connection on which no receive came short hands the items of a framed   *)
(* letter over in their order, each once and whole; one on which payloads  *)
(* came short puts nothing but zeros into an item of a plain letter.       *)
(*                                                                         *)
(* That the box is a prefix of what was sent is not inductive: it says     *)
(* nothing of the bytes that are still to come.  The invariant OnCourse    *)
(* says where in the stream of all sends the receiver is: which message it *)
(* is at and how much of it has been taken (AtMessage), and that the bytes *)
(* under way are exactly those of the stream from there to the last send   *)
(* that was made (Flow).  ZeroesInv says the same of a receiver a payload  *)
(* came short for: it has taken j bytes of the payload of the message it   *)
(* is at (CameTo), and what it takes for the next command are the others.  *)
(***************************************************************************)
EXTENDS Wire, SeqLemmas

-----------------------------------------------------------------------------
(***************************************************************************)
(* Numbers: the bytes a number is written as, and the number they are read *)
(* back as.                                                                *)
(***************************************************************************)
PowerStep == [k \in Nat |-> [v \in Nat \ {0} |-> Base * v]]

\* Power by its recursion: no number of bytes has no values.
LEMMA PowerIs ==
  /\ Power \in [Nat -> Nat \ {0}] /\ Power[0] = 1
  /\ \A k \in Nat : Power[k + 1] = Base * Power[k]
  <1> DEFINE F(f) == f = [i \in Nat |-> IF i = 0 THEN 1 ELSE Base * f[i - 1]]
  <1>1. Base \in Nat \ {0, 1}
    BY CodecSizes
  <1>2. PICK g : FollowsIn(g, Nat \ {0}, 1, PowerStep)
    <2>1. StaysIn(PowerStep, Nat \ {0})
      BY <1>1 DEF StaysIn, PowerStep
    <2>2. 1 \in Nat \ {0}
      OBVIOUS
    <2> QED BY <2>1, <2>2, RecursionOnNat
  <1>3. F(g)
    <2>1. ASSUME NEW i \in Nat PROVE g[i] = IF i = 0 THEN 1 ELSE Base * g[i - 1]
      <3>1. CASE i = 0
        BY <1>2, <3>1 DEF FollowsIn
      <3>2. CASE i # 0
        <4>1. i - 1 \in Nat /\ (i - 1) + 1 = i
          BY <3>2
        <4>2. g[i] = PowerStep[i - 1][g[i - 1]] /\ g[i - 1] \in Nat \ {0}
          BY <1>2, <4>1 DEF FollowsIn
        <4> QED BY <3>2, <4>1, <4>2 DEF PowerStep
      <3> QED BY <3>1, <3>2
    <2>2. g = [i \in Nat |-> g[i]]
      BY <1>2 DEF FollowsIn
    <2> QED BY <2>1, <2>2
  <1>4. F(Power)
    <2>1. Power = CHOOSE f : F(f)
      BY DEF Power
    <2> HIDE DEF F
    <2> QED BY <1>3, <2>1
  <1>5. Power[0] = 1
    BY <1>4
  <1>6. \A k \in Nat : Power[k + 1] = Base * Power[k]
    <2> SUFFICES ASSUME NEW k \in Nat PROVE Power[k + 1] = Base * Power[k]
      OBVIOUS
    <2>1. k + 1 \in Nat /\ k + 1 # 0 /\ (k + 1) - 1 = k
      OBVIOUS
    <2> QED BY <1>4, <2>1
  <1>7. \A k \in Nat : Power[k] \in Nat \ {0}
    <2> DEFINE T == {k \in Nat : Power[k] \in Nat \ {0}}
    <2>1. 0 \in T
      BY <1>5
    <2>2. ASSUME NEW k \in Nat, k \in T PROVE k + 1 \in T
      <3>1. Power[k] \in Nat \ {0} /\ k + 1 \in Nat
        BY <2>2
      <3>2. Base * Power[k] \in Nat \ {0}
        BY <1>1, <3>1
      <3> QED BY <1>6, <3>1, <3>2
    <2> HIDE DEF T
    <2>3. \A k \in Nat : k \in T
      BY <2>1, <2>2, InductionOnNat
    <2> QED BY <2>3 DEF T
  <1>8. Power = [k \in Nat |-> Power[k]]
    BY <1>4
  <1> QED BY <1>5, <1>6, <1>7, <1>8

\* Division by one's definition.
LEMMA DivModIs ==
  ASSUME NEW a \in Nat, NEW b \in Nat \ {0}, NEW q \in Nat, NEW r \in Nat,
         a = b * q + r, r < b
  PROVE  a \div b = q /\ a % b = r
  OBVIOUS

\* What division and remainder are.
LEMMA DivMod ==
  ASSUME NEW a \in Nat, NEW b \in Nat \ {0}
  PROVE  /\ a \div b \in Nat /\ a % b \in Nat /\ a % b < b
         /\ a = b * (a \div b) + (a % b)
  OBVIOUS

\* The remainder by one byte more.
LEMMA OneByteMore ==
  ASSUME NEW v \in Nat, NEW c \in Nat \ {0}, NEW m \in Nat \ {0}
  PROVE  v % (m * c) = (v % c) + c * ((v \div c) % m)
  <1> DEFINE q == v \div c
             r == v % c
             p == q \div m
             s == q % m
  <1>1. q \in Nat /\ r \in Nat /\ r < c /\ v = c * q + r
    BY DivMod
  <1>2. p \in Nat /\ s \in Nat /\ s < m /\ q = m * p + s
    BY <1>1, DivMod
  <1> HIDE DEF q, r, p, s
  <1>3. c * s + r \in Nat /\ c * s + r < m * c /\ m * c \in Nat \ {0}
    <2>1. s + 1 <= m
      BY <1>2
    <2>2. c * (s + 1) <= c * m
      BY <1>2, <2>1
    <2>3. c * (s + 1) = c * s + c /\ c * m = m * c /\ c * s \in Nat
      BY <1>2
    <2> QED BY <1>1, <2>2, <2>3
  <1>4. v = (m * c) * p + (c * s + r)
    BY <1>1, <1>2
  <1>5. v % (m * c) = c * s + r
    BY <1>2, <1>3, <1>4, DivModIs
  <1> QED BY <1>1, <1>2, <1>5 DEF q, r, s

\* The bytes b stand in data behind position p.
HasAt(data, p, b) == p + Len(b) <= Len(data) /\ \A i \in 1 .. Len(b) : data[p + i] = b[i]

\* The sizes, one by one.
LEMMA ByteIs == /\ Base \in Nat \ {0, 1} /\ IntSize \in Nat \ {0} /\ HashSize \in Nat
                /\ IntSize <= HashSize /\ KeySize \in Nat /\ SignatureSize \in Nat
                /\ 0 \in Byte /\ \A b \in Byte : b \in Nat /\ b < Base
  BY CodecSizes DEF Byte

\* What is read is a byte, past the end too.
LEMMA AtType ==
  ASSUME NEW data \in Seq(Byte), NEW i \in Nat \ {0}
  PROVE  At(data, i) \in Byte
  <1>1. CASE i <= Len(data)
    BY <1>1 DEF At
  <1>2. CASE ~(i <= Len(data))
    BY <1>2, ByteIs DEF At
  <1> QED BY <1>1, <1>2

\* The sums of the first bytes of a number.
Sums(f, data, p) ==
  /\ f \in [0 .. IntSize -> Nat] /\ f[0] = 0
  /\ \A k \in 0 .. IntSize - 1 : f[k + 1] = f[k] + Power[k] * At(data, p + (k + 1))

\* A number read is the last of its sums.
LEMMA IntAtSums ==
  ASSUME NEW data \in Seq(Byte), NEW p \in Nat
  PROVE  \E f : Sums(f, data, p) /\ IntAt(data, p) = f[IntSize]
  <1> DEFINE step == [k \in Nat |-> [v \in Nat |-> v + Power[k] * At(data, p + (k + 1))]]
             F(f) == f = [i \in 0 .. IntSize |->
                            IF i = 0 THEN 0 ELSE f[i - 1] + Power[i - 1] * At(data, p + i)]
  <1>0. IntSize \in Nat
    BY ByteIs
  <1>1. \A k \in Nat : At(data, p + (k + 1)) \in Nat
    <2> SUFFICES ASSUME NEW k \in Nat PROVE At(data, p + (k + 1)) \in Nat
      OBVIOUS
    <2>1. p + (k + 1) \in Nat \ {0}
      OBVIOUS
    <2> QED BY <2>1, AtType, ByteIs
  <1>2. \A k \in Nat : \A v \in Nat : step[k][v] \in Nat
    <2> SUFFICES ASSUME NEW k \in Nat, NEW v \in Nat PROVE step[k][v] \in Nat
      OBVIOUS
    <2>1. Power[k] \in Nat /\ At(data, p + (k + 1)) \in Nat
      BY <1>1, PowerIs
    <2>2. Power[k] * At(data, p + (k + 1)) \in Nat
      BY <2>1
    <2> QED BY <2>2
  <1>3. PICK g : FollowsIn(g, Nat, 0, step)
    <2>1. StaysIn(step, Nat)
      BY <1>2 DEF StaysIn
    <2> HIDE DEF step
    <2> QED BY <2>1, RecursionOnNat
  <1> DEFINE h == [i \in 0 .. IntSize |-> g[i]]
  <1>4. F(h)
    <2>1. ASSUME NEW i \in 0 .. IntSize
          PROVE  h[i] = IF i = 0 THEN 0 ELSE h[i - 1] + Power[i - 1] * At(data, p + i)
      <3>1. CASE i = 0
        BY <1>3, <3>1 DEF FollowsIn
      <3>2. CASE i # 0
        <4>1. i - 1 \in Nat /\ (i - 1) + 1 = i /\ i - 1 \in 0 .. IntSize
          BY <1>0, <3>2
        <4>2. g[i] = step[i - 1][g[i - 1]] /\ g[i - 1] \in Nat
          BY <1>3, <4>1 DEF FollowsIn
        <4> QED BY <3>2, <4>1, <4>2
      <3> QED BY <3>1, <3>2
    <2>2. h = [i \in 0 .. IntSize |-> h[i]]
      OBVIOUS
    <2> HIDE DEF h
    <2> QED BY <2>1, <2>2
  <1> DEFINE f == CHOOSE f : F(f)
  <1>5. F(f)
    <2> HIDE DEF F, h
    <2> QED BY <1>4
  <1>6. IntAt(data, p) = f[IntSize]
    BY DEF IntAt
  <1> HIDE DEF f
  <1>7. f[0] = 0
    BY <1>0, <1>5
  <1>8. \A k \in 0 .. IntSize - 1 : f[k + 1] = f[k] + Power[k] * At(data, p + (k + 1))
    <2> SUFFICES ASSUME NEW k \in 0 .. IntSize - 1
                 PROVE  f[k + 1] = f[k] + Power[k] * At(data, p + (k + 1))
      OBVIOUS
    <2>1. k + 1 \in 0 .. IntSize /\ k + 1 # 0 /\ (k + 1) - 1 = k
      BY <1>0
    <2> QED BY <1>5, <2>1
  <1>9. \A k \in 0 .. IntSize : f[k] \in Nat
    <2> DEFINE T == {k \in Nat : k <= IntSize => f[k] \in Nat}
    <2>1. 0 \in T
      BY <1>7
    <2>2. ASSUME NEW k \in Nat, k \in T PROVE k + 1 \in T
      <3> SUFFICES ASSUME k + 1 <= IntSize PROVE f[k + 1] \in Nat
        OBVIOUS
      <3>1. f[k] \in Nat /\ k \in 0 .. IntSize - 1
        BY <1>0, <2>2
      <3>2. Power[k] \in Nat /\ At(data, p + (k + 1)) \in Nat
        BY <1>1, PowerIs
      <3>3. Power[k] * At(data, p + (k + 1)) \in Nat
        BY <3>2
      <3> QED BY <1>8, <3>1, <3>3
    <2> HIDE DEF T
    <2>3. \A k \in Nat : k \in T
      BY <2>1, <2>2, InductionOnNat
    <2> QED BY <2>3 DEF T
  <1>10. f = [k \in 0 .. IntSize |-> f[k]]
    BY <1>5
  <1>11. f \in [0 .. IntSize -> Nat]
    BY <1>9, <1>10
  <1>12. Sums(f, data, p)
    BY <1>7, <1>8, <1>11 DEF Sums
  <1> QED BY <1>6, <1>12

\* A sum of the first k bytes is less than the values of k bytes.
LEMMA SumsFit ==
  ASSUME NEW data \in Seq(Byte), NEW p \in Nat, NEW f, Sums(f, data, p)
  PROVE  \A k \in 0 .. IntSize : f[k] \in Nat /\ f[k] < Power[k]
  <1>0. IntSize \in Nat /\ Base \in Nat
    BY ByteIs
  <1> DEFINE T == {k \in Nat : k <= IntSize => f[k] \in Nat /\ f[k] < Power[k]}
  <1>1. 0 \in T
    <2>1. f[0] = 0
      BY DEF Sums
    <2>2. Power[0] = 1
      BY PowerIs
    <2> QED BY <2>1, <2>2
  <1>2. ASSUME NEW k \in Nat, k \in T PROVE k + 1 \in T
    <2> SUFFICES ASSUME k + 1 <= IntSize PROVE f[k + 1] \in Nat /\ f[k + 1] < Power[k + 1]
      OBVIOUS
    <2> DEFINE b == At(data, p + (k + 1))
               P == Power[k]
    <2>1. f[k] \in Nat /\ f[k] < P /\ k \in 0 .. IntSize - 1
      BY <1>0, <1>2
    <2>2. b \in Nat /\ b + 1 <= Base
      <3>1. b \in Byte
        BY AtType
      <3> QED BY <1>0, <3>1, ByteIs
    <2>3. P \in Nat \ {0} /\ Power[k + 1] = Base * P
      BY PowerIs
    <2>4. f[k + 1] = f[k] + P * b
      BY <2>1 DEF Sums
    <2> HIDE DEF b, P
    <2>5. P * (b + 1) <= P * Base /\ P * (b + 1) = P * b + P /\ P * b \in Nat
      BY <1>0, <2>2, <2>3
    <2>6. P * Base = Base * P
      BY <1>0, <2>3
    <2>7. f[k] + P * b \in Nat /\ f[k] + P * b < P * b + P
      BY <2>1, <2>3, <2>5
    <2>8. f[k + 1] < P * Base
      BY <1>0, <2>3, <2>4, <2>5, <2>7
    <2> QED BY <2>3, <2>4, <2>6, <2>7, <2>8
  <1>3. \A k \in Nat : k \in T
    <2> HIDE DEF T
    <2> QED BY <1>1, <1>2, InductionOnNat
  <1> QED BY <1>0, <1>3

\* A number read fits.
LEMMA IntAtType ==
  ASSUME NEW data \in Seq(Byte), NEW p \in Nat
  PROVE  IntAt(data, p) \in Nat /\ IntAt(data, p) < Power[IntSize]
  <1>1. PICK f : Sums(f, data, p) /\ IntAt(data, p) = f[IntSize]
    BY IntAtSums
  <1>2. \A k \in 0 .. IntSize : f[k] \in Nat /\ f[k] < Power[k]
    BY <1>1, SumsFit
  <1>3. IntSize \in 0 .. IntSize
    BY ByteIs
  <1> QED BY <1>1, <1>2, <1>3

\* A number is written as IntSize bytes.
LEMMA IntBytesType ==
  ASSUME NEW v \in Nat
  PROVE  /\ IntBytes(v) \in Seq(Byte) /\ Len(IntBytes(v)) = IntSize
         /\ \A i \in 1 .. IntSize : IntBytes(v)[i] = (v \div Power[i - 1]) % Base
  <1>0. IntSize \in Nat /\ Base \in Nat \ {0}
    BY ByteIs
  <1>1. \A i \in 1 .. IntSize : (v \div Power[i - 1]) % Base \in Byte
    <2> SUFFICES ASSUME NEW i \in 1 .. IntSize PROVE (v \div Power[i - 1]) % Base \in Byte
      OBVIOUS
    <2>1. i - 1 \in Nat
      BY <1>0
    <2>2. Power[i - 1] \in Nat \ {0}
      BY <2>1, PowerIs
    <2>3. v \div Power[i - 1] \in Nat
      BY <2>2, DivMod
    <2>4. (v \div Power[i - 1]) % Base \in Nat /\ (v \div Power[i - 1]) % Base < Base
      BY <1>0, <2>3, DivMod
    <2> QED BY <1>0, <2>4 DEF Byte
  <1>2. IntBytes(v) \in [1 .. IntSize -> Byte]
    BY <1>1 DEF IntBytes
  <1>3. IntBytes(v) \in Seq(Byte) /\ Len(IntBytes(v)) = IntSize
    BY <1>0, <1>2, IsASeq
  <1> QED BY <1>3 DEF IntBytes

\* A number written and read back keeps what fits.
LEMMA IntRead ==
  ASSUME NEW data \in Seq(Byte), NEW p \in Nat, NEW v \in Nat, HasAt(data, p, IntBytes(v))
  PROVE  IntAt(data, p) = Low(v)
  <1>1. PICK f : Sums(f, data, p) /\ IntAt(data, p) = f[IntSize]
    BY IntAtSums
  <1>0. IntSize \in Nat /\ Base \in Nat \ {0}
    BY ByteIs
  <1> DEFINE T == {k \in Nat : k <= IntSize => f[k] = v % Power[k]}
  <1>2. 0 \in T
    <2>1. v % 1 = 0
      OBVIOUS
    <2> QED BY <1>1, <2>1, PowerIs DEF Sums
  <1>3. ASSUME NEW k \in Nat, k \in T PROVE k + 1 \in T
    <2> SUFFICES ASSUME k + 1 <= IntSize PROVE f[k + 1] = v % Power[k + 1]
      OBVIOUS
    <2>1. f[k] = v % Power[k] /\ k \in 0 .. IntSize - 1 /\ k + 1 \in 1 .. IntSize /\ (k + 1) - 1 = k
      BY <1>0, <1>3
    <2>2. At(data, p + (k + 1)) = (v \div Power[k]) % Base
      <3>1. IntBytes(v)[k + 1] = (v \div Power[k]) % Base /\ Len(IntBytes(v)) = IntSize
        BY <2>1, IntBytesType
      <3>2. data[p + (k + 1)] = IntBytes(v)[k + 1] /\ p + IntSize <= Len(data)
        BY <2>1, <3>1 DEF HasAt
      <3>3. p + (k + 1) <= Len(data)
        BY <1>0, <2>1, <3>2
      <3>4. At(data, p + (k + 1)) = data[p + (k + 1)]
        BY <3>3 DEF At
      <3> QED BY <3>1, <3>2, <3>4
    <2>3. Power[k] \in Nat \ {0} /\ Power[k + 1] = Base * Power[k]
      BY PowerIs
    <2>4. f[k + 1] = (v % Power[k]) + Power[k] * ((v \div Power[k]) % Base)
      <3>1. f[k + 1] = f[k] + Power[k] * At(data, p + (k + 1))
        BY <1>1, <2>1 DEF Sums
      <3> QED BY <2>1, <2>2, <3>1
    <2>5. v % (Base * Power[k]) = (v % Power[k]) + Power[k] * ((v \div Power[k]) % Base)
      BY <1>0, <2>3, OneByteMore
    <2> QED BY <2>3, <2>4, <2>5
  <1>4. \A k \in Nat : k \in T
    <2> HIDE DEF T
    <2> QED BY <1>2, <1>3, InductionOnNat
  <1>5. IntSize \in T
    BY <1>0, <1>4
  <1> QED BY <1>0, <1>1, <1>5 DEF Low

-----------------------------------------------------------------------------
(***************************************************************************)
(* Sequences put one behind the other, and what stands in them where.      *)
(***************************************************************************)
\* Of two sequences one behind the other the second stands behind the first.
LEMMA HasConcat ==
  ASSUME NEW S, NEW data \in Seq(S), NEW p \in Nat, NEW a \in Seq(S), NEW b \in Seq(S),
         HasAt(data, p, a \o b)
  PROVE  /\ HasAt(data, p, a) /\ HasAt(data, p + Len(a), b)
         /\ p + Len(a) \in Nat /\ Len(a \o b) = Len(a) + Len(b)
  <1> DEFINE c == a \o b
  <1>1. /\ Len(c) = Len(a) + Len(b) /\ Len(a) \in Nat /\ Len(b) \in Nat /\ Len(data) \in Nat
        /\ \A i \in 1 .. Len(a) + Len(b) : c[i] = IF i <= Len(a) THEN a[i] ELSE b[i - Len(a)]
    BY ConcatProperties
  <1>2. /\ p + Len(c) <= Len(data) /\ \A i \in 1 .. Len(c) : data[p + i] = c[i]
    BY DEF HasAt
  <1> HIDE DEF c
  <1>3. HasAt(data, p, a)
    <2>1. ASSUME NEW i \in 1 .. Len(a) PROVE data[p + i] = a[i]
      <3>1. i \in 1 .. Len(c) /\ i <= Len(a)
        BY <1>1
      <3> QED BY <1>1, <1>2, <3>1
    <2>2. p + Len(a) <= Len(data)
      BY <1>1, <1>2
    <2> QED BY <2>1, <2>2 DEF HasAt
  <1>4. HasAt(data, p + Len(a), b)
    <2>1. ASSUME NEW i \in 1 .. Len(b) PROVE data[(p + Len(a)) + i] = b[i]
      <3>1. /\ Len(a) + i \in 1 .. Len(c) /\ ~(Len(a) + i <= Len(a))
            /\ (Len(a) + i) - Len(a) = i /\ p + (Len(a) + i) = (p + Len(a)) + i
        BY <1>1
      <3>2. data[p + (Len(a) + i)] = c[Len(a) + i]
        BY <1>2, <3>1
      <3>3. c[Len(a) + i] = b[i]
        BY <1>1, <3>1
      <3> QED BY <3>1, <3>2, <3>3
    <2>2. (p + Len(a)) + Len(b) <= Len(data)
      BY <1>1, <1>2
    <2> QED BY <2>1, <2>2 DEF HasAt
  <1> QED BY <1>1, <1>3, <1>4 DEF c

\* g[k] is the first k of the sequences ss, one behind the other.
Parts(g, S, ss) ==
  /\ g \in [Nat -> Seq(S)] /\ g[0] = << >>
  /\ \A k \in 0 .. Len(ss) - 1 : g[k + 1] = g[k] \o ss[k + 1]

\* FlattenSeq puts the sequences one behind the other.
LEMMA FlatIs ==
  ASSUME NEW S, NEW ss \in Seq(Seq(S))
  PROVE  \E g : Parts(g, S, ss) /\ FlattenSeq(ss) = g[Len(ss)]
  <1> DEFINE step == [k \in Nat |-> [v \in Seq(S) |->
                        IF k + 1 \in 1 .. Len(ss) THEN v \o ss[k + 1] ELSE v]]
             F(f) == f = [i \in 1 .. Len(ss) |-> IF i = 1 THEN ss[i] ELSE f[i - 1] \o ss[i]]
  <1>0. Len(ss) \in Nat
    OBVIOUS
  <1>1. \A k \in Nat : \A v \in Seq(S) : step[k][v] \in Seq(S)
    <2> SUFFICES ASSUME NEW k \in Nat, NEW v \in Seq(S) PROVE step[k][v] \in Seq(S)
      OBVIOUS
    <2>1. CASE k + 1 \in 1 .. Len(ss)
      <3>1. ss[k + 1] \in Seq(S)
        BY <2>1
      <3>2. v \o ss[k + 1] \in Seq(S)
        BY <3>1, ConcatProperties
      <3> QED BY <2>1, <3>2
    <2>2. CASE ~(k + 1 \in 1 .. Len(ss))
      BY <2>2
    <2> QED BY <2>1, <2>2
  <1>2. PICK g : FollowsIn(g, Seq(S), << >>, step)
    <2>1. StaysIn(step, Seq(S)) /\ << >> \in Seq(S)
      BY <1>1 DEF StaysIn
    <2> HIDE DEF step
    <2> QED BY <2>1, RecursionOnNat
  <1>3. Parts(g, S, ss)
    <2>1. ASSUME NEW k \in 0 .. Len(ss) - 1 PROVE g[k + 1] = g[k] \o ss[k + 1]
      <3>1. k \in Nat /\ k + 1 \in 1 .. Len(ss)
        BY <1>0
      <3>2. g[k + 1] = step[k][g[k]] /\ g[k] \in Seq(S)
        BY <1>2, <3>1 DEF FollowsIn
      <3> QED BY <3>1, <3>2
    <2> QED BY <1>2, <2>1 DEF Parts, FollowsIn
  <1>4. CASE Len(ss) = 0
    <2>1. FlattenSeq(ss) = ss /\ ss = << >>
      BY <1>4 DEF FlattenSeq
    <2> QED BY <1>3, <1>4, <2>1 DEF Parts
  <1>5. CASE Len(ss) # 0
    <2> DEFINE h == [i \in 1 .. Len(ss) |-> g[i]]
               f == CHOOSE f : F(f)
    <2>1. F(h)
      <3>1. ASSUME NEW i \in 1 .. Len(ss)
            PROVE  h[i] = IF i = 1 THEN ss[i] ELSE h[i - 1] \o ss[i]
        <4>1. i - 1 \in 0 .. Len(ss) - 1 /\ (i - 1) + 1 = i
          BY <1>0
        <4>2. g[i] = g[i - 1] \o ss[i]
          BY <1>3, <4>1 DEF Parts
        <4>3. CASE i = 1
          <5>1. g[i - 1] = << >> /\ ss[i] \in Seq(S)
            BY <1>3, <4>3 DEF Parts
          <5>2. << >> \o ss[i] = ss[i]
            BY <5>1, ConcatEmptySeq
          <5> QED BY <4>2, <4>3, <5>1, <5>2
        <4>4. CASE i # 1
          <5>1. i - 1 \in 1 .. Len(ss)
            BY <1>0, <4>4
          <5> QED BY <4>2, <4>4, <5>1
        <4> QED BY <4>3, <4>4
      <3>2. h = [i \in 1 .. Len(ss) |-> h[i]]
        OBVIOUS
      <3> HIDE DEF h
      <3> QED BY <3>1, <3>2
    <2>2. F(f)
      <3> HIDE DEF F, h
      <3> QED BY <2>1
    <2>3. FlattenSeq(ss) = f[Len(ss)]
      BY <1>5 DEF FlattenSeq
    <2> HIDE DEF f
    <2> DEFINE T == {k \in Nat : k + 1 <= Len(ss) => f[k + 1] = g[k + 1]}
    <2>4. 0 \in T
      <3>1. 1 \in 1 .. Len(ss) /\ 0 \in 0 .. Len(ss) - 1
        BY <1>0, <1>5
      <3>2. f[1] = ss[1] /\ ss[1] \in Seq(S)
        BY <2>2, <3>1
      <3>3. g[0 + 1] = g[0] \o ss[0 + 1] /\ g[0] = << >>
        BY <1>3, <3>1 DEF Parts
      <3>4. << >> \o ss[1] = ss[1]
        BY <3>2, ConcatEmptySeq
      <3> QED BY <3>2, <3>3, <3>4
    <2>5. ASSUME NEW k \in Nat, k \in T PROVE k + 1 \in T
      <3> SUFFICES ASSUME (k + 1) + 1 <= Len(ss) PROVE f[(k + 1) + 1] = g[(k + 1) + 1]
        OBVIOUS
      <3>1. /\ (k + 1) + 1 \in 1 .. Len(ss) /\ (k + 1) + 1 # 1 /\ ((k + 1) + 1) - 1 = k + 1
            /\ k + 1 \in 0 .. Len(ss) - 1 /\ k + 1 <= Len(ss)
        BY <1>0
      <3>2. f[(k + 1) + 1] = f[k + 1] \o ss[(k + 1) + 1]
        BY <2>2, <3>1
      <3>3. g[(k + 1) + 1] = g[k + 1] \o ss[(k + 1) + 1]
        BY <1>3, <3>1 DEF Parts
      <3>4. f[k + 1] = g[k + 1]
        BY <2>5, <3>1
      <3> QED BY <3>2, <3>3, <3>4
    <2>6. \A k \in Nat : k \in T
      <3> HIDE DEF T
      <3> QED BY <2>4, <2>5, InductionOnNat
    <2>7. Len(ss) - 1 \in Nat /\ (Len(ss) - 1) + 1 = Len(ss)
      BY <1>0, <1>5
    <2>8. Len(ss) - 1 \in T
      BY <2>6, <2>7
    <2>9. f[(Len(ss) - 1) + 1] = g[(Len(ss) - 1) + 1]
      <3> HIDE DEF f
      <3> QED BY <1>0, <2>7, <2>8
    <2>10. f[Len(ss)] = g[Len(ss)]
      BY <2>7, <2>9
    <2> QED BY <1>3, <2>3, <2>10
  <1> QED BY <1>4, <1>5

\* One part more.
LEMMA PartsStep ==
  ASSUME NEW S, NEW ss \in Seq(Seq(S)), NEW g, Parts(g, S, ss), NEW k \in 0 .. Len(ss) - 1
  PROVE  g[k + 1] = g[k] \o ss[k + 1] /\ g[k] \in Seq(S) /\ ss[k + 1] \in Seq(S)
  <1>1. k \in Nat /\ k + 1 \in 1 .. Len(ss)
    OBVIOUS
  <1>2. g[k + 1] = g[k] \o ss[k + 1]
    BY DEF Parts
  <1>3. g[k] \in Seq(S)
    BY <1>1 DEF Parts
  <1>4. ss[k + 1] \in Seq(S)
    BY <1>1
  <1> QED BY <1>2, <1>3, <1>4

Equal(ss, n) == \A i \in 1 .. Len(ss) : Len(ss[i]) = n
Multiples(g, ss, n) == \A k \in 0 .. Len(ss) : Len(g[k]) = k * n

\* Parts of one size.
LEMMA PartsLength ==
  ASSUME NEW S, NEW ss \in Seq(Seq(S)), NEW g, Parts(g, S, ss), NEW n \in Nat,
         Equal(ss, n)
  PROVE  Multiples(g, ss, n)
  <1>0. Len(ss) \in Nat
    OBVIOUS
  <1> DEFINE T == {k \in Nat : k <= Len(ss) => Len(g[k]) = k * n}
  <1>1. 0 \in T
    <2>1. g[0] = << >> /\ 0 * n = 0
      BY DEF Parts
    <2> QED BY <2>1
  <1>2. ASSUME NEW k \in Nat, k \in T PROVE k + 1 \in T
    <2> SUFFICES ASSUME k + 1 <= Len(ss) PROVE Len(g[k + 1]) = (k + 1) * n
      OBVIOUS
    <2>1. k \in 0 .. Len(ss) - 1 /\ k + 1 \in 1 .. Len(ss) /\ Len(g[k]) = k * n
      BY <1>0, <1>2
    <2>2. g[k + 1] = g[k] \o ss[k + 1] /\ g[k] \in Seq(S) /\ ss[k + 1] \in Seq(S)
      BY <2>1, PartsStep
    <2>3. Len(g[k + 1]) = Len(g[k]) + Len(ss[k + 1])
      BY <2>2, ConcatProperties
    <2>4. (k + 1) * n = k * n + n
      OBVIOUS
    <2>5. Len(ss[k + 1]) = n
      BY <2>1 DEF Equal
    <2> QED BY <2>1, <2>3, <2>4, <2>5
  <1>3. \A k \in Nat : k \in T
    <2> HIDE DEF T
    <2> QED BY <1>1, <1>2, InductionOnNat
  <1> QED BY <1>3 DEF Multiples

HasParts(data, p, ss, g) ==
  \A i \in 1 .. Len(ss) :
    /\ p + Len(g[i - 1]) \in Nat /\ HasAt(data, p + Len(g[i - 1]), ss[i])
    /\ Len(g[i]) = Len(g[i - 1]) + Len(ss[i])

\* What stands in data as a whole stands there part by part.
LEMMA PartsAt ==
  ASSUME NEW S, NEW data \in Seq(S), NEW p \in Nat, NEW ss \in Seq(Seq(S)), NEW g,
         Parts(g, S, ss), HasAt(data, p, g[Len(ss)])
  PROVE  HasParts(data, p, ss, g)
  <1>0. Len(ss) \in Nat
    OBVIOUS
  <1> DEFINE T == {k \in Nat : k <= Len(ss) => HasAt(data, p, g[Len(ss) - k])}
  <1>1. 0 \in T
    BY <1>0
  <1>2. ASSUME NEW k \in Nat, k \in T PROVE k + 1 \in T
    <2> SUFFICES ASSUME k + 1 <= Len(ss) PROVE HasAt(data, p, g[Len(ss) - (k + 1)])
      OBVIOUS
    <2> DEFINE m == Len(ss) - (k + 1)
    <2>1. m \in 0 .. Len(ss) - 1 /\ m + 1 = Len(ss) - k /\ m \in Nat /\ m + 1 \in 1 .. Len(ss)
      BY <1>0
    <2> HIDE DEF m
    <2>2. HasAt(data, p, g[m + 1])
      BY <1>2, <2>1
    <2>3. g[m + 1] = g[m] \o ss[m + 1] /\ g[m] \in Seq(S) /\ ss[m + 1] \in Seq(S)
      BY <2>1, PartsStep
    <2>4. HasAt(data, p, g[m])
      BY <2>2, <2>3, HasConcat
    <2> QED BY <2>4 DEF m
  <1>3. \A k \in Nat : k \in T
    <2> HIDE DEF T
    <2> QED BY <1>1, <1>2, InductionOnNat
  <1>4. ASSUME NEW i \in 1 .. Len(ss)
        PROVE  /\ p + Len(g[i - 1]) \in Nat /\ HasAt(data, p + Len(g[i - 1]), ss[i])
               /\ Len(g[i]) = Len(g[i - 1]) + Len(ss[i])
    <2> DEFINE k == Len(ss) - i
    <2>1. k \in Nat /\ k <= Len(ss) /\ Len(ss) - k = i /\ i - 1 \in 0 .. Len(ss) - 1 /\ (i - 1) + 1 = i
          /\ i - 1 \in Nat
      BY <1>0
    <2> HIDE DEF k
    <2>2. HasAt(data, p, g[i])
      BY <1>3, <2>1
    <2>3. g[i] = g[i - 1] \o ss[i] /\ g[i - 1] \in Seq(S) /\ ss[i] \in Seq(S)
      <3>1. /\ g[(i - 1) + 1] = g[i - 1] \o ss[(i - 1) + 1]
            /\ g[i - 1] \in Seq(S) /\ ss[(i - 1) + 1] \in Seq(S)
        BY <2>1, PartsStep
      <3> QED BY <2>1, <3>1
    <2>4. HasAt(data, p, g[i - 1] \o ss[i])
      BY <2>2, <2>3
    <2> DEFINE a == g[i - 1]
               b == ss[i]
    <2>5. a \in Seq(S) /\ b \in Seq(S) /\ HasAt(data, p, a \o b)
      BY <2>3, <2>4
    <2> HIDE DEF a, b
    <2>6. /\ HasAt(data, p + Len(a), b) /\ p + Len(a) \in Nat
          /\ Len(a \o b) = Len(a) + Len(b)
      BY <2>5, HasConcat
    <2> QED BY <2>3, <2>6 DEF a, b
  <1> QED BY <1>4 DEF HasParts

-----------------------------------------------------------------------------
(***************************************************************************)
(* Inputs and outputs of a transaction, and the vectors of them.           *)
(***************************************************************************)
\* What stands somewhere is what is cut out there.
LEMMA CutRead ==
  ASSUME NEW data \in Seq(Byte), NEW p \in Nat, NEW b \in Seq(Byte), HasAt(data, p, b)
  PROVE  Cut(data, p, Len(b)) = b
  <1>0. Len(b) \in Nat /\ Len(data) \in Nat
    OBVIOUS
  <1>1. ASSUME NEW i \in 1 .. Len(b) PROVE At(data, p + i) = b[i]
    <2>1. p + i <= Len(data) /\ data[p + i] = b[i]
      BY <1>0 DEF HasAt
    <2> QED BY <2>1 DEF At
  <1>2. b = [i \in 1 .. Len(b) |-> b[i]]
    OBVIOUS
  <1> QED BY <1>1, <1>2 DEF Cut

\* The fields of an input.
LEMMA InputFields ==
  ASSUME NEW i \in InputType
  PROVE  /\ i.block \in Nat /\ i.txe \in Nat /\ i.tail \in Nat /\ i.hash \in Seq(Byte)
         /\ i = [block |-> i.block, txe |-> i.txe, hash |-> i.hash, tail |-> i.tail]
  BY DEF InputType

\* The bytes of an input.
LEMMA InputBytesType ==
  ASSUME NEW i \in InputType
  PROVE  InputBytes(i) \in Seq(Byte) /\ Len(InputBytes(i)) = 3 * IntSize + Len(i.hash)
  <1> DEFINE a == IntBytes(i.block)
             b == IntBytes(i.txe)
             c == i.hash
             d == IntBytes(i.tail)
  <1>1. /\ a \in Seq(Byte) /\ b \in Seq(Byte) /\ c \in Seq(Byte) /\ d \in Seq(Byte)
        /\ Len(a) = IntSize /\ Len(b) = IntSize /\ Len(d) = IntSize /\ Len(c) \in Nat
    BY InputFields, IntBytesType
  <1> HIDE DEF a, b, d
  <1>2. a \o b \in Seq(Byte) /\ Len(a \o b) = Len(a) + Len(b)
    BY <1>1, ConcatProperties
  <1>3. a \o b \o c \in Seq(Byte) /\ Len(a \o b \o c) = Len(a \o b) + Len(c)
    BY <1>1, <1>2, ConcatProperties
  <1>4. a \o b \o c \o d \in Seq(Byte) /\ Len(a \o b \o c \o d) = Len(a \o b \o c) + Len(d)
    BY <1>1, <1>3, ConcatProperties
  <1>5. IntSize \in Nat
    BY ByteIs
  <1>6. InputBytes(i) = a \o b \o c \o d
    BY DEF InputBytes, a, b, c, d
  <1>7. Len(a \o b \o c \o d) = 3 * IntSize + Len(c)
    <2> HIDE DEF c
    <2> QED BY <1>1, <1>2, <1>3, <1>4, <1>5
  <1> QED BY <1>4, <1>6, <1>7

\* An input written and read back keeps what fits.
LEMMA InputRead ==
  ASSUME NEW data \in Seq(Byte), NEW p \in Nat, NEW i \in InputType,
         Len(i.hash) = HashSize, HasAt(data, p, InputBytes(i))
  PROVE  InputAt(data, p) = InputKept(i)
  <1> DEFINE a == IntBytes(i.block)
             b == IntBytes(i.txe)
             c == i.hash
             d == IntBytes(i.tail)
  <1>0. IntSize \in Nat /\ HashSize \in Nat
    BY ByteIs
  <1>1. /\ a \in Seq(Byte) /\ b \in Seq(Byte) /\ c \in Seq(Byte) /\ d \in Seq(Byte)
        /\ Len(a) = IntSize /\ Len(b) = IntSize /\ Len(d) = IntSize /\ Len(c) = HashSize
    BY InputFields, IntBytesType
  <1>2. HasAt(data, p, a \o b \o c \o d)
    BY DEF InputBytes
  <1> HIDE DEF a, b, c, d
  <1>3. a \o b \in Seq(Byte) /\ Len(a \o b) = Len(a) + Len(b)
    BY <1>1, ConcatProperties
  <1>4. a \o b \o c \in Seq(Byte) /\ Len(a \o b \o c) = Len(a \o b) + Len(c)
    BY <1>1, <1>3, ConcatProperties
  <1>5. HasAt(data, p, a \o b \o c) /\ HasAt(data, p + Len(a \o b \o c), d)
    BY <1>1, <1>2, <1>4, HasConcat
  <1>6. HasAt(data, p, a \o b) /\ HasAt(data, p + Len(a \o b), c)
    BY <1>1, <1>3, <1>5, HasConcat
  <1>7. HasAt(data, p, a) /\ HasAt(data, p + Len(a), b)
    BY <1>1, <1>6, HasConcat
  <1>8. /\ p + Len(a) = p + IntSize /\ p + Len(a \o b) = p + 2 * IntSize
        /\ p + Len(a \o b \o c) = p + 2 * IntSize + HashSize
        /\ p + IntSize \in Nat /\ p + 2 * IntSize \in Nat /\ p + 2 * IntSize + HashSize \in Nat
    BY <1>0, <1>1, <1>3, <1>4
  <1>9. IntAt(data, p) = Low(i.block)
    BY <1>7, IntRead, InputFields DEF a
  <1>10. IntAt(data, p + IntSize) = Low(i.txe)
    BY <1>7, <1>8, IntRead, InputFields DEF b
  <1>11. Cut(data, p + 2 * IntSize, HashSize) = i.hash
    <2>1. HasAt(data, p + 2 * IntSize, c)
      BY <1>6, <1>8
    <2>2. Cut(data, p + 2 * IntSize, Len(c)) = c
      BY <1>1, <1>8, <2>1, CutRead
    <2> QED BY <1>1, <2>2 DEF c
  <1>12. IntAt(data, p + 2 * IntSize + HashSize) = Low(i.tail)
    BY <1>5, <1>8, IntRead, InputFields DEF d
  <1> QED BY <1>9, <1>10, <1>11, <1>12 DEF InputAt, InputKept

\* The fields of an output.
LEMMA TailFields ==
  ASSUME NEW t \in TailType
  PROVE  /\ t.value \in Nat /\ t.address \in Seq(Byte)
         /\ t = [value |-> t.value, address |-> t.address]
  BY DEF TailType

\* The bytes of an output.
LEMMA TailBytesType ==
  ASSUME NEW t \in TailType
  PROVE  TailBytes(t) \in Seq(Byte) /\ Len(TailBytes(t)) = IntSize + Len(t.address)
  <1>1. /\ IntBytes(t.value) \in Seq(Byte) /\ t.address \in Seq(Byte)
        /\ Len(IntBytes(t.value)) = IntSize
    BY TailFields, IntBytesType
  <1> QED BY <1>1, ConcatProperties DEF TailBytes

\* An output written and read back keeps what fits.
LEMMA TailRead ==
  ASSUME NEW data \in Seq(Byte), NEW p \in Nat, NEW t \in TailType,
         Len(t.address) = HashSize, HasAt(data, p, TailBytes(t))
  PROVE  TailAt(data, p) = TailKept(t)
  <1> DEFINE a == IntBytes(t.value)
             b == t.address
  <1>1. /\ a \in Seq(Byte) /\ b \in Seq(Byte) /\ Len(a) = IntSize /\ Len(b) = HashSize
    BY TailFields, IntBytesType
  <1>2. HasAt(data, p, a \o b)
    BY DEF TailBytes
  <1> HIDE DEF a, b
  <1>3. HasAt(data, p, a) /\ HasAt(data, p + IntSize, b) /\ p + IntSize \in Nat
    BY <1>1, <1>2, HasConcat
  <1>4. IntAt(data, p) = Low(t.value)
    BY <1>3, IntRead, TailFields DEF a
  <1>5. Cut(data, p + IntSize, HashSize) = t.address
    <2>1. Cut(data, p + IntSize, Len(b)) = b
      BY <1>1, <1>3, CutRead
    <2> QED BY <1>1, <2>1 DEF b
  <1> QED BY <1>4, <1>5 DEF TailAt, TailKept

\* The parts together have their elements.
LEMMA PartsEnd ==
  ASSUME NEW S, NEW ss \in Seq(Seq(S))
  PROVE  FlattenSeq(ss) \in Seq(S)
  <1>1. PICK g : Parts(g, S, ss) /\ FlattenSeq(ss) = g[Len(ss)]
    BY FlatIs
  <1>2. g[Len(ss)] \in Seq(S)
    BY <1>1 DEF Parts
  <1> QED BY <1>1, <1>2

InputParts(inputs) == [i \in DOMAIN inputs |-> InputBytes(inputs[i])]
TailParts(tails) == [i \in DOMAIN tails |-> TailBytes(tails[i])]
InputSize == 3 * IntSize + HashSize
TailSize == IntSize + HashSize

\* The bytes of the inputs, input by input.
LEMMA InputPartsType ==
  ASSUME NEW inputs \in Seq(InputType)
  PROVE  /\ InputParts(inputs) \in Seq(Seq(Byte)) /\ Len(InputParts(inputs)) = Len(inputs)
         /\ \A i \in 1 .. Len(inputs) : InputParts(inputs)[i] = InputBytes(inputs[i])
         /\ Each(InputBytes, inputs) = FlattenSeq(InputParts(inputs))
         /\ Each(InputBytes, inputs) \in Seq(Byte)
  <1>1. Len(inputs) \in Nat /\ DOMAIN inputs = 1 .. Len(inputs)
    OBVIOUS
  <1>2. InputParts(inputs) \in [1 .. Len(inputs) -> Seq(Byte)]
    <2>1. \A i \in 1 .. Len(inputs) : InputBytes(inputs[i]) \in Seq(Byte)
      BY InputBytesType
    <2> QED BY <1>1, <2>1 DEF InputParts
  <1>3. InputParts(inputs) \in Seq(Seq(Byte)) /\ Len(InputParts(inputs)) = Len(inputs)
    BY <1>1, <1>2, IsASeq
  <1>4. Each(InputBytes, inputs) = FlattenSeq(InputParts(inputs))
    BY DEF Each, InputParts
  <1>5. \A i \in 1 .. Len(inputs) : InputParts(inputs)[i] = InputBytes(inputs[i])
    BY <1>1 DEF InputParts
  <1> QED BY <1>3, <1>4, <1>5, PartsEnd

\* The bytes of the outputs, output by output.
LEMMA TailPartsType ==
  ASSUME NEW tails \in Seq(TailType)
  PROVE  /\ TailParts(tails) \in Seq(Seq(Byte)) /\ Len(TailParts(tails)) = Len(tails)
         /\ \A i \in 1 .. Len(tails) : TailParts(tails)[i] = TailBytes(tails[i])
         /\ Each(TailBytes, tails) = FlattenSeq(TailParts(tails))
         /\ Each(TailBytes, tails) \in Seq(Byte)
  <1>1. Len(tails) \in Nat /\ DOMAIN tails = 1 .. Len(tails)
    OBVIOUS
  <1>2. TailParts(tails) \in [1 .. Len(tails) -> Seq(Byte)]
    <2>1. \A i \in 1 .. Len(tails) : TailBytes(tails[i]) \in Seq(Byte)
      BY TailBytesType
    <2> QED BY <1>1, <2>1 DEF TailParts
  <1>3. TailParts(tails) \in Seq(Seq(Byte)) /\ Len(TailParts(tails)) = Len(tails)
    BY <1>1, <1>2, IsASeq
  <1>4. Each(TailBytes, tails) = FlattenSeq(TailParts(tails))
    BY DEF Each, TailParts
  <1>5. \A i \in 1 .. Len(tails) : TailParts(tails)[i] = TailBytes(tails[i])
    BY <1>1 DEF TailParts
  <1> QED BY <1>3, <1>4, <1>5, PartsEnd

\* The length of parts of one size.
LEMMA FlatLength ==
  ASSUME NEW S, NEW ss \in Seq(Seq(S)), NEW n \in Nat, Equal(ss, n)
  PROVE  Len(FlattenSeq(ss)) = Len(ss) * n
  <1>1. PICK g : Parts(g, S, ss) /\ FlattenSeq(ss) = g[Len(ss)]
    BY FlatIs
  <1>2. Multiples(g, ss, n)
    BY <1>1, PartsLength
  <1>3. Len(ss) \in 0 .. Len(ss)
    OBVIOUS
  <1> QED BY <1>1, <1>2, <1>3 DEF Multiples

\* Parts of one size stand at multiples of it.
LEMMA EqualParts ==
  ASSUME NEW S, NEW data \in Seq(S), NEW p \in Nat, NEW ss \in Seq(Seq(S)),
         HasAt(data, p, FlattenSeq(ss)), NEW n \in Nat, Equal(ss, n)
  PROVE  \A i \in 1 .. Len(ss) : p + (i - 1) * n \in Nat /\ HasAt(data, p + (i - 1) * n, ss[i])
  <1>0. Len(ss) \in Nat
    OBVIOUS
  <1>1. PICK g : Parts(g, S, ss) /\ FlattenSeq(ss) = g[Len(ss)]
    BY FlatIs
  <1>2. \A k \in 0 .. Len(ss) : Len(g[k]) = k * n
    <2>1. Multiples(g, ss, n)
      BY <1>1, PartsLength
    <2> QED BY <2>1 DEF Multiples
  <1>3. \A i \in 1 .. Len(ss) :
           /\ p + Len(g[i - 1]) \in Nat /\ HasAt(data, p + Len(g[i - 1]), ss[i])
    <2>1. Parts(g, S, ss) /\ HasAt(data, p, g[Len(ss)])
      BY <1>1
    <2>2. HasParts(data, p, ss, g)
      BY <2>1, PartsAt
    <2> QED BY <2>2 DEF HasParts
  <1>4. ASSUME NEW i \in 1 .. Len(ss)
        PROVE  p + (i - 1) * n \in Nat /\ HasAt(data, p + (i - 1) * n, ss[i])
    <2>1. i - 1 \in 0 .. Len(ss)
      BY <1>0
    <2>2. Len(g[i - 1]) = (i - 1) * n
      BY <1>2, <2>1
    <2> QED BY <1>3, <2>2
  <1> QED BY <1>4

\* Inputs with hashes of the size the reader expects are of one size.
LEMMA InputsLength ==
  ASSUME NEW inputs \in Seq(InputType),
         \A i \in 1 .. Len(inputs) : Len(inputs[i].hash) = HashSize
  PROVE  /\ Equal(InputParts(inputs), InputSize) /\ InputSize \in Nat \ {0}
         /\ Len(Each(InputBytes, inputs)) = Len(inputs) * InputSize
  <1> DEFINE ss == InputParts(inputs)
  <1>1. /\ ss \in Seq(Seq(Byte)) /\ Len(ss) = Len(inputs)
        /\ \A i \in 1 .. Len(inputs) : ss[i] = InputBytes(inputs[i])
        /\ Each(InputBytes, inputs) = FlattenSeq(ss)
    BY InputPartsType
  <1> HIDE DEF ss
  <1>2. Equal(ss, InputSize)
    <2> SUFFICES ASSUME NEW i \in 1 .. Len(inputs) PROVE Len(InputBytes(inputs[i])) = InputSize
      BY <1>1 DEF Equal
    <2>1. inputs[i] \in InputType /\ Len(inputs[i].hash) = HashSize
      OBVIOUS
    <2> QED BY <2>1, InputBytesType DEF InputSize
  <1>3. InputSize \in Nat \ {0}
    BY ByteIs DEF InputSize
  <1>4. Len(FlattenSeq(ss)) = Len(ss) * InputSize
    BY <1>1, <1>2, <1>3, FlatLength
  <1> QED BY <1>1, <1>2, <1>3, <1>4 DEF ss

\* Every input is found where the reader looks for it.
LEMMA InputsRead ==
  ASSUME NEW data \in Seq(Byte), NEW p \in Nat, NEW inputs \in Seq(InputType),
         \A i \in 1 .. Len(inputs) : Len(inputs[i].hash) = HashSize,
         HasAt(data, p, Each(InputBytes, inputs))
  PROVE  /\ Len(Each(InputBytes, inputs)) = Len(inputs) * InputSize
         /\ \A i \in 1 .. Len(inputs) :
              InputAt(data, p + (i - 1) * InputSize) = InputKept(inputs[i])
  <1> DEFINE ss == InputParts(inputs)
  <1>1. /\ ss \in Seq(Seq(Byte)) /\ Len(ss) = Len(inputs)
        /\ \A i \in 1 .. Len(inputs) : ss[i] = InputBytes(inputs[i])
        /\ Each(InputBytes, inputs) = FlattenSeq(ss)
    BY InputPartsType
  <1>2. Equal(ss, InputSize) /\ InputSize \in Nat /\ Len(Each(InputBytes, inputs)) = Len(inputs) * InputSize
    BY InputsLength
  <1> HIDE DEF ss
  <1>4. \A i \in 1 .. Len(ss) :
           /\ p + (i - 1) * InputSize \in Nat
           /\ HasAt(data, p + (i - 1) * InputSize, ss[i])
    BY <1>1, <1>2, EqualParts
  <1>5. ASSUME NEW i \in 1 .. Len(inputs)
        PROVE  InputAt(data, p + (i - 1) * InputSize) = InputKept(inputs[i])
    <2> DEFINE at1 == p + (i - 1) * InputSize
    <2>1. at1 \in Nat /\ HasAt(data, at1, InputBytes(inputs[i]))
      BY <1>1, <1>4
    <2>2. inputs[i] \in InputType /\ Len(inputs[i].hash) = HashSize
      OBVIOUS
    <2> HIDE DEF at1
    <2>3. InputAt(data, at1) = InputKept(inputs[i])
      BY <2>1, <2>2, InputRead
    <2> QED BY <2>3 DEF at1
  <1> QED BY <1>2, <1>5

\* Outputs with addresses of the size the reader expects are of one size.
LEMMA TailsLength ==
  ASSUME NEW tails \in Seq(TailType),
         \A i \in 1 .. Len(tails) : Len(tails[i].address) = HashSize
  PROVE  /\ Equal(TailParts(tails), TailSize) /\ TailSize \in Nat \ {0}
         /\ Len(Each(TailBytes, tails)) = Len(tails) * TailSize
  <1> DEFINE ss == TailParts(tails)
  <1>1. /\ ss \in Seq(Seq(Byte)) /\ Len(ss) = Len(tails)
        /\ \A i \in 1 .. Len(tails) : ss[i] = TailBytes(tails[i])
        /\ Each(TailBytes, tails) = FlattenSeq(ss)
    BY TailPartsType
  <1> HIDE DEF ss
  <1>2. Equal(ss, TailSize)
    <2> SUFFICES ASSUME NEW i \in 1 .. Len(tails) PROVE Len(TailBytes(tails[i])) = TailSize
      BY <1>1 DEF Equal
    <2>1. tails[i] \in TailType /\ Len(tails[i].address) = HashSize
      OBVIOUS
    <2> QED BY <2>1, TailBytesType DEF TailSize
  <1>3. TailSize \in Nat \ {0}
    BY ByteIs DEF TailSize
  <1>4. Len(FlattenSeq(ss)) = Len(ss) * TailSize
    BY <1>1, <1>2, <1>3, FlatLength
  <1> QED BY <1>1, <1>2, <1>3, <1>4 DEF ss

\* Every output is found where the reader looks for it.
LEMMA TailsRead ==
  ASSUME NEW data \in Seq(Byte), NEW p \in Nat, NEW tails \in Seq(TailType),
         \A i \in 1 .. Len(tails) : Len(tails[i].address) = HashSize,
         HasAt(data, p, Each(TailBytes, tails))
  PROVE  /\ Len(Each(TailBytes, tails)) = Len(tails) * TailSize
         /\ \A i \in 1 .. Len(tails) :
              TailAt(data, p + (i - 1) * TailSize) = TailKept(tails[i])
  <1> DEFINE ss == TailParts(tails)
  <1>1. /\ ss \in Seq(Seq(Byte)) /\ Len(ss) = Len(tails)
        /\ \A i \in 1 .. Len(tails) : ss[i] = TailBytes(tails[i])
        /\ Each(TailBytes, tails) = FlattenSeq(ss)
    BY TailPartsType
  <1>2. Equal(ss, TailSize) /\ TailSize \in Nat /\ Len(Each(TailBytes, tails)) = Len(tails) * TailSize
    BY TailsLength
  <1> HIDE DEF ss
  <1>4. \A i \in 1 .. Len(ss) :
           /\ p + (i - 1) * TailSize \in Nat
           /\ HasAt(data, p + (i - 1) * TailSize, ss[i])
    BY <1>1, <1>2, EqualParts
  <1>5. ASSUME NEW i \in 1 .. Len(tails)
        PROVE  TailAt(data, p + (i - 1) * TailSize) = TailKept(tails[i])
    <2> DEFINE at1 == p + (i - 1) * TailSize
    <2>1. at1 \in Nat /\ HasAt(data, at1, TailBytes(tails[i]))
      BY <1>1, <1>4
    <2>2. tails[i] \in TailType /\ Len(tails[i].address) = HashSize
      OBVIOUS
    <2> HIDE DEF at1
    <2>3. TailAt(data, at1) = TailKept(tails[i])
      BY <2>1, <2>2, TailRead
    <2> QED BY <2>3 DEF at1
  <1> QED BY <1>2, <1>5

\* The fields of a transaction.
LEMMA TxFields ==
  ASSUME NEW t \in TxType
  PROVE  /\ t.inputs \in Seq(InputType) /\ t.tails \in Seq(TailType)
         /\ t.pubKey \in Seq(Byte) /\ t.signature \in Seq(Byte)
         /\ Len(t.inputs) \in Nat /\ Len(t.tails) \in Nat
         /\ DOMAIN t.inputs = 1 .. Len(t.inputs) /\ DOMAIN t.tails = 1 .. Len(t.tails)
  <1>1. /\ t.inputs \in Seq(InputType) /\ t.tails \in Seq(TailType)
        /\ t.pubKey \in Seq(Byte) /\ t.signature \in Seq(Byte)
    BY DEF TxType
  <1> QED BY <1>1

\* The bytes of a transaction.
LEMMA TxBytesType ==
  ASSUME NEW t \in TxType
  PROVE  /\ TxBytes(t) \in Seq(Byte)
         /\ Len(TxBytes(t)) = 2 * IntSize + Len(Each(InputBytes, t.inputs))
              + Len(Each(TailBytes, t.tails)) + Len(t.pubKey) + Len(t.signature)
  <1> DEFINE a == IntBytes(Len(t.inputs))
             b == IntBytes(Len(t.tails))
             c == Each(InputBytes, t.inputs)
             d == Each(TailBytes, t.tails)
             e == t.pubKey
             f == t.signature
  <1>1. /\ a \in Seq(Byte) /\ b \in Seq(Byte) /\ Len(a) = IntSize /\ Len(b) = IntSize
    BY TxFields, IntBytesType
  <1>2. c \in Seq(Byte) /\ d \in Seq(Byte) /\ e \in Seq(Byte) /\ f \in Seq(Byte)
    BY TxFields, InputPartsType, TailPartsType
  <1>3. TxBytes(t) = (a \o b) \o (((c \o d) \o e) \o f)
    BY DEF TxBytes, TxeData
  <1> HIDE DEF a, b, c, d, e, f
  <1>4. a \o b \in Seq(Byte) /\ Len(a \o b) = Len(a) + Len(b)
    BY <1>1, ConcatProperties
  <1>5. c \o d \in Seq(Byte) /\ Len(c \o d) = Len(c) + Len(d)
    BY <1>2, ConcatProperties
  <1>6. (c \o d) \o e \in Seq(Byte) /\ Len((c \o d) \o e) = Len(c \o d) + Len(e)
    BY <1>2, <1>5, ConcatProperties
  <1>7. ((c \o d) \o e) \o f \in Seq(Byte) /\ Len(((c \o d) \o e) \o f) = Len((c \o d) \o e) + Len(f)
    BY <1>2, <1>6, ConcatProperties
  <1>8. /\ (a \o b) \o (((c \o d) \o e) \o f) \in Seq(Byte)
        /\ Len((a \o b) \o (((c \o d) \o e) \o f)) = Len(a \o b) + Len(((c \o d) \o e) \o f)
    BY <1>4, <1>7, ConcatProperties
  <1>9. Len(TxBytes(t)) = 2 * IntSize + Len(c) + Len(d) + Len(e) + Len(f)
    <2>1. Len(c) \in Nat /\ Len(d) \in Nat /\ Len(e) \in Nat /\ Len(f) \in Nat /\ IntSize \in Nat
      BY <1>2, ByteIs
    <2>2. Len(TxBytes(t)) = Len(a) + Len(b) + (Len(c) + Len(d) + Len(e) + Len(f))
      BY <1>1, <1>3, <1>4, <1>5, <1>6, <1>7, <1>8
    <2> QED BY <1>1, <2>1, <2>2
  <1> QED BY <1>3, <1>8, <1>9 DEF c, d, e, f

-----------------------------------------------------------------------------
(***************************************************************************)
(* Transactions.                                                           *)
(***************************************************************************)
\* A number that fits is kept.
LEMMA LowIs ==
  ASSUME NEW v \in Nat, v < Power[IntSize]
  PROVE  Low(v) = v
  <1>1. Power[IntSize] \in Nat \ {0}
    BY ByteIs, PowerIs
  <1> QED BY <1>1 DEF Low

\* Where the fields of a transaction are looked for is where they were written.
LEMMA TxPlaces ==
  ASSUME NEW data \in Seq(Byte), NEW p \in Nat, NEW t \in TxType, TxFramed(t),
         HasAt(data, p, TxBytes(t)),
         Len(t.inputs) < Power[IntSize], Len(t.tails) < Power[IntSize]
  PROVE  /\ IntAt(data, p) = Len(t.inputs) /\ IntAt(data, p + IntSize) = Len(t.tails)
         /\ p + 2 * IntSize \in Nat /\ HasAt(data, p + 2 * IntSize, Each(InputBytes, t.inputs))
         /\ TailsFrom(data, p) \in Nat
         /\ HasAt(data, TailsFrom(data, p), Each(TailBytes, t.tails))
         /\ KeyFrom(data, p) \in Nat /\ HasAt(data, KeyFrom(data, p), t.pubKey)
         /\ KeyFrom(data, p) + KeySize \in Nat
         /\ HasAt(data, KeyFrom(data, p) + KeySize, t.signature)
         /\ TxEnd(data, p) = p + Len(TxBytes(t))
  <1> DEFINE a == IntBytes(Len(t.inputs))
             b == IntBytes(Len(t.tails))
             c == Each(InputBytes, t.inputs)
             d == Each(TailBytes, t.tails)
             e == t.pubKey
             f == t.signature
             x == ((c \o d) \o e) \o f
  <1>0. /\ IntSize \in Nat /\ HashSize \in Nat /\ KeySize \in Nat /\ SignatureSize \in Nat
        /\ Len(t.inputs) \in Nat /\ Len(t.tails) \in Nat
    BY ByteIs, TxFields
  <1>1. /\ a \in Seq(Byte) /\ b \in Seq(Byte) /\ Len(a) = IntSize /\ Len(b) = IntSize
    BY TxFields, IntBytesType
  <1>2. c \in Seq(Byte) /\ d \in Seq(Byte) /\ e \in Seq(Byte) /\ f \in Seq(Byte)
    BY TxFields, InputPartsType, TailPartsType
  <1>3. Len(e) = KeySize /\ Len(f) = SignatureSize
    BY DEF TxFramed
  <1>4. TxBytes(t) = (a \o b) \o x
    BY DEF TxBytes, TxeData
  <1> HIDE DEF a, b, c, d, e, f
  <1>5. a \o b \in Seq(Byte) /\ Len(a \o b) = 2 * IntSize
    <2>1. a \o b \in Seq(Byte) /\ Len(a \o b) = Len(a) + Len(b)
      BY <1>1, ConcatProperties
    <2> QED BY <1>0, <1>1, <2>1
  <1>6. c \o d \in Seq(Byte) /\ Len(c \o d) = Len(c) + Len(d)
    BY <1>2, ConcatProperties
  <1>7. (c \o d) \o e \in Seq(Byte) /\ Len((c \o d) \o e) = Len(c \o d) + Len(e)
    BY <1>2, <1>6, ConcatProperties
  <1>8. x \in Seq(Byte) /\ Len(x) = Len((c \o d) \o e) + Len(f)
    BY <1>2, <1>7, ConcatProperties
  <1> DEFINE q == p + 2 * IntSize
  <1>9. HasAt(data, p, a \o b) /\ HasAt(data, q, x) /\ q \in Nat
    <2>1. HasAt(data, p, (a \o b) \o x)
      BY <1>4
    <2> DEFINE h == a \o b
    <2> HIDE DEF x, h
    <2>2. HasAt(data, p, h \o x) /\ h \in Seq(Byte) /\ x \in Seq(Byte) /\ Len(h) = 2 * IntSize
      BY <1>5, <1>8, <2>1 DEF h
    <2>3. HasAt(data, p, h) /\ HasAt(data, p + Len(h), x) /\ p + Len(h) \in Nat
      BY <2>2, HasConcat
    <2> QED BY <2>2, <2>3 DEF h
  <1>10. HasAt(data, p, a) /\ HasAt(data, p + IntSize, b) /\ p + IntSize \in Nat
    BY <1>1, <1>9, HasConcat
  <1> HIDE DEF q
  <1>11. HasAt(data, q, (c \o d) \o e) /\ HasAt(data, q + Len((c \o d) \o e), f)
    BY <1>2, <1>7, <1>9, HasConcat
  <1>12. HasAt(data, q, c \o d) /\ HasAt(data, q + Len(c \o d), e)
    BY <1>2, <1>6, <1>9, <1>11, HasConcat
  <1>13. HasAt(data, q, c) /\ HasAt(data, q + Len(c), d) /\ q + Len(c) \in Nat
    BY <1>2, <1>9, <1>12, HasConcat
  <1>14. IntAt(data, p) = Len(t.inputs)
    <2>1. IntAt(data, p) = Low(Len(t.inputs))
      BY <1>0, <1>10, IntRead DEF a
    <2>2. Low(Len(t.inputs)) = Len(t.inputs)
      BY <1>0, LowIs
    <2> QED BY <2>1, <2>2
  <1>15. IntAt(data, p + IntSize) = Len(t.tails)
    <2>1. IntAt(data, p + IntSize) = Low(Len(t.tails))
      BY <1>0, <1>10, IntRead DEF b
    <2> QED BY <1>0, <2>1, LowIs
  <1>16. Len(c) = Len(t.inputs) * InputSize
    <2>1. \A i \in 1 .. Len(t.inputs) : Len(t.inputs[i].hash) = HashSize
      BY TxFields DEF TxFramed
    <2>2. HasAt(data, q, Each(InputBytes, t.inputs)) /\ t.inputs \in Seq(InputType)
      BY <1>13, TxFields DEF c
    <2>3. Len(Each(InputBytes, t.inputs)) = Len(t.inputs) * InputSize
      BY <1>9, <2>1, <2>2, InputsRead
    <2> QED BY <2>3 DEF c
  <1>17. Len(d) = Len(t.tails) * TailSize
    <2>1. \A i \in 1 .. Len(t.tails) : Len(t.tails[i].address) = HashSize
      BY TxFields DEF TxFramed
    <2> QED BY <1>13, <2>1, TailsRead, TxFields DEF d
  <1>18. TailsFrom(data, p) = q + Len(c)
    BY <1>14, <1>16 DEF TailsFrom, q, InputSize
  <1>19. KeyFrom(data, p) = q + Len(c) + Len(d)
    BY <1>15, <1>17, <1>18 DEF KeyFrom, TailSize
  <1>20. Len(c) \in Nat /\ Len(d) \in Nat
    BY <1>2
  <1>21. Len(c \o d) = Len(c) + Len(d) /\ Len((c \o d) \o e) = Len(c) + Len(d) + KeySize
    BY <1>3, <1>6, <1>7
  <1>22. TxEnd(data, p) = q + Len(c) + Len(d) + KeySize + SignatureSize
    BY <1>19 DEF TxEnd
  <1>23. Len(TxBytes(t)) = 2 * IntSize + Len(c) + Len(d) + KeySize + SignatureSize
    BY <1>3, TxBytesType DEF c, d, e, f
  <1>24. TxEnd(data, p) = p + Len(TxBytes(t))
    BY <1>0, <1>20, <1>22, <1>23 DEF q
  <1>25. HasAt(data, KeyFrom(data, p), e) /\ KeyFrom(data, p) \in Nat
    <2>1. KeyFrom(data, p) = q + Len(c \o d)
      BY <1>9, <1>19, <1>20, <1>21
    <2> QED BY <1>9, <1>12, <1>19, <1>20, <2>1
  <1>26. HasAt(data, KeyFrom(data, p) + KeySize, f) /\ KeyFrom(data, p) + KeySize \in Nat
    <2>1. KeyFrom(data, p) + KeySize = q + Len((c \o d) \o e)
      BY <1>0, <1>9, <1>19, <1>20, <1>21
    <2> QED BY <1>0, <1>11, <1>25, <2>1
  <1> QED BY <1>9, <1>13, <1>14, <1>15, <1>18, <1>24, <1>25, <1>26 DEF c, d, e, f, q

\* A framed transaction is read from wherever it stands, up to its last byte.
LEMMA TxRead ==
  ASSUME NEW data \in Seq(Byte), NEW p \in Nat, NEW t \in TxType, TxFramed(t),
         HasAt(data, p, TxBytes(t)),
         Len(t.inputs) < Power[IntSize], Len(t.tails) < Power[IntSize]
  PROVE  TxAt(data, p) = TxKept(t) /\ TxEnd(data, p) = p + Len(TxBytes(t))
  <1> DEFINE m == TailsFrom(data, p)
             k == KeyFrom(data, p)
  <1>1. /\ IntAt(data, p) = Len(t.inputs) /\ IntAt(data, p + IntSize) = Len(t.tails)
        /\ p + 2 * IntSize \in Nat /\ HasAt(data, p + 2 * IntSize, Each(InputBytes, t.inputs))
        /\ m \in Nat /\ HasAt(data, m, Each(TailBytes, t.tails))
        /\ k \in Nat /\ HasAt(data, k, t.pubKey)
        /\ k + KeySize \in Nat /\ HasAt(data, k + KeySize, t.signature)
        /\ TxEnd(data, p) = p + Len(TxBytes(t))
    BY TxPlaces
  <1> HIDE DEF m, k
  <1>2. \A i \in 1 .. Len(t.inputs) :
           InputAt(data, p + 2 * IntSize + (i - 1) * InputSize) = InputKept(t.inputs[i])
    <2>1. \A i \in 1 .. Len(t.inputs) : Len(t.inputs[i].hash) = HashSize
      BY TxFields DEF TxFramed
    <2> QED BY <1>1, <2>1, InputsRead, TxFields
  <1>3. \A i \in 1 .. Len(t.tails) : TailAt(data, m + (i - 1) * TailSize) = TailKept(t.tails[i])
    <2>1. \A i \in 1 .. Len(t.tails) : Len(t.tails[i].address) = HashSize
      BY TxFields DEF TxFramed
    <2> QED BY <1>1, <2>1, TailsRead, TxFields
  <1>4. Cut(data, k, KeySize) = t.pubKey /\ Cut(data, k + KeySize, SignatureSize) = t.signature
    <2>1. Len(t.pubKey) = KeySize /\ Len(t.signature) = SignatureSize
      BY DEF TxFramed
    <2>2. Cut(data, k, Len(t.pubKey)) = t.pubKey
      BY <1>1, CutRead, TxFields
    <2>3. Cut(data, k + KeySize, Len(t.signature)) = t.signature
      BY <1>1, CutRead, TxFields
    <2> QED BY <2>1, <2>2, <2>3
  <1>5. [i \in 1 .. IntAt(data, p) |->
           InputAt(data, p + 2 * IntSize + (i - 1) * (3 * IntSize + HashSize))]
          = [i \in DOMAIN t.inputs |-> InputKept(t.inputs[i])]
    BY <1>1, <1>2, TxFields DEF InputSize
  <1>6. [i \in 1 .. IntAt(data, p + IntSize) |-> TailAt(data, m + (i - 1) * (IntSize + HashSize))]
          = [i \in DOMAIN t.tails |-> TailKept(t.tails[i])]
    BY <1>1, <1>3, TxFields DEF TailSize
  <1> QED BY <1>1, <1>4, <1>5, <1>6 DEF TxAt, TxKept, m, k

\* A transaction ends somewhere.
LEMMA TxEndType ==
  ASSUME NEW data \in Seq(Byte), NEW p \in Nat
  PROVE  TxEnd(data, p) \in Nat
  <1>1. /\ IntSize \in Nat /\ HashSize \in Nat /\ KeySize \in Nat /\ SignatureSize \in Nat
    BY ByteIs
  <1>2. IntAt(data, p) \in Nat /\ IntAt(data, p + IntSize) \in Nat
    <2>1. p + IntSize \in Nat
      BY <1>1
    <2> QED BY <2>1, IntAtType
  <1> DEFINE m == IntAt(data, p)
             n == IntAt(data, p + IntSize)
  <1>3. TxEnd(data, p) = p + 2 * IntSize + m * (3 * IntSize + HashSize)
                           + n * (IntSize + HashSize) + KeySize + SignatureSize
    BY DEF TxEnd, KeyFrom, TailsFrom
  <1> HIDE DEF m, n
  <1>4. m \in Nat /\ n \in Nat
    BY <1>2 DEF m, n
  <1>5. 3 * IntSize + HashSize \in Nat /\ IntSize + HashSize \in Nat
    BY <1>1
  <1>6. m * (3 * IntSize + HashSize) \in Nat /\ n * (IntSize + HashSize) \in Nat
    BY <1>4, <1>5
  <1> QED BY <1>1, <1>3, <1>6

\* Where n transactions end, by the recursion of TxsEnd.
LEMMA TxsEndIs ==
  ASSUME NEW data \in Seq(Byte)
  PROVE  /\ TxsEnd(data, 0) = CountFrom + IntSize
         /\ \A k \in Nat : TxsEnd(data, k) \in Nat
         /\ \A k \in Nat : TxsEnd(data, k + 1) = TxEnd(data, TxsEnd(data, k))
  <1> DEFINE step == [k \in Nat |-> [v \in Nat |-> TxEnd(data, v)]]
             F(f) == f = [k \in Nat |-> IF k = 0 THEN CountFrom + IntSize ELSE TxEnd(data, f[k - 1])]
  <1>0. CountFrom + IntSize \in Nat
    BY ByteIs DEF CountFrom
  <1>1. PICK g : FollowsIn(g, Nat, CountFrom + IntSize, step)
    <2>1. StaysIn(step, Nat)
      BY TxEndType DEF StaysIn
    <2> HIDE DEF step
    <2> QED BY <1>0, <2>1, RecursionOnNat
  <1>2. F(g)
    <2>1. ASSUME NEW i \in Nat
          PROVE  g[i] = IF i = 0 THEN CountFrom + IntSize ELSE TxEnd(data, g[i - 1])
      <3>1. CASE i = 0
        BY <1>1, <3>1 DEF FollowsIn
      <3>2. CASE i # 0
        <4>1. i - 1 \in Nat /\ (i - 1) + 1 = i
          BY <3>2
        <4>2. g[i] = step[i - 1][g[i - 1]] /\ g[i - 1] \in Nat
          BY <1>1, <4>1 DEF FollowsIn
        <4> QED BY <3>2, <4>1, <4>2
      <3> QED BY <3>1, <3>2
    <2>2. g = [i \in Nat |-> g[i]]
      BY <1>1 DEF FollowsIn
    <2> QED BY <2>1, <2>2
  <1> DEFINE end == CHOOSE f : F(f)
  <1>3. F(end)
    <2> HIDE DEF F
    <2> QED BY <1>2
  <1>4. \A k : TxsEnd(data, k) = end[k]
    BY DEF TxsEnd
  <1> HIDE DEF end
  <1>5. end[0] = CountFrom + IntSize
    BY <1>3
  <1>6. \A k \in Nat : end[k + 1] = TxEnd(data, end[k])
    <2> SUFFICES ASSUME NEW k \in Nat PROVE end[k + 1] = TxEnd(data, end[k])
      OBVIOUS
    <2>1. k + 1 \in Nat /\ k + 1 # 0 /\ (k + 1) - 1 = k
      OBVIOUS
    <2> QED BY <1>3, <2>1
  <1> DEFINE T == {k \in Nat : end[k] \in Nat}
  <1>7. 0 \in T
    BY <1>0, <1>5
  <1>8. ASSUME NEW k \in Nat, k \in T PROVE k + 1 \in T
    <2>1. end[k] \in Nat
      BY <1>8
    <2>2. TxEnd(data, end[k]) \in Nat
      BY <2>1, TxEndType
    <2>3. end[k + 1] = TxEnd(data, end[k]) /\ k + 1 \in Nat
      BY <1>6
    <2> QED BY <2>2, <2>3
  <1>9. \A k \in Nat : k \in T
    <2> HIDE DEF T
    <2> QED BY <1>7, <1>8, InductionOnNat
  <1> QED BY <1>4, <1>5, <1>6, <1>9

\* A list that stands in data has no more items than bytes.
LEMMA CountFits ==
  ASSUME NEW n \in Nat, NEW k \in Nat \ {0}
  PROVE  n <= n * k
  OBVIOUS

\* A transaction in data that fits has numbers of inputs and outputs that fit.
LEMMA TxFits ==
  ASSUME NEW data \in Seq(Byte), NEW p \in Nat, NEW t \in TxType, TxFramed(t),
         HasAt(data, p, TxBytes(t)), Len(data) < Power[IntSize]
  PROVE  /\ Len(t.inputs) < Power[IntSize] /\ Len(t.tails) < Power[IntSize]
         /\ Len(TxBytes(t)) \in Nat \ {0}
  <1> DEFINE a == IntBytes(Len(t.inputs))
             b == IntBytes(Len(t.tails))
             c == Each(InputBytes, t.inputs)
             d == Each(TailBytes, t.tails)
  <1>0. /\ IntSize \in Nat \ {0} /\ HashSize \in Nat /\ Len(data) \in Nat
        /\ Len(t.inputs) \in Nat /\ Len(t.tails) \in Nat /\ Power[IntSize] \in Nat
    BY ByteIs, TxFields, PowerIs
  <1>1. c \in Seq(Byte) /\ d \in Seq(Byte) /\ t.pubKey \in Seq(Byte) /\ t.signature \in Seq(Byte)
    BY TxFields, InputPartsType, TailPartsType
  <1>2. Len(TxBytes(t)) = 2 * IntSize + Len(c) + Len(d) + Len(t.pubKey) + Len(t.signature)
    BY TxBytesType
  <1> HIDE DEF c, d
  <1>3. Len(c) \in Nat /\ Len(d) \in Nat /\ Len(t.pubKey) \in Nat /\ Len(t.signature) \in Nat
    BY <1>1
  <1>4. Len(TxBytes(t)) \in Nat \ {0} /\ Len(c) <= Len(TxBytes(t)) /\ Len(d) <= Len(TxBytes(t))
    <2> DEFINE n == Len(TxBytes(t))
               e == Len(t.pubKey)
               f == Len(t.signature)
               g == Len(c)
               h == Len(d)
    <2>1. /\ n = 2 * IntSize + g + h + e + f
          /\ g \in Nat /\ h \in Nat /\ e \in Nat /\ f \in Nat
      BY <1>2, <1>3
    <2> HIDE DEF n, e, f, g, h
    <2>2. n \in Nat \ {0} /\ g <= n /\ h <= n
      BY <1>0, <2>1
    <2> QED BY <2>2 DEF n, g, h
  <1>5. p + Len(TxBytes(t)) <= Len(data)
    BY DEF HasAt
  <1>6. Len(c) <= Len(data) /\ Len(d) <= Len(data)
    BY <1>0, <1>3, <1>4, <1>5
  <1>7. Len(c) = Len(t.inputs) * InputSize
    <2>1. \A i \in 1 .. Len(t.inputs) : Len(t.inputs[i].hash) = HashSize
      BY TxFields DEF TxFramed
    <2> QED BY <2>1, InputsLength, TxFields DEF c
  <1>8. Len(d) = Len(t.tails) * TailSize
    <2>1. \A i \in 1 .. Len(t.tails) : Len(t.tails[i].address) = HashSize
      BY TxFields DEF TxFramed
    <2> QED BY <2>1, TailsLength, TxFields DEF d
  <1>9. InputSize \in Nat \ {0} /\ TailSize \in Nat \ {0}
    BY <1>0 DEF InputSize, TailSize
  <1>10. Len(t.inputs) <= Len(c) /\ Len(t.tails) <= Len(d)
    BY <1>0, <1>7, <1>8, <1>9, CountFits
  <1> QED BY <1>0, <1>3, <1>4, <1>6, <1>10

-----------------------------------------------------------------------------
(***************************************************************************)
(* Blocks.                                                                 *)
(***************************************************************************)
TxParts(txs) == [i \in DOMAIN txs |-> TxBytes(txs[i])]

\* The bytes of the transactions, transaction by transaction.
LEMMA TxPartsType ==
  ASSUME NEW txs \in Seq(TxType)
  PROVE  /\ TxParts(txs) \in Seq(Seq(Byte)) /\ Len(TxParts(txs)) = Len(txs)
         /\ \A i \in 1 .. Len(txs) : TxParts(txs)[i] = TxBytes(txs[i])
         /\ Each(TxBytes, txs) = FlattenSeq(TxParts(txs))
         /\ Each(TxBytes, txs) \in Seq(Byte)
  <1>1. Len(txs) \in Nat /\ DOMAIN txs = 1 .. Len(txs)
    OBVIOUS
  <1>2. TxParts(txs) \in [1 .. Len(txs) -> Seq(Byte)]
    <2>1. \A i \in 1 .. Len(txs) : TxBytes(txs[i]) \in Seq(Byte)
      BY TxBytesType
    <2> QED BY <1>1, <2>1 DEF TxParts
  <1>3. TxParts(txs) \in Seq(Seq(Byte)) /\ Len(TxParts(txs)) = Len(txs)
    BY <1>1, <1>2, IsASeq
  <1>4. Each(TxBytes, txs) = FlattenSeq(TxParts(txs))
    BY DEF Each, TxParts
  <1>5. \A i \in 1 .. Len(txs) : TxParts(txs)[i] = TxBytes(txs[i])
    BY <1>1 DEF TxParts
  <1> QED BY <1>3, <1>4, <1>5, PartsEnd

\* The transactions of a block are found one behind the other.
LEMMA TxsRead ==
  ASSUME NEW data \in Seq(Byte), Len(data) < Power[IntSize], NEW txs \in Seq(TxType),
         \A i \in 1 .. Len(txs) : TxFramed(txs[i]),
         HasAt(data, CountFrom + IntSize, Each(TxBytes, txs))
  PROVE  /\ Len(txs) < Power[IntSize]
         /\ TxsEnd(data, Len(txs)) = CountFrom + IntSize + Len(Each(TxBytes, txs))
         /\ \A i \in 1 .. Len(txs) : TxAt(data, TxsEnd(data, i - 1)) = TxKept(txs[i])
  <1> DEFINE ss == TxParts(txs)
             p == CountFrom + IntSize
             n == Len(txs)
  <1>0. p \in Nat /\ n \in Nat /\ Len(data) \in Nat /\ Power[IntSize] \in Nat
    <2>1. IntSize \in Nat /\ HashSize \in Nat
      BY ByteIs
    <2>2. Power[IntSize] \in Nat
      BY <2>1, PowerIs
    <2>3. p \in Nat
      BY <2>1 DEF CountFrom
    <2> QED BY <2>2, <2>3
  <1>1. /\ ss \in Seq(Seq(Byte)) /\ Len(ss) = n
        /\ \A i \in 1 .. n : ss[i] = TxBytes(txs[i])
        /\ Each(TxBytes, txs) = FlattenSeq(ss)
    BY TxPartsType
  <1>2. \A i \in 1 .. n : txs[i] \in TxType /\ TxFramed(txs[i])
    OBVIOUS
  <1>3. HasAt(data, p, FlattenSeq(ss))
    BY <1>1
  <1>a. TxsEnd(data, 0) = p
    BY TxsEndIs
  <1> HIDE DEF ss, p, n
  <1>4. PICK g : Parts(g, Byte, ss) /\ FlattenSeq(ss) = g[Len(ss)]
    BY <1>1, FlatIs
  <1>5. HasParts(data, p, ss, g)
    <2>1. HasAt(data, p, g[Len(ss)])
      BY <1>3, <1>4
    <2> QED BY <1>0, <1>1, <1>4, <2>1, PartsAt
  <1>6. g[0] = << >> /\ \A k \in Nat : Len(g[k]) \in Nat
    BY <1>4 DEF Parts
  <1>7. ASSUME NEW i \in 1 .. n
        PROVE  LET q == p + Len(g[i - 1])
               IN /\ TxAt(data, q) = TxKept(txs[i])
                  /\ TxEnd(data, q) = p + Len(g[i]) /\ Len(g[i - 1]) + 1 <= Len(g[i])
    <2> DEFINE q == p + Len(g[i - 1])
               t == txs[i]
    <2>1. q \in Nat /\ HasAt(data, q, TxBytes(t)) /\ Len(g[i]) = Len(g[i - 1]) + Len(TxBytes(t))
      BY <1>1, <1>5 DEF HasParts
    <2>2. t \in TxType /\ TxFramed(t)
      BY <1>2
    <2>3. i - 1 \in Nat /\ i \in Nat
      BY <1>0
    <2>4. Len(g[i - 1]) \in Nat
      BY <1>6, <2>3
    <2> HIDE DEF q, t
    <2>5. Len(t.inputs) < Power[IntSize] /\ Len(t.tails) < Power[IntSize] /\ Len(TxBytes(t)) \in Nat \ {0}
      BY <2>1, <2>2, TxFits
    <2>6. TxAt(data, q) = TxKept(t) /\ TxEnd(data, q) = q + Len(TxBytes(t))
      BY <2>1, <2>2, <2>5, TxRead
    <2>7. TxEnd(data, q) = p + Len(g[i]) /\ Len(g[i - 1]) + 1 <= Len(g[i])
      BY <1>0, <2>1, <2>4, <2>5, <2>6 DEF q
    <2> QED BY <2>6, <2>7 DEF q, t
  <1> DEFINE T == {k \in Nat : k <= n => TxsEnd(data, k) = p + Len(g[k]) /\ k <= Len(g[k])}
  <1>8. 0 \in T
    <2>1. Len(g[0]) = 0
      BY <1>6
    <2> QED BY <1>0, <1>a, <2>1
  <1>9. ASSUME NEW k \in Nat, k \in T PROVE k + 1 \in T
    <2> SUFFICES ASSUME k + 1 <= n
                 PROVE  TxsEnd(data, k + 1) = p + Len(g[k + 1]) /\ k + 1 <= Len(g[k + 1])
      OBVIOUS
    <2>1. /\ k + 1 \in 1 .. n /\ (k + 1) - 1 = k
          /\ TxsEnd(data, k) = p + Len(g[k]) /\ k <= Len(g[k])
      BY <1>0, <1>9
    <2>2. TxEnd(data, p + Len(g[k])) = p + Len(g[k + 1]) /\ Len(g[k]) + 1 <= Len(g[k + 1])
      BY <1>7, <2>1
    <2>3. TxsEnd(data, k + 1) = TxEnd(data, TxsEnd(data, k))
      BY TxsEndIs
    <2>4. Len(g[k]) \in Nat /\ Len(g[k + 1]) \in Nat
      BY <1>6
    <2> QED BY <2>1, <2>2, <2>3, <2>4
  <1>10. \A k \in Nat : k \in T
    <2> HIDE DEF T
    <2> QED BY <1>8, <1>9, InductionOnNat
  <1>11. \A k \in 0 .. n : TxsEnd(data, k) = p + Len(g[k]) /\ k <= Len(g[k])
    BY <1>0, <1>10
  <1>12. n < Power[IntSize]
    <2>1. n <= Len(g[n]) /\ Len(g[n]) \in Nat
      BY <1>0, <1>6, <1>11
    <2>2. p + Len(g[n]) <= Len(data)
      BY <1>1, <1>3, <1>4 DEF HasAt
    <2> QED BY <1>0, <2>1, <2>2
  <1>13. TxsEnd(data, n) = p + Len(Each(TxBytes, txs))
    BY <1>0, <1>1, <1>4, <1>11
  <1>14. ASSUME NEW i \in 1 .. n PROVE TxAt(data, TxsEnd(data, i - 1)) = TxKept(txs[i])
    <2>1. i - 1 \in 0 .. n
      BY <1>0
    <2>2. TxsEnd(data, i - 1) = p + Len(g[i - 1])
      BY <1>11, <2>1
    <2> QED BY <1>7, <2>2
  <1> QED BY <1>12, <1>13, <1>14 DEF n, p

\* The fields of a block.
LEMMA BlockFields ==
  ASSUME NEW b \in BlockType
  PROVE  /\ b.version \in Nat /\ b.number \in Nat /\ b.bits \in Nat /\ b.nonce \in Nat
         /\ b.txsCount \in Nat /\ b.prevBlock \in Seq(Byte) /\ b.merkleRoot \in Seq(Byte)
         /\ b.txs \in Seq(TxType) /\ Len(b.txs) \in Nat /\ DOMAIN b.txs = 1 .. Len(b.txs)
  <1>1. /\ b.version \in Nat /\ b.number \in Nat /\ b.bits \in Nat /\ b.nonce \in Nat
        /\ b.txsCount \in Nat /\ b.prevBlock \in Seq(Byte) /\ b.merkleRoot \in Seq(Byte)
        /\ b.txs \in Seq(TxType)
    BY DEF BlockType
  <1> QED BY <1>1

\* One field more: what stands in data up to b, and b behind it.
LEMMA FieldBehind ==
  ASSUME NEW a \in Seq(Byte), NEW b \in Seq(Byte), NEW m \in Nat, NEW n \in Nat,
         Len(a) = m, Len(b) = n
  PROVE  a \o b \in Seq(Byte) /\ Len(a \o b) = m + n
  <1>1. a \o b \in Seq(Byte) /\ Len(a \o b) = Len(a) + Len(b)
    BY ConcatProperties
  <1> QED BY <1>1

\* The last field stands behind the others.
LEMMA FieldAt ==
  ASSUME NEW data \in Seq(Byte), NEW a \in Seq(Byte), NEW b \in Seq(Byte), NEW m \in Nat,
         Len(a) = m, HasAt(data, 0, a \o b)
  PROVE  HasAt(data, 0, a) /\ HasAt(data, m, b)
  <1>1. HasAt(data, 0, a) /\ HasAt(data, 0 + Len(a), b)
    BY HasConcat
  <1>2. 0 + Len(a) = m
    OBVIOUS
  <1> QED BY <1>1, <1>2

\* Where the fields of a block are looked for is where they were written.
LEMMA BlockPlaces ==
  ASSUME NEW b \in BlockType, Len(b.prevBlock) = HashSize, Len(b.merkleRoot) = HashSize
  PROVE  /\ BlockBytes(b) \in Seq(Byte)
         /\ Len(BlockBytes(b)) = CountFrom + IntSize + Len(Each(TxBytes, b.txs))
         /\ \A data \in Seq(Byte) : HasAt(data, 0, BlockBytes(b)) =>
              /\ IntAt(data, 0) = Low(b.version) /\ Cut(data, IntSize, HashSize) = b.prevBlock
              /\ IntAt(data, IntSize + HashSize) = Low(b.number)
              /\ Cut(data, 2 * IntSize + HashSize, HashSize) = b.merkleRoot
              /\ IntAt(data, 2 * IntSize + 2 * HashSize) = Low(b.bits)
              /\ IntAt(data, 3 * IntSize + 2 * HashSize) = Low(b.nonce)
              /\ IntAt(data, CountFrom) = Low(b.txsCount)
              /\ HasAt(data, CountFrom + IntSize, Each(TxBytes, b.txs))
  <1> DEFINE v == IntBytes(b.version)
             r == b.prevBlock
             n == IntBytes(b.number)
             m == b.merkleRoot
             t == IntBytes(b.bits)
             o == IntBytes(b.nonce)
             c == IntBytes(b.txsCount)
             x == Each(TxBytes, b.txs)
             l2 == IntSize + HashSize
             l3 == 2 * IntSize + HashSize
             l4 == 2 * IntSize + 2 * HashSize
             l5 == 3 * IntSize + 2 * HashSize
             l7 == CountFrom + IntSize
  <1>0. IntSize \in Nat /\ HashSize \in Nat
    BY ByteIs
  <1>1. /\ l2 \in Nat /\ l3 \in Nat /\ l4 \in Nat /\ l5 \in Nat /\ CountFrom \in Nat /\ l7 \in Nat
        /\ IntSize + HashSize = l2 /\ l2 + IntSize = l3 /\ l3 + HashSize = l4
        /\ l4 + IntSize = l5 /\ l5 + IntSize = CountFrom /\ CountFrom + IntSize = l7
    BY <1>0 DEF CountFrom
  <1>2. /\ v \in Seq(Byte) /\ Len(v) = IntSize /\ n \in Seq(Byte) /\ Len(n) = IntSize
        /\ t \in Seq(Byte) /\ Len(t) = IntSize /\ o \in Seq(Byte) /\ Len(o) = IntSize
        /\ c \in Seq(Byte) /\ Len(c) = IntSize
    BY BlockFields, IntBytesType
  <1>3. /\ r \in Seq(Byte) /\ Len(r) = HashSize /\ m \in Seq(Byte) /\ Len(m) = HashSize
        /\ x \in Seq(Byte)
    BY BlockFields, TxPartsType
  <1> DEFINE c2 == v \o r
             c3 == c2 \o n
             c4 == c3 \o m
             c5 == c4 \o t
             c6 == c5 \o o
             c7 == c6 \o c
  <1>4. BlockBytes(b) = c7 \o x
    BY DEF BlockBytes, BlockData
  <1> HIDE DEF v, r, n, m, t, o, c, x, l2, l3, l4, l5, l7
  <1>5. c2 \in Seq(Byte) /\ Len(c2) = l2
    <2>1. c2 \in Seq(Byte) /\ Len(c2) = IntSize + HashSize
      BY <1>0, <1>2, <1>3, FieldBehind
    <2> QED BY <1>1, <2>1
  <1> HIDE DEF c2
  <1>6. c3 \in Seq(Byte) /\ Len(c3) = l3
    <2>1. c3 \in Seq(Byte) /\ Len(c3) = l2 + IntSize
      BY <1>0, <1>1, <1>2, <1>5, FieldBehind
    <2> QED BY <1>1, <2>1
  <1> HIDE DEF c3
  <1>7. c4 \in Seq(Byte) /\ Len(c4) = l4
    <2>1. c4 \in Seq(Byte) /\ Len(c4) = l3 + HashSize
      BY <1>0, <1>1, <1>3, <1>6, FieldBehind
    <2> QED BY <1>1, <2>1
  <1> HIDE DEF c4
  <1>8. c5 \in Seq(Byte) /\ Len(c5) = l5
    <2>1. c5 \in Seq(Byte) /\ Len(c5) = l4 + IntSize
      BY <1>0, <1>1, <1>2, <1>7, FieldBehind
    <2> QED BY <1>1, <2>1
  <1> HIDE DEF c5
  <1>9. c6 \in Seq(Byte) /\ Len(c6) = CountFrom
    <2>1. c6 \in Seq(Byte) /\ Len(c6) = l5 + IntSize
      BY <1>0, <1>1, <1>2, <1>8, FieldBehind
    <2> QED BY <1>1, <2>1
  <1> HIDE DEF c6
  <1>10. c7 \in Seq(Byte) /\ Len(c7) = l7
    <2>1. c7 \in Seq(Byte) /\ Len(c7) = CountFrom + IntSize
      BY <1>0, <1>1, <1>2, <1>9, FieldBehind
    <2> QED BY <1>1, <2>1
  <1> HIDE DEF c7
  <1>11. c7 \o x \in Seq(Byte) /\ Len(c7 \o x) = l7 + Len(x)
    <2>1. Len(x) \in Nat
      BY <1>3
    <2> QED BY <1>1, <1>3, <1>10, <2>1, FieldBehind
  <1>12. ASSUME NEW data \in Seq(Byte), HasAt(data, 0, BlockBytes(b))
         PROVE  /\ IntAt(data, 0) = Low(b.version) /\ Cut(data, IntSize, HashSize) = b.prevBlock
                /\ IntAt(data, l2) = Low(b.number) /\ Cut(data, l3, HashSize) = b.merkleRoot
                /\ IntAt(data, l4) = Low(b.bits) /\ IntAt(data, l5) = Low(b.nonce)
                /\ IntAt(data, CountFrom) = Low(b.txsCount) /\ HasAt(data, l7, x)
    <2>1. HasAt(data, 0, c7) /\ HasAt(data, l7, x)
      BY <1>1, <1>3, <1>4, <1>10, <1>12, FieldAt
    <2>2. HasAt(data, 0, c6) /\ HasAt(data, CountFrom, c)
      BY <1>1, <1>2, <1>9, <2>1, FieldAt DEF c7
    <2>3. HasAt(data, 0, c5) /\ HasAt(data, l5, o)
      BY <1>1, <1>2, <1>8, <2>2, FieldAt DEF c6
    <2>4. HasAt(data, 0, c4) /\ HasAt(data, l4, t)
      BY <1>1, <1>2, <1>7, <2>3, FieldAt DEF c5
    <2>5. HasAt(data, 0, c3) /\ HasAt(data, l3, m)
      BY <1>1, <1>3, <1>6, <2>4, FieldAt DEF c4
    <2>6. HasAt(data, 0, c2) /\ HasAt(data, l2, n)
      BY <1>1, <1>2, <1>5, <2>5, FieldAt DEF c3
    <2>7. HasAt(data, 0, v) /\ HasAt(data, IntSize, r)
      BY <1>0, <1>2, <1>3, <2>6, FieldAt DEF c2
    <2>8. IntAt(data, 0) = Low(b.version)
      BY <2>7, IntRead, BlockFields DEF v
    <2>9. IntAt(data, l2) = Low(b.number)
      BY <1>1, <2>6, IntRead, BlockFields DEF n
    <2>10. IntAt(data, l4) = Low(b.bits)
      BY <1>1, <2>4, IntRead, BlockFields DEF t
    <2>11. IntAt(data, l5) = Low(b.nonce)
      BY <1>1, <2>3, IntRead, BlockFields DEF o
    <2>12. IntAt(data, CountFrom) = Low(b.txsCount)
      BY <1>1, <2>2, IntRead, BlockFields DEF c
    <2>13. Cut(data, IntSize, HashSize) = r
      BY <1>0, <1>3, <2>7, CutRead
    <2>14. Cut(data, l3, HashSize) = m
      BY <1>1, <1>3, <2>5, CutRead
    <2> QED BY <2>1, <2>8, <2>9, <2>10, <2>11, <2>12, <2>13, <2>14 DEF r, m
  <1> QED BY <1>4, <1>11, <1>12 DEF l2, l3, l4, l5, l7, x

\* Data stands at its own beginning.
LEMMA HasAll ==
  ASSUME NEW S, NEW data \in Seq(S)
  PROVE  HasAt(data, 0, data)
  <1>1. Len(data) \in Nat /\ 0 + Len(data) <= Len(data)
    OBVIOUS
  <1>2. \A i \in 1 .. Len(data) : data[0 + i] = data[i]
    OBVIOUS
  <1> QED BY <1>1, <1>2 DEF HasAt

\* A block with hashes and transactions of the sizes the reader expects, and as
\* many of them as its count says, is read back from its bytes, each field where
\* Data wrote it, and nothing past their end is read (block.cpp:134-153).
THEOREM BlocksReadBack ==
  ASSUME NEW b \in BlockType, BlockFramed(b), Len(BlockBytes(b)) < Power[IntSize]
  PROVE  /\ BlockBytes(b) \in Seq(Byte)
         /\ BlockAt(BlockBytes(b)) = BlockKept(b) /\ BlockEnd(BlockBytes(b)) = Len(BlockBytes(b))
  <1> DEFINE data == BlockBytes(b)
             n == Len(b.txs)
  <1>1. /\ Len(b.prevBlock) = HashSize /\ Len(b.merkleRoot) = HashSize /\ b.txsCount = n
        /\ \A i \in 1 .. n : TxFramed(b.txs[i])
    BY BlockFields DEF BlockFramed
  <1>2. data \in Seq(Byte) /\ Len(data) = CountFrom + IntSize + Len(Each(TxBytes, b.txs))
    BY <1>1, BlockPlaces
  <1>3. HasAt(data, 0, BlockBytes(b))
    BY <1>2, HasAll
  <1>4. /\ IntAt(data, 0) = Low(b.version) /\ Cut(data, IntSize, HashSize) = b.prevBlock
        /\ IntAt(data, IntSize + HashSize) = Low(b.number)
        /\ Cut(data, 2 * IntSize + HashSize, HashSize) = b.merkleRoot
        /\ IntAt(data, 2 * IntSize + 2 * HashSize) = Low(b.bits)
        /\ IntAt(data, 3 * IntSize + 2 * HashSize) = Low(b.nonce)
        /\ IntAt(data, CountFrom) = Low(n)
        /\ HasAt(data, CountFrom + IntSize, Each(TxBytes, b.txs))
    BY <1>1, <1>2, <1>3, BlockPlaces
  <1>5. Len(data) < Power[IntSize]
    OBVIOUS
  <1> HIDE DEF data
  <1>6. /\ n < Power[IntSize] /\ TxsEnd(data, n) = CountFrom + IntSize + Len(Each(TxBytes, b.txs))
        /\ \A i \in 1 .. n : TxAt(data, TxsEnd(data, i - 1)) = TxKept(b.txs[i])
    BY <1>1, <1>2, <1>4, <1>5, TxsRead, BlockFields
  <1>7. Low(n) = n /\ n \in Nat
    BY <1>6, LowIs, BlockFields
  <1>8. BlockEnd(data) = Len(data)
    BY <1>2, <1>4, <1>6, <1>7 DEF BlockEnd
  <1>9. [i \in 1 .. IntAt(data, CountFrom) |-> TxAt(data, TxsEnd(data, i - 1))]
          = [i \in DOMAIN b.txs |-> TxKept(b.txs[i])]
    BY <1>4, <1>6, <1>7, BlockFields
  <1>10. BlockAt(data) = BlockKept(b)
    BY <1>1, <1>4, <1>9 DEF BlockAt, BlockKept
  <1> QED BY <1>2, <1>8, <1>10 DEF data

\* A transaction with a hash, address, key and signature of the sizes the reader
\* expects is read back from its bytes, each field where Data wrote it, and
\* nothing past their end is read (transaction.cpp:157-192).
THEOREM TransactionsReadBack ==
  ASSUME NEW t \in TxType, TxFramed(t), Len(TxBytes(t)) < Power[IntSize]
  PROVE  /\ TxBytes(t) \in Seq(Byte)
         /\ TxAt(TxBytes(t), 0) = TxKept(t) /\ TxEnd(TxBytes(t), 0) = Len(TxBytes(t))
  <1> DEFINE data == TxBytes(t)
  <1>1. data \in Seq(Byte) /\ Len(data) \in Nat
    BY TxBytesType
  <1>2. HasAt(data, 0, TxBytes(t))
    BY <1>1, HasAll
  <1>3. Len(t.inputs) < Power[IntSize] /\ Len(t.tails) < Power[IntSize]
    BY <1>1, <1>2, TxFits
  <1>4. TxAt(data, 0) = TxKept(t) /\ TxEnd(data, 0) = 0 + Len(TxBytes(t))
    BY <1>1, <1>2, <1>3, TxRead
  <1> QED BY <1>1, <1>4

-----------------------------------------------------------------------------
(***************************************************************************)
(* What is read of any bytes is written back as the bytes it was read of.  *)
(***************************************************************************)
\* Two sequences stand one behind the other.
LEMMA HasBoth ==
  ASSUME NEW S, NEW data \in Seq(S), NEW p \in Nat, NEW a \in Seq(S), NEW b \in Seq(S),
         HasAt(data, p, a), HasAt(data, p + Len(a), b)
  PROVE  HasAt(data, p, a \o b) /\ Len(a \o b) = Len(a) + Len(b)
  <1> DEFINE c == a \o b
  <1>1. /\ Len(c) = Len(a) + Len(b) /\ Len(a) \in Nat /\ Len(b) \in Nat /\ Len(data) \in Nat
        /\ \A i \in 1 .. Len(a) + Len(b) : c[i] = IF i <= Len(a) THEN a[i] ELSE b[i - Len(a)]
    BY ConcatProperties
  <1>2. /\ \A i \in 1 .. Len(a) : data[p + i] = a[i]
        /\ (p + Len(a)) + Len(b) <= Len(data)
        /\ \A i \in 1 .. Len(b) : data[(p + Len(a)) + i] = b[i]
    BY DEF HasAt
  <1> HIDE DEF c
  <1>3. ASSUME NEW i \in 1 .. Len(c) PROVE data[p + i] = c[i]
    <2>1. CASE i <= Len(a)
      <3>1. i \in 1 .. Len(a) /\ i \in 1 .. Len(a) + Len(b)
        BY <1>1, <2>1
      <3>2. c[i] = a[i]
        BY <1>1, <2>1, <3>1
      <3> QED BY <1>2, <3>1, <3>2
    <2>2. CASE ~(i <= Len(a))
      <3>1. /\ i - Len(a) \in 1 .. Len(b) /\ (p + Len(a)) + (i - Len(a)) = p + i
            /\ i \in 1 .. Len(a) + Len(b)
        BY <1>1, <2>2
      <3>2. data[(p + Len(a)) + (i - Len(a))] = b[i - Len(a)]
        BY <1>2, <3>1
      <3>3. c[i] = b[i - Len(a)]
        BY <1>1, <2>2, <3>1
      <3> QED BY <3>1, <3>2, <3>3
    <2> QED BY <2>1, <2>2
  <1>4. p + Len(c) <= Len(data)
    BY <1>1, <1>2
  <1>5. HasAt(data, p, c)
    BY <1>3, <1>4 DEF HasAt
  <1> QED BY <1>1, <1>5 DEF c

\* The value is what its low bytes make and a multiple of what they can be.
LEMMA SumsAbove ==
  ASSUME NEW data \in Seq(Byte), NEW p \in Nat, NEW f, Sums(f, data, p)
  PROVE  \A k \in 0 .. IntSize : \E r \in Nat : f[IntSize] = f[k] + Power[k] * r
  <1>0. IntSize \in Nat /\ Base \in Nat
    BY ByteIs
  <1>1. \A k \in 0 .. IntSize : f[k] \in Nat
    BY SumsFit
  <1> DEFINE T == {j \in Nat : j <= IntSize =>
                     \E r \in Nat : f[IntSize] = f[IntSize - j] + Power[IntSize - j] * r}
  <1>2. 0 \in T
    <2>0. IntSize \in 0 .. IntSize /\ IntSize - 0 = IntSize /\ 0 \in Nat
      BY <1>0
    <2>1. f[IntSize] \in Nat /\ Power[IntSize] \in Nat
      BY <1>0, <1>1, <2>0, PowerIs
    <2>2. f[IntSize] = f[IntSize] + Power[IntSize] * 0
      BY <2>1
    <2> QED BY <2>0, <2>2
  <1>3. ASSUME NEW j \in Nat, j \in T PROVE j + 1 \in T
    <2> SUFFICES ASSUME j + 1 <= IntSize
                 PROVE  \E r \in Nat : f[IntSize] = f[IntSize - (j + 1)] + Power[IntSize - (j + 1)] * r
      OBVIOUS
    <2> DEFINE k == IntSize - (j + 1)
    <2>1. k \in 0 .. IntSize - 1 /\ k \in 0 .. IntSize /\ k + 1 = IntSize - j /\ k \in Nat /\ j <= IntSize
      BY <1>0
    <2> HIDE DEF k
    <2>2. PICK r \in Nat : f[IntSize] = f[k + 1] + Power[k + 1] * r
      BY <1>3, <2>1
    <2> DEFINE b == At(data, p + (k + 1))
               P == Power[k]
    <2>3. b \in Nat
      <3>1. p + (k + 1) \in Nat \ {0}
        BY <2>1
      <3>2. b \in Byte
        BY <3>1, AtType
      <3> QED BY <3>2, ByteIs
    <2>4. f[k + 1] = f[k] + P * b /\ P \in Nat /\ Power[k + 1] = Base * P /\ f[k] \in Nat
      BY <1>1, <2>1, PowerIs DEF Sums
    <2> HIDE DEF b, P
    <2>5. b + Base * r \in Nat /\ (f[k] + P * b) + (Base * P) * r = f[k] + P * (b + Base * r)
      BY <1>0, <2>3, <2>4
    <2>6. f[IntSize] = f[k] + P * (b + Base * r)
      BY <2>2, <2>4, <2>5
    <2> QED BY <2>5, <2>6 DEF k, P
  <1>4. \A j \in Nat : j \in T
    <2> HIDE DEF T
    <2> QED BY <1>2, <1>3, InductionOnNat
  <1>5. ASSUME NEW k \in 0 .. IntSize PROVE \E r \in Nat : f[IntSize] = f[k] + Power[k] * r
    <2>1. IntSize - k \in Nat /\ IntSize - k <= IntSize /\ IntSize - (IntSize - k) = k
      BY <1>0
    <2>2. IntSize - k \in T
      BY <1>4, <2>1
    <2> QED BY <2>1, <2>2
  <1> QED BY <1>5

\* A byte of a number read, by division.
LEMMA ByteOfSum ==
  ASSUME NEW data \in Seq(Byte), NEW p \in Nat, NEW f, Sums(f, data, p), NEW k \in 0 .. IntSize - 1
  PROVE  (f[IntSize] \div Power[k]) % Base = At(data, p + (k + 1))
  <1>0. IntSize \in Nat /\ Base \in Nat \ {0} /\ k \in 0 .. IntSize /\ k + 1 \in 0 .. IntSize /\ k \in Nat
    BY ByteIs
  <1>1. PICK r \in Nat : f[IntSize] = f[k + 1] + Power[k + 1] * r
    BY <1>0, SumsAbove
  <1> DEFINE b == At(data, p + (k + 1))
             P == Power[k]
             v == f[IntSize]
             w == f[k]
  <1>2. b \in Nat /\ b < Base
    <2>1. p + (k + 1) \in Nat \ {0}
      BY <1>0
    <2>2. b \in Byte
      BY <2>1, AtType
    <2> QED BY <2>2, ByteIs
  <1>3. f[k + 1] = w + P * b /\ P \in Nat \ {0} /\ Power[k + 1] = Base * P
    BY <1>0, PowerIs DEF Sums
  <1>4. w \in Nat /\ w < P /\ v \in Nat
    <2>1. IntSize \in 0 .. IntSize
      BY <1>0
    <2> QED BY <1>0, <2>1, SumsFit
  <1>5. v = (w + P * b) + (Base * P) * r
    BY <1>1, <1>3
  <1> HIDE DEF b, P, v, w
  <1>6. Base * r + b \in Nat /\ v = P * (Base * r + b) + w
    BY <1>0, <1>2, <1>3, <1>4, <1>5
  <1>7. v \div P = Base * r + b
    BY <1>3, <1>4, <1>6, DivModIs
  <1>8. (Base * r + b) % Base = b
    BY <1>0, <1>2, <1>6, DivModIs
  <1> QED BY <1>7, <1>8 DEF v, P, b

\* A number read of any bytes that are there is written as those bytes.
LEMMA IntBack ==
  ASSUME NEW data \in Seq(Byte), NEW p \in Nat, p + IntSize <= Len(data)
  PROVE  HasAt(data, p, IntBytes(IntAt(data, p)))
  <1>1. PICK f : Sums(f, data, p) /\ IntAt(data, p) = f[IntSize]
    BY IntAtSums
  <1> DEFINE v == IntAt(data, p)
             b == IntBytes(v)
  <1>0. IntSize \in Nat /\ Len(data) \in Nat
    BY ByteIs
  <1>2. v \in Nat
    BY IntAtType
  <1>3. Len(b) = IntSize /\ \A i \in 1 .. IntSize : b[i] = (v \div Power[i - 1]) % Base
    BY <1>2, IntBytesType
  <1> HIDE DEF b, v
  <1>4. ASSUME NEW i \in 1 .. IntSize PROVE data[p + i] = b[i]
    <2>1. i - 1 \in 0 .. IntSize - 1 /\ (i - 1) + 1 = i /\ p + i <= Len(data)
      BY <1>0
    <2>2. (v \div Power[i - 1]) % Base = At(data, p + ((i - 1) + 1))
      BY <1>1, <2>1, ByteOfSum DEF v
    <2>3. At(data, p + i) = data[p + i]
      BY <2>1 DEF At
    <2> QED BY <1>3, <2>1, <2>2, <2>3
  <1>5. p + Len(b) <= Len(data)
    BY <1>3
  <1>6. HasAt(data, p, b)
    BY <1>3, <1>4, <1>5 DEF HasAt
  <1> QED BY <1>6 DEF b, v

\* What is cut out of bytes that are there stands there.
LEMMA CutThere ==
  ASSUME NEW data \in Seq(Byte), NEW p \in Nat, NEW n \in Nat, p + n <= Len(data)
  PROVE  HasAt(data, p, Cut(data, p, n)) /\ Cut(data, p, n) \in Seq(Byte) /\ Len(Cut(data, p, n)) = n
  <1>1. Cut(data, p, n) \in [1 .. n -> Byte]
    <2>1. \A i \in 1 .. n : At(data, p + i) \in Byte
      <3> SUFFICES ASSUME NEW i \in 1 .. n PROVE At(data, p + i) \in Byte
        OBVIOUS
      <3>1. p + i \in Nat \ {0}
        OBVIOUS
      <3> QED BY <3>1, AtType
    <2> QED BY <2>1 DEF Cut
  <1>2. Cut(data, p, n) \in Seq(Byte) /\ Len(Cut(data, p, n)) = n
    BY <1>1, IsASeq
  <1>3. ASSUME NEW i \in 1 .. n PROVE data[p + i] = Cut(data, p, n)[i]
    <2>1. p + i <= Len(data)
      OBVIOUS
    <2> QED BY <2>1 DEF Cut, At
  <1> QED BY <1>2, <1>3 DEF HasAt

\* Each part stands in data where the one before it ends.
InPlace(data, ss, pos) ==
  /\ \A k \in 0 .. Len(ss) : pos[k] \in Nat
  /\ pos[0] <= Len(data)
  /\ \A i \in 1 .. Len(ss) : HasAt(data, pos[i - 1], ss[i]) /\ pos[i] = pos[i - 1] + Len(ss[i])

\* Then all of them together stand where the first one does.
LEMMA PartsTogether ==
  ASSUME NEW S, NEW data \in Seq(S), NEW ss \in Seq(Seq(S)), NEW pos, InPlace(data, ss, pos)
  PROVE  HasAt(data, pos[0], FlattenSeq(ss)) /\ pos[0] + Len(FlattenSeq(ss)) = pos[Len(ss)]
  <1>0. Len(ss) \in Nat /\ Len(data) \in Nat
    OBVIOUS
  <1>1. PICK g : Parts(g, S, ss) /\ FlattenSeq(ss) = g[Len(ss)]
    BY FlatIs
  <1>2. pos[0] \in Nat
    BY <1>0 DEF InPlace
  <1> DEFINE q == pos[0]
             T == {k \in Nat : k <= Len(ss) => HasAt(data, q, g[k]) /\ q + Len(g[k]) = pos[k]}
  <1>3. 0 \in T
    <2>1. g[0] = << >> /\ Len(g[0]) = 0
      BY <1>1 DEF Parts
    <2>2. q + 0 <= Len(data) /\ q + 0 = pos[0] /\ 1 .. 0 = {}
      BY <1>0, <1>2 DEF InPlace
    <2>3. HasAt(data, q, g[0])
      BY <2>1, <2>2 DEF HasAt
    <2> QED BY <2>1, <2>2, <2>3
  <1>4. ASSUME NEW k \in Nat, k \in T PROVE k + 1 \in T
    <2> SUFFICES ASSUME k + 1 <= Len(ss)
                 PROVE  HasAt(data, q, g[k + 1]) /\ q + Len(g[k + 1]) = pos[k + 1]
      OBVIOUS
    <2>1. k \in 0 .. Len(ss) - 1 /\ k + 1 \in 1 .. Len(ss) /\ (k + 1) - 1 = k
      BY <1>0
    <2>2. HasAt(data, q, g[k]) /\ q + Len(g[k]) = pos[k]
      BY <1>4, <2>1
    <2>3. HasAt(data, pos[k], ss[k + 1]) /\ pos[k + 1] = pos[k] + Len(ss[k + 1])
      BY <2>1 DEF InPlace
    <2>4. g[k + 1] = g[k] \o ss[k + 1] /\ g[k] \in Seq(S) /\ ss[k + 1] \in Seq(S)
      BY <1>1, <2>1, PartsStep
    <2> DEFINE a == g[k]
               b == ss[k + 1]
    <2>5. a \in Seq(S) /\ b \in Seq(S) /\ HasAt(data, q, a) /\ HasAt(data, q + Len(a), b)
      BY <2>2, <2>3, <2>4
    <2>7. Len(a) \in Nat /\ Len(b) \in Nat /\ q \in Nat
      BY <1>2, <2>5
    <2>9. q + Len(a) = pos[k] /\ pos[k + 1] = pos[k] + Len(b)
      BY <2>2, <2>3
    <2> HIDE DEF a, b, q
    <2>6. HasAt(data, q, a \o b) /\ Len(a \o b) = Len(a) + Len(b)
      <3>1. HasAt(data, q, a \o b)
        BY <2>5, <2>7, HasBoth
      <3>2. Len(a \o b) = Len(a) + Len(b)
        BY <2>5, ConcatProperties
      <3> QED BY <3>1, <3>2
    <2>8. q + Len(a \o b) = pos[k + 1]
      BY <2>6, <2>7, <2>9
    <2> QED BY <2>4, <2>6, <2>8 DEF a, b
  <1>5. \A k \in Nat : k \in T
    <2> HIDE DEF T
    <2> QED BY <1>3, <1>4, InductionOnNat
  <1>6. HasAt(data, q, g[Len(ss)]) /\ q + Len(g[Len(ss)]) = pos[Len(ss)]
    BY <1>0, <1>5
  <1> QED BY <1>1, <1>6

\* An input read of bytes that are there, written again.
LEMMA InputBack ==
  ASSUME NEW data \in Seq(Byte), NEW p \in Nat, p + InputSize <= Len(data)
  PROVE  /\ InputAt(data, p) \in InputType /\ Len(InputAt(data, p).hash) = HashSize
         /\ HasAt(data, p, InputBytes(InputAt(data, p)))
  <1> DEFINE a == IntAt(data, p)
             b == IntAt(data, p + IntSize)
             c == Cut(data, p + 2 * IntSize, HashSize)
             d == IntAt(data, p + 2 * IntSize + HashSize)
             i == InputAt(data, p)
             A == IntBytes(a)
             B == IntBytes(b)
             D == IntBytes(d)
  <1>0. /\ IntSize \in Nat /\ HashSize \in Nat /\ Len(data) \in Nat
        /\ p + IntSize \in Nat /\ p + 2 * IntSize \in Nat /\ p + 2 * IntSize + HashSize \in Nat
    BY ByteIs
  <1>1. /\ p + IntSize <= Len(data) /\ (p + IntSize) + IntSize <= Len(data)
        /\ (p + 2 * IntSize) + HashSize <= Len(data)
        /\ (p + 2 * IntSize + HashSize) + IntSize <= Len(data)
    BY <1>0 DEF InputSize
  <1>2. a \in Nat /\ b \in Nat /\ d \in Nat
    BY <1>0, IntAtType
  <1>3. c \in Seq(Byte) /\ Len(c) = HashSize /\ HasAt(data, p + 2 * IntSize, c)
    BY <1>0, <1>1, CutThere
  <1>4. i = [block |-> a, txe |-> b, hash |-> c, tail |-> d]
    BY DEF InputAt
  <1>5. HasAt(data, p, A)
    BY <1>1, IntBack
  <1>6. HasAt(data, p + IntSize, B)
    BY <1>0, <1>1, IntBack
  <1>7. HasAt(data, p + 2 * IntSize + HashSize, D)
    BY <1>0, <1>1, IntBack
  <1>8. /\ A \in Seq(Byte) /\ B \in Seq(Byte) /\ D \in Seq(Byte)
        /\ Len(A) = IntSize /\ Len(B) = IntSize /\ Len(D) = IntSize
    BY <1>2, IntBytesType
  <1>9. InputBytes(i) = ((A \o B) \o c) \o D
    BY <1>4 DEF InputBytes
  <1> HIDE DEF a, b, c, d, i, A, B, D
  <1>13. i \in InputType /\ i.hash = c
    BY <1>2, <1>3, <1>4 DEF InputType
  <1> DEFINE e == A \o B
             f == e \o c
  <1>10. e \in Seq(Byte) /\ HasAt(data, p, e) /\ Len(e) = Len(A) + Len(B)
    <2>1. e \in Seq(Byte) /\ Len(e) = Len(A) + Len(B)
      BY <1>8, ConcatProperties
    <2>2. HasAt(data, p + Len(A), B)
      BY <1>6, <1>8
    <2>3. HasAt(data, p, e)
      BY <1>5, <1>8, <2>2, HasBoth
    <2> QED BY <2>1, <2>3
  <1> HIDE DEF e
  <1>11. f \in Seq(Byte) /\ HasAt(data, p, f) /\ Len(f) = Len(e) + Len(c)
    <2>1. f \in Seq(Byte)
      BY <1>3, <1>10, ConcatProperties
    <2>2. p + Len(e) = p + 2 * IntSize
      BY <1>0, <1>8, <1>10
    <2>3. HasAt(data, p + Len(e), c)
      BY <1>3, <2>2
    <2> QED BY <1>3, <1>10, <2>1, <2>3, HasBoth
  <1> HIDE DEF f
  <1>12. HasAt(data, p, f \o D)
    <2>2. p + Len(f) = p + 2 * IntSize + HashSize
      BY <1>0, <1>3, <1>8, <1>10, <1>11
    <2>3. HasAt(data, p + Len(f), D)
      BY <1>7, <2>2
    <2> QED BY <1>8, <1>11, <2>3, HasBoth
  <1> QED BY <1>3, <1>9, <1>12, <1>13 DEF i, e, f

\* An output read of bytes that are there, written again.
LEMMA TailBack ==
  ASSUME NEW data \in Seq(Byte), NEW p \in Nat, p + TailSize <= Len(data)
  PROVE  /\ TailAt(data, p) \in TailType /\ Len(TailAt(data, p).address) = HashSize
         /\ HasAt(data, p, TailBytes(TailAt(data, p)))
  <1> DEFINE a == IntAt(data, p)
             c == Cut(data, p + IntSize, HashSize)
             t == TailAt(data, p)
             A == IntBytes(a)
  <1>0. IntSize \in Nat /\ HashSize \in Nat /\ Len(data) \in Nat /\ p + IntSize \in Nat
    BY ByteIs
  <1>1. p + IntSize <= Len(data) /\ (p + IntSize) + HashSize <= Len(data)
    BY <1>0 DEF TailSize
  <1>2. a \in Nat
    BY IntAtType
  <1>3. c \in Seq(Byte) /\ Len(c) = HashSize /\ HasAt(data, p + IntSize, c)
    BY <1>0, <1>1, CutThere
  <1>4. t = [value |-> a, address |-> c]
    BY DEF TailAt
  <1>5. HasAt(data, p, A)
    BY <1>1, IntBack
  <1>6. A \in Seq(Byte) /\ Len(A) = IntSize
    BY <1>2, IntBytesType
  <1>7. TailBytes(t) = A \o c
    BY <1>4 DEF TailBytes
  <1> HIDE DEF a, c, t, A
  <1>9. t \in TailType /\ t.address = c
    BY <1>2, <1>3, <1>4 DEF TailType
  <1>8. HasAt(data, p, A \o c)
    <2>1. HasAt(data, p + Len(A), c)
      BY <1>3, <1>6
    <2> QED BY <1>3, <1>5, <1>6, <2>1, HasBoth
  <1> QED BY <1>3, <1>7, <1>8, <1>9 DEF t

\* The places of n things of one size.
LEMMA Multiple ==
  ASSUME NEW z \in Nat, NEW n \in Nat, NEW i \in 1 .. n, NEW p \in Nat
  PROVE  /\ p + (i - 1) * z \in Nat /\ p + i * z \in Nat
         /\ p + i * z = (p + (i - 1) * z) + z /\ (p + (i - 1) * z) + z <= p + n * z
  <1> DEFINE d == n - i
             j == i - 1
  <1>1. d \in Nat /\ j \in Nat /\ i = j + 1 /\ n = (j + 1) + d
    OBVIOUS
  <1> HIDE DEF d, j
  <1>2. j * z \in Nat /\ d * z \in Nat
    BY <1>1
  <1>3. (j + 1) * z = j * z + z /\ ((j + 1) + d) * z = (j * z + z) + d * z
    BY <1>1
  <1>4. i - 1 = j
    BY DEF j
  <1> QED BY <1>1, <1>2, <1>3, <1>4

\* n inputs, or outputs, read from p on.
InputsAt(data, p, n) == [i \in 1 .. n |-> InputAt(data, p + (i - 1) * InputSize)]
TailsAt(data, p, n) == [i \in 1 .. n |-> TailAt(data, p + (i - 1) * TailSize)]

\* a stands in data from p up to q.
Stands(data, p, a, q) == a \in Seq(Byte) /\ HasAt(data, p, a) /\ p + Len(a) = q

\* Inputs read of bytes that are there, written again.
LEMMA InputsBack ==
  ASSUME NEW data \in Seq(Byte), NEW p \in Nat, NEW n \in Nat, p + n * InputSize <= Len(data)
  PROVE  LET s == InputsAt(data, p, n)
         IN /\ s \in Seq(InputType) /\ Len(s) = n /\ \A i \in 1 .. n : Len(s[i].hash) = HashSize
            /\ Stands(data, p, Each(InputBytes, s), p + n * InputSize)
  <1> DEFINE s == InputsAt(data, p, n)
  <1>0. InputSize \in Nat /\ n * InputSize \in Nat /\ Len(data) \in Nat
    <2>1. InputSize \in Nat
      BY ByteIs DEF InputSize
    <2> QED BY <2>1
  <1>1. ASSUME NEW i \in 1 .. n
        PROVE  /\ p + (i - 1) * InputSize \in Nat /\ p + i * InputSize \in Nat
               /\ p + i * InputSize = (p + (i - 1) * InputSize) + InputSize
               /\ s[i] \in InputType /\ Len(s[i].hash) = HashSize
               /\ HasAt(data, p + (i - 1) * InputSize, InputBytes(s[i]))
    <2> DEFINE q == p + (i - 1) * InputSize
    <2>1. /\ q \in Nat /\ p + i * InputSize \in Nat /\ p + i * InputSize = q + InputSize
          /\ q + InputSize <= p + n * InputSize
      BY <1>0, Multiple
    <2>2. s[i] = InputAt(data, q)
      BY DEF InputsAt
    <2> HIDE DEF q
    <2>3. q + InputSize <= Len(data)
      BY <1>0, <2>1
    <2>4. /\ InputAt(data, q) \in InputType /\ Len(InputAt(data, q).hash) = HashSize
          /\ HasAt(data, q, InputBytes(InputAt(data, q)))
      BY <2>1, <2>3, InputBack
    <2> QED BY <2>1, <2>2, <2>4 DEF q
  <1>2. s \in Seq(InputType) /\ Len(s) = n
    <2>1. s \in [1 .. n -> InputType]
      BY <1>1 DEF InputsAt
    <2> QED BY <2>1, IsASeq
  <1> HIDE DEF s
  <1>3. \A i \in 1 .. Len(s) : Len(s[i].hash) = HashSize
    BY <1>1, <1>2
  <1>4. Len(Each(InputBytes, s)) = n * InputSize /\ Equal(InputParts(s), InputSize)
    BY <1>2, <1>3, InputsLength
  <1> DEFINE ss == InputParts(s)
             pos == [k \in 0 .. n |-> p + k * InputSize]
  <1>5. /\ ss \in Seq(Seq(Byte)) /\ Len(ss) = n
        /\ \A i \in 1 .. n : ss[i] = InputBytes(s[i])
        /\ Each(InputBytes, s) = FlattenSeq(ss) /\ Each(InputBytes, s) \in Seq(Byte)
    BY <1>2, InputPartsType
  <1>6. \A i \in 1 .. n : Len(ss[i]) = InputSize
    BY <1>4, <1>5 DEF Equal
  <1>7. pos[0] = p
    <2>1. 0 \in 0 .. n /\ 0 * InputSize = 0
      BY <1>0
    <2> QED BY <2>1
  <1> HIDE DEF ss
  <1>8. InPlace(data, ss, pos)
    <2>1. \A k \in 0 .. n : pos[k] \in Nat
      BY <1>0
    <2>2. pos[0] <= Len(data)
      BY <1>0, <1>7
    <2>3. ASSUME NEW i \in 1 .. n PROVE HasAt(data, pos[i - 1], ss[i]) /\ pos[i] = pos[i - 1] + Len(ss[i])
      <3>1. i - 1 \in 0 .. n /\ i \in 0 .. n
        OBVIOUS
      <3>2. pos[i - 1] = p + (i - 1) * InputSize /\ pos[i] = p + i * InputSize
        BY <3>1
      <3> HIDE DEF pos
      <3> QED BY <1>1, <1>5, <1>6, <3>2
    <2> HIDE DEF pos
    <2> QED BY <1>5, <2>1, <2>2, <2>3 DEF InPlace
  <1> HIDE DEF pos
  <1>9. HasAt(data, pos[0], FlattenSeq(ss))
    BY <1>5, <1>8, PartsTogether
  <1> QED BY <1>2, <1>3, <1>4, <1>5, <1>7, <1>9 DEF Stands, s

\* Outputs read of bytes that are there, written again.
LEMMA TailsBack ==
  ASSUME NEW data \in Seq(Byte), NEW p \in Nat, NEW n \in Nat, p + n * TailSize <= Len(data)
  PROVE  LET s == TailsAt(data, p, n)
         IN /\ s \in Seq(TailType) /\ Len(s) = n /\ \A i \in 1 .. n : Len(s[i].address) = HashSize
            /\ Stands(data, p, Each(TailBytes, s), p + n * TailSize)
  <1> DEFINE s == TailsAt(data, p, n)
  <1>0. TailSize \in Nat /\ n * TailSize \in Nat /\ Len(data) \in Nat
    <2>1. TailSize \in Nat
      BY ByteIs DEF TailSize
    <2> QED BY <2>1
  <1>1. ASSUME NEW i \in 1 .. n
        PROVE  /\ p + (i - 1) * TailSize \in Nat /\ p + i * TailSize \in Nat
               /\ p + i * TailSize = (p + (i - 1) * TailSize) + TailSize
               /\ s[i] \in TailType /\ Len(s[i].address) = HashSize
               /\ HasAt(data, p + (i - 1) * TailSize, TailBytes(s[i]))
    <2> DEFINE q == p + (i - 1) * TailSize
    <2>1. /\ q \in Nat /\ p + i * TailSize \in Nat /\ p + i * TailSize = q + TailSize
          /\ q + TailSize <= p + n * TailSize
      BY <1>0, Multiple
    <2>2. s[i] = TailAt(data, q)
      BY DEF TailsAt
    <2> HIDE DEF q
    <2>3. q + TailSize <= Len(data)
      BY <1>0, <2>1
    <2>4. /\ TailAt(data, q) \in TailType /\ Len(TailAt(data, q).address) = HashSize
          /\ HasAt(data, q, TailBytes(TailAt(data, q)))
      BY <2>1, <2>3, TailBack
    <2> QED BY <2>1, <2>2, <2>4 DEF q
  <1>2. s \in Seq(TailType) /\ Len(s) = n
    <2>1. s \in [1 .. n -> TailType]
      BY <1>1 DEF TailsAt
    <2> QED BY <2>1, IsASeq
  <1> HIDE DEF s
  <1>3. \A i \in 1 .. Len(s) : Len(s[i].address) = HashSize
    BY <1>1, <1>2
  <1>4. Len(Each(TailBytes, s)) = n * TailSize /\ Equal(TailParts(s), TailSize)
    BY <1>2, <1>3, TailsLength
  <1> DEFINE ss == TailParts(s)
             pos == [k \in 0 .. n |-> p + k * TailSize]
  <1>5. /\ ss \in Seq(Seq(Byte)) /\ Len(ss) = n
        /\ \A i \in 1 .. n : ss[i] = TailBytes(s[i])
        /\ Each(TailBytes, s) = FlattenSeq(ss) /\ Each(TailBytes, s) \in Seq(Byte)
    BY <1>2, TailPartsType
  <1>6. \A i \in 1 .. n : Len(ss[i]) = TailSize
    BY <1>4, <1>5 DEF Equal
  <1>7. pos[0] = p
    <2>1. 0 \in 0 .. n /\ 0 * TailSize = 0
      BY <1>0
    <2> QED BY <2>1
  <1> HIDE DEF ss
  <1>8. InPlace(data, ss, pos)
    <2>1. \A k \in 0 .. n : pos[k] \in Nat
      BY <1>0
    <2>2. pos[0] <= Len(data)
      BY <1>0, <1>7
    <2>3. ASSUME NEW i \in 1 .. n PROVE HasAt(data, pos[i - 1], ss[i]) /\ pos[i] = pos[i - 1] + Len(ss[i])
      <3>1. i - 1 \in 0 .. n /\ i \in 0 .. n
        OBVIOUS
      <3>2. pos[i - 1] = p + (i - 1) * TailSize /\ pos[i] = p + i * TailSize
        BY <3>1
      <3> HIDE DEF pos
      <3> QED BY <1>1, <1>5, <1>6, <3>2
    <2> HIDE DEF pos
    <2> QED BY <1>5, <2>1, <2>2, <2>3 DEF InPlace
  <1> HIDE DEF pos
  <1>9. HasAt(data, pos[0], FlattenSeq(ss))
    BY <1>5, <1>8, PartsTogether
  <1> QED BY <1>2, <1>3, <1>4, <1>5, <1>7, <1>9 DEF Stands, s

\* Where the parts of a transaction lie, one behind the other.
LEMMA TxLies ==
  ASSUME NEW data \in Seq(Byte), NEW p \in Nat
  PROVE  LET m == IntAt(data, p)
             n == IntAt(data, p + IntSize)
         IN /\ m \in Nat /\ n \in Nat /\ p + IntSize \in Nat /\ p + 2 * IntSize \in Nat
            /\ TailsFrom(data, p) = (p + 2 * IntSize) + m * InputSize
            /\ KeyFrom(data, p) = TailsFrom(data, p) + n * TailSize
            /\ TxEnd(data, p) = (KeyFrom(data, p) + KeySize) + SignatureSize
            /\ TailsFrom(data, p) \in Nat /\ KeyFrom(data, p) \in Nat
            /\ m * InputSize \in Nat /\ n * TailSize \in Nat /\ p <= TxEnd(data, p)
  <1> DEFINE m == IntAt(data, p)
             n == IntAt(data, p + IntSize)
  <1>1. /\ IntSize \in Nat /\ HashSize \in Nat /\ KeySize \in Nat /\ SignatureSize \in Nat
        /\ p + IntSize \in Nat /\ p + 2 * IntSize \in Nat
    BY ByteIs
  <1>2. m \in Nat /\ n \in Nat
    BY <1>1, IntAtType
  <1>3. InputSize \in Nat /\ TailSize \in Nat
    BY <1>1 DEF InputSize, TailSize
  <1>4. TailsFrom(data, p) = (p + 2 * IntSize) + m * InputSize
    BY DEF TailsFrom, InputSize
  <1>5. KeyFrom(data, p) = TailsFrom(data, p) + n * TailSize
    BY DEF KeyFrom, TailSize
  <1>6. TxEnd(data, p) = (KeyFrom(data, p) + KeySize) + SignatureSize
    BY DEF TxEnd
  <1> HIDE DEF m, n
  <1>7. m * InputSize \in Nat /\ n * TailSize \in Nat
    BY <1>2, <1>3
  <1>8. TailsFrom(data, p) \in Nat /\ p <= TailsFrom(data, p)
    BY <1>1, <1>4, <1>7
  <1>9. KeyFrom(data, p) \in Nat /\ p <= KeyFrom(data, p)
    BY <1>5, <1>7, <1>8
  <1>10. p <= TxEnd(data, p)
    BY <1>1, <1>6, <1>9
  <1> QED BY <1>1, <1>2, <1>4, <1>5, <1>6, <1>7, <1>8, <1>9, <1>10 DEF m, n

\* One sequence more behind what stands in data from p on.
LEMMA OneMore ==
  ASSUME NEW data \in Seq(Byte), NEW p \in Nat, NEW q \in Nat, NEW r, NEW a, NEW b,
         Stands(data, p, a, q), Stands(data, q, b, r)
  PROVE  Stands(data, p, a \o b, r)
  <1>0. a \in Seq(Byte) /\ b \in Seq(Byte) /\ HasAt(data, p, a) /\ p + Len(a) = q /\ q + Len(b) = r
    BY DEF Stands
  <1>1. a \o b \in Seq(Byte) /\ Len(a \o b) = Len(a) + Len(b) /\ Len(a) \in Nat /\ Len(b) \in Nat
    BY <1>0, ConcatProperties
  <1>2. HasAt(data, p + Len(a), b)
    BY <1>0 DEF Stands
  <1>3. HasAt(data, p, a \o b)
    BY <1>0, <1>2, HasBoth
  <1>4. p + Len(a \o b) = r
    BY <1>0, <1>1
  <1> QED BY <1>1, <1>3, <1>4 DEF Stands

\* A number stands where it is read.
LEMMA IntStands ==
  ASSUME NEW data \in Seq(Byte), NEW p \in Nat, p + IntSize <= Len(data)
  PROVE  Stands(data, p, IntBytes(IntAt(data, p)), p + IntSize)
  <1>1. IntAt(data, p) \in Nat
    BY IntAtType
  <1>2. IntBytes(IntAt(data, p)) \in Seq(Byte) /\ Len(IntBytes(IntAt(data, p))) = IntSize
    BY <1>1, IntBytesType
  <1> QED BY <1>2, IntBack DEF Stands

\* So does what is cut out.
LEMMA CutStands ==
  ASSUME NEW data \in Seq(Byte), NEW p \in Nat, NEW n \in Nat, p + n <= Len(data)
  PROVE  Stands(data, p, Cut(data, p, n), p + n) /\ Len(Cut(data, p, n)) = n
  BY CutThere DEF Stands

\* A transaction read of bytes that are there, written again.
LEMMA TxBack ==
  ASSUME NEW data \in Seq(Byte), NEW p \in Nat, TxEnd(data, p) <= Len(data)
  PROVE  /\ TxAt(data, p) \in TxType /\ TxFramed(TxAt(data, p))
         /\ Stands(data, p, TxBytes(TxAt(data, p)), TxEnd(data, p))
  <1> DEFINE m == IntAt(data, p)
             n == IntAt(data, p + IntSize)
             q == p + 2 * IntSize
             u == TailsFrom(data, p)
             w == KeyFrom(data, p)
             y == w + KeySize
             z == TxEnd(data, p)
             i == InputsAt(data, q, m)
             o == TailsAt(data, u, n)
             e == Cut(data, w, KeySize)
             f == Cut(data, y, SignatureSize)
             t == TxAt(data, p)
  <1>0. /\ IntSize \in Nat /\ HashSize \in Nat /\ KeySize \in Nat /\ SignatureSize \in Nat
        /\ Len(data) \in Nat /\ KeySize \in Nat
    BY ByteIs
  <1>1. /\ m \in Nat /\ n \in Nat /\ p + IntSize \in Nat /\ q \in Nat
        /\ u = q + m * InputSize /\ w = u + n * TailSize /\ z = y + SignatureSize
        /\ u \in Nat /\ w \in Nat /\ m * InputSize \in Nat /\ n * TailSize \in Nat
    BY TxLies
  <1>2. t = [inputs |-> i, tails |-> o, pubKey |-> e, signature |-> f]
    BY DEF TxAt, InputSize, TailSize, InputsAt, TailsAt
  <1> HIDE DEF t, i, o, e, f, u, w, m, n, z
  <1>3. /\ p + IntSize <= Len(data) /\ (p + IntSize) + IntSize <= Len(data)
        /\ q + m * InputSize <= Len(data) /\ u + n * TailSize <= Len(data)
        /\ w + KeySize <= Len(data) /\ y + SignatureSize <= Len(data)
        /\ (p + IntSize) + IntSize = q /\ y \in Nat
    <2> DEFINE c == m * InputSize
               d == n * TailSize
    <2>1. /\ p + IntSize \in Nat /\ q \in Nat /\ u = q + c /\ w = u + d
          /\ (w + KeySize) + SignatureSize <= Len(data)
          /\ u \in Nat /\ w \in Nat /\ c \in Nat /\ d \in Nat
      BY <1>1 DEF z
    <2> HIDE DEF c, d
    <2>2. /\ p + IntSize <= Len(data) /\ (p + IntSize) + IntSize <= Len(data)
          /\ q + c <= Len(data) /\ u + d <= Len(data)
          /\ w + KeySize <= Len(data) /\ y + SignatureSize <= Len(data)
          /\ (p + IntSize) + IntSize = q /\ y \in Nat
      BY <1>0, <2>1
    <2> QED BY <2>2 DEF c, d
  <1>4. /\ i \in Seq(InputType) /\ Len(i) = m /\ \A k \in 1 .. m : Len(i[k].hash) = HashSize
        /\ Stands(data, q, Each(InputBytes, i), u)
    <2>1. m \in Nat /\ q \in Nat /\ q + m * InputSize <= Len(data) /\ u = q + m * InputSize
      BY <1>1, <1>3
    <2> HIDE DEF q
    <2>2. /\ InputsAt(data, q, m) \in Seq(InputType) /\ Len(InputsAt(data, q, m)) = m
          /\ \A k \in 1 .. m : Len(InputsAt(data, q, m)[k].hash) = HashSize
          /\ Stands(data, q, Each(InputBytes, InputsAt(data, q, m)), q + m * InputSize)
      BY <2>1, InputsBack
    <2> QED BY <2>1, <2>2 DEF i
  <1>5. /\ o \in Seq(TailType) /\ Len(o) = n /\ \A k \in 1 .. n : Len(o[k].address) = HashSize
        /\ Stands(data, u, Each(TailBytes, o), w)
    <2>1. n \in Nat /\ u \in Nat /\ u + n * TailSize <= Len(data) /\ w = u + n * TailSize
      BY <1>1, <1>3
    <2>2. /\ TailsAt(data, u, n) \in Seq(TailType) /\ Len(TailsAt(data, u, n)) = n
          /\ \A k \in 1 .. n : Len(TailsAt(data, u, n)[k].address) = HashSize
          /\ Stands(data, u, Each(TailBytes, TailsAt(data, u, n)), u + n * TailSize)
      BY <2>1, TailsBack
    <2> QED BY <2>1, <2>2 DEF o
  <1> HIDE DEF q, y
  <1>6. Stands(data, w, e, y) /\ Len(e) = KeySize /\ e \in Seq(Byte)
    <2>1. w \in Nat /\ w + KeySize <= Len(data) /\ y = w + KeySize
      BY <1>1, <1>3 DEF y
    <2>2. Stands(data, w, Cut(data, w, KeySize), w + KeySize) /\ Len(Cut(data, w, KeySize)) = KeySize
      BY <1>0, <2>1, CutStands
    <2> QED BY <2>1, <2>2 DEF e, Stands
  <1>7. Stands(data, y, f, z) /\ Len(f) = SignatureSize /\ f \in Seq(Byte)
    <2>1. y \in Nat /\ y + SignatureSize <= Len(data) /\ z = y + SignatureSize
      BY <1>1, <1>3
    <2>2. /\ Stands(data, y, Cut(data, y, SignatureSize), y + SignatureSize)
          /\ Len(Cut(data, y, SignatureSize)) = SignatureSize
      BY <1>0, <2>1, CutStands
    <2> QED BY <2>1, <2>2 DEF f, Stands
  <1> DEFINE r == p + IntSize
             A == IntBytes(m)
             B == IntBytes(n)
             C == Each(InputBytes, i)
             D == Each(TailBytes, o)
  <1>8. Stands(data, p, A, r) /\ Stands(data, r, B, q) /\ r \in Nat
    <2>1. r \in Nat /\ p + IntSize <= Len(data) /\ r + IntSize <= Len(data) /\ r + IntSize = q
      BY <1>1, <1>3
    <2>2. Stands(data, p, IntBytes(IntAt(data, p)), p + IntSize)
      BY <2>1, IntStands
    <2>3. Stands(data, r, IntBytes(IntAt(data, r)), r + IntSize)
      <3> HIDE DEF r
      <3> QED BY <2>1, IntStands
    <2> QED BY <2>1, <2>2, <2>3 DEF m, n
  <1>9. TxBytes(t) = (A \o B) \o (((C \o D) \o e) \o f)
    <2>1. t.inputs = i /\ t.tails = o /\ t.pubKey = e /\ t.signature = f
      BY <1>2
    <2> QED BY <1>4, <1>5, <2>1 DEF TxBytes, TxeData
  <1>10. t \in TxType /\ TxFramed(t)
    <2>1. DOMAIN i = 1 .. m /\ DOMAIN o = 1 .. n
      BY <1>4, <1>5
    <2> QED BY <1>2, <1>4, <1>5, <1>6, <1>7, <2>1 DEF TxType, TxFramed
  <1>a. q \in Nat /\ u \in Nat /\ w \in Nat /\ y \in Nat
    BY <1>1, <1>3
  <1> HIDE DEF r, A, B, C, D
  <1>11. Stands(data, p, A \o B, q)
    BY <1>8, <1>a, OneMore
  <1>12. Stands(data, q, C \o D, w)
    BY <1>4, <1>5, <1>a, OneMore DEF C, D
  <1>13. Stands(data, q, (C \o D) \o e, y)
    BY <1>6, <1>12, <1>a, OneMore
  <1>14. Stands(data, q, ((C \o D) \o e) \o f, z)
    BY <1>7, <1>13, <1>a, OneMore
  <1>15. Stands(data, p, (A \o B) \o (((C \o D) \o e) \o f), z)
    BY <1>11, <1>14, <1>a, OneMore
  <1> QED BY <1>9, <1>10, <1>15 DEF t, z

\* The transactions of a block end one behind the other.
LEMMA TxsEndGrows ==
  ASSUME NEW data \in Seq(Byte), NEW n \in Nat, NEW e \in Nat, TxsEnd(data, n) <= e
  PROVE  \A k \in 0 .. n : TxsEnd(data, k) <= e
  <1> DEFINE T == {j \in Nat : j <= n => TxsEnd(data, n - j) <= e}
  <1>1. 0 \in T
    <2>1. n - 0 = n
      OBVIOUS
    <2> QED BY <2>1
  <1>2. ASSUME NEW j \in Nat, j \in T PROVE j + 1 \in T
    <2> SUFFICES ASSUME j + 1 <= n PROVE TxsEnd(data, n - (j + 1)) <= e
      OBVIOUS
    <2> DEFINE k == n - (j + 1)
    <2>1. k \in Nat /\ k + 1 = n - j /\ j <= n
      OBVIOUS
    <2> HIDE DEF k
    <2>2. TxsEnd(data, k + 1) <= e
      BY <1>2, <2>1
    <2>a. k + 1 \in Nat
      BY <2>1
    <2>b. TxsEnd(data, k + 1) = TxEnd(data, TxsEnd(data, k))
      BY <2>1, TxsEndIs
    <2>c. TxsEnd(data, k) \in Nat
      BY <2>1, TxsEndIs
    <2>d. TxsEnd(data, k + 1) \in Nat
      BY <2>a, TxsEndIs
    <2>3. /\ TxsEnd(data, k + 1) = TxEnd(data, TxsEnd(data, k))
          /\ TxsEnd(data, k) \in Nat /\ TxsEnd(data, k + 1) \in Nat
      BY <2>b, <2>c, <2>d
    <2> DEFINE q == TxsEnd(data, k)
    <2>4. q <= TxEnd(data, q)
      <3>1. q \in Nat
        BY <2>3
      <3> HIDE DEF q
      <3> QED BY <3>1, TxLies
    <2> QED BY <2>2, <2>3, <2>4 DEF k
  <1>3. \A j \in Nat : j \in T
    <2> HIDE DEF T
    <2> QED BY <1>1, <1>2, InductionOnNat
  <1>4. ASSUME NEW k \in 0 .. n PROVE TxsEnd(data, k) <= e
    <2>1. n - k \in Nat /\ n - k <= n /\ n - (n - k) = k
      OBVIOUS
    <2>2. n - k \in T
      BY <1>3, <2>1
    <2> QED BY <2>1, <2>2
  <1> QED BY <1>4

\* n transactions read of a block's bytes.
TxsOf(data, n) == [i \in 1 .. n |-> TxAt(data, TxsEnd(data, i - 1))]

\* Transactions read of bytes that are there, written again.
LEMMA TxsBack ==
  ASSUME NEW data \in Seq(Byte), NEW n \in Nat, TxsEnd(data, n) <= Len(data)
  PROVE  LET s == TxsOf(data, n)
         IN /\ s \in Seq(TxType) /\ Len(s) = n /\ \A i \in 1 .. n : TxFramed(s[i])
            /\ Stands(data, CountFrom + IntSize, Each(TxBytes, s), TxsEnd(data, n))
  <1> DEFINE s == TxsOf(data, n)
  <1>0. Len(data) \in Nat
    OBVIOUS
  <1>1. \A k \in 0 .. n : TxsEnd(data, k) <= Len(data)
    BY <1>0, TxsEndGrows
  <1>2. ASSUME NEW i \in 1 .. n
        PROVE  /\ s[i] \in TxType /\ TxFramed(s[i])
               /\ Stands(data, TxsEnd(data, i - 1), TxBytes(s[i]), TxsEnd(data, i))
    <2> DEFINE q == TxsEnd(data, i - 1)
    <2>1. i - 1 \in Nat /\ (i - 1) + 1 = i /\ i \in 0 .. n
      OBVIOUS
    <2>2. q \in Nat /\ TxsEnd(data, i) = TxEnd(data, q)
      BY <2>1, TxsEndIs
    <2>3. s[i] = TxAt(data, q)
      BY DEF TxsOf
    <2>4. TxsEnd(data, i) <= Len(data)
      BY <1>1, <2>1
    <2> HIDE DEF q, s
    <2>5. TxEnd(data, q) <= Len(data)
      BY <2>2, <2>4
    <2>6. /\ TxAt(data, q) \in TxType /\ TxFramed(TxAt(data, q))
          /\ Stands(data, q, TxBytes(TxAt(data, q)), TxEnd(data, q))
      BY <2>2, <2>5, TxBack
    <2> QED BY <2>2, <2>3, <2>6 DEF q
  <1>3. s \in Seq(TxType) /\ Len(s) = n
    <2>1. s \in [1 .. n -> TxType]
      BY <1>2 DEF TxsOf
    <2> QED BY <2>1, IsASeq
  <1> HIDE DEF s
  <1> DEFINE ss == TxParts(s)
             pos == [k \in 0 .. n |-> TxsEnd(data, k)]
  <1>4. /\ ss \in Seq(Seq(Byte)) /\ Len(ss) = n
        /\ \A i \in 1 .. n : ss[i] = TxBytes(s[i])
        /\ Each(TxBytes, s) = FlattenSeq(ss) /\ Each(TxBytes, s) \in Seq(Byte)
    BY <1>3, TxPartsType
  <1>5. pos[0] = CountFrom + IntSize /\ pos[n] = TxsEnd(data, n)
    <2>1. 0 \in 0 .. n /\ n \in 0 .. n
      OBVIOUS
    <2> QED BY <2>1, TxsEndIs
  <1> HIDE DEF ss
  <1>6. InPlace(data, ss, pos)
    <2>1. ASSUME NEW k \in 0 .. n PROVE pos[k] \in Nat
      <3>1. pos[k] = TxsEnd(data, k) /\ k \in Nat
        OBVIOUS
      <3>2. TxsEnd(data, k) \in Nat
        BY <3>1, TxsEndIs
      <3> QED BY <3>1, <3>2
    <2>2. pos[0] <= Len(data)
      <3>1. 0 \in 0 .. n
        OBVIOUS
      <3>2. pos[0] = TxsEnd(data, 0) /\ TxsEnd(data, 0) <= Len(data)
        BY <1>1, <3>1
      <3> QED BY <3>2
    <2>3. ASSUME NEW i \in 1 .. n PROVE HasAt(data, pos[i - 1], ss[i]) /\ pos[i] = pos[i - 1] + Len(ss[i])
      <3>1. i - 1 \in 0 .. n /\ i \in 0 .. n
        OBVIOUS
      <3>2. pos[i - 1] = TxsEnd(data, i - 1) /\ pos[i] = TxsEnd(data, i)
        BY <3>1
      <3> HIDE DEF pos
      <3> QED BY <1>2, <1>4, <3>2 DEF Stands
    <2> HIDE DEF pos
    <2> QED BY <1>4, <2>1, <2>2, <2>3 DEF InPlace
  <1> HIDE DEF pos
  <1>7. HasAt(data, pos[0], FlattenSeq(ss)) /\ pos[0] + Len(FlattenSeq(ss)) = pos[Len(ss)]
    BY <1>4, <1>6, PartsTogether
  <1>8. Stands(data, CountFrom + IntSize, Each(TxBytes, s), TxsEnd(data, n))
    BY <1>4, <1>5, <1>7 DEF Stands
  <1> QED BY <1>2, <1>3, <1>8 DEF s

\* A block read of bytes that are there, written again.
LEMMA BlockBack ==
  ASSUME NEW data \in Seq(Byte), BlockEnd(data) <= Len(data)
  PROVE  /\ BlockAt(data) \in BlockType /\ BlockFramed(BlockAt(data))
         /\ Stands(data, 0, BlockBytes(BlockAt(data)), BlockEnd(data))
  <1> DEFINE p1 == IntSize
             p2 == IntSize + HashSize
             p3 == 2 * IntSize + HashSize
             p4 == 2 * IntSize + 2 * HashSize
             p5 == 3 * IntSize + 2 * HashSize
             p6 == CountFrom
             p7 == CountFrom + IntSize
             z == BlockEnd(data)
             v == IntAt(data, 0)
             r == Cut(data, p1, HashSize)
             k == IntAt(data, p2)
             m == Cut(data, p3, HashSize)
             t == IntAt(data, p4)
             o == IntAt(data, p5)
             c == IntAt(data, p6)
             x == TxsOf(data, c)
             b == BlockAt(data)
  <1>0. IntSize \in Nat /\ HashSize \in Nat /\ Len(data) \in Nat /\ 0 \in Nat
    BY ByteIs
  <1>1. /\ p1 \in Nat /\ p2 \in Nat /\ p3 \in Nat /\ p4 \in Nat /\ p5 \in Nat /\ p6 \in Nat /\ p7 \in Nat
        /\ 0 + IntSize = p1 /\ p1 + HashSize = p2 /\ p2 + IntSize = p3 /\ p3 + HashSize = p4
        /\ p4 + IntSize = p5 /\ p5 + IntSize = p6 /\ p6 + IntSize = p7
    BY <1>0 DEF CountFrom
  <1>2. b = [version |-> v, prevBlock |-> r, number |-> k, merkleRoot |-> m, bits |-> t,
             nonce |-> o, txsCount |-> c, txs |-> x]
    BY DEF BlockAt, TxsOf
  <1> HIDE DEF v, r, k, m, t, o, c, x, b, p1, p2, p3, p4, p5, p6, p7
  <1>3. /\ v \in Nat /\ k \in Nat /\ t \in Nat /\ o \in Nat /\ c \in Nat
    BY <1>0, <1>1, IntAtType DEF v, k, t, o, c
  <1>4. TxsEnd(data, c) <= Len(data) /\ z = TxsEnd(data, c)
    BY DEF BlockEnd, c, p6
  <1>5. /\ x \in Seq(TxType) /\ Len(x) = c /\ \A i \in 1 .. c : TxFramed(x[i])
        /\ Stands(data, p7, Each(TxBytes, x), z)
    <2>1. /\ TxsOf(data, c) \in Seq(TxType) /\ Len(TxsOf(data, c)) = c
          /\ \A i \in 1 .. c : TxFramed(TxsOf(data, c)[i])
          /\ Stands(data, CountFrom + IntSize, Each(TxBytes, TxsOf(data, c)), TxsEnd(data, c))
      BY <1>3, <1>4, TxsBack
    <2> QED BY <1>4, <2>1 DEF x, p7
  <1>6. p7 <= Len(data)
    <2>1. 0 \in 0 .. c
      BY <1>3
    <2>2. TxsEnd(data, 0) <= Len(data)
      BY <1>0, <1>3, <1>4, <2>1, TxsEndGrows
    <2> QED BY <2>2, TxsEndIs DEF p7
  <1>7. /\ 0 + IntSize <= Len(data) /\ p1 + HashSize <= Len(data) /\ p2 + IntSize <= Len(data)
        /\ p3 + HashSize <= Len(data) /\ p4 + IntSize <= Len(data) /\ p5 + IntSize <= Len(data)
        /\ p6 + IntSize <= Len(data)
    BY <1>0, <1>1, <1>6
  <1> DEFINE V == IntBytes(v)
             K == IntBytes(k)
             T == IntBytes(t)
             O == IntBytes(o)
             C == IntBytes(c)
             X == Each(TxBytes, x)
  <1>8. Stands(data, 0, V, p1)
    <2>1. Stands(data, 0, IntBytes(IntAt(data, 0)), 0 + IntSize)
      BY <1>0, <1>7, IntStands
    <2> QED BY <1>1, <2>1 DEF v
  <1>9. Stands(data, p2, K, p3)
    <2>1. Stands(data, p2, IntBytes(IntAt(data, p2)), p2 + IntSize)
      BY <1>1, <1>7, IntStands
    <2> QED BY <1>1, <2>1 DEF k
  <1>10. Stands(data, p4, T, p5)
    <2>1. Stands(data, p4, IntBytes(IntAt(data, p4)), p4 + IntSize)
      BY <1>1, <1>7, IntStands
    <2> QED BY <1>1, <2>1 DEF t
  <1>11. Stands(data, p5, O, p6)
    <2>1. Stands(data, p5, IntBytes(IntAt(data, p5)), p5 + IntSize)
      BY <1>1, <1>7, IntStands
    <2> QED BY <1>1, <2>1 DEF o
  <1>12. Stands(data, p6, C, p7)
    <2>1. Stands(data, p6, IntBytes(IntAt(data, p6)), p6 + IntSize)
      BY <1>1, <1>7, IntStands
    <2> QED BY <1>1, <2>1 DEF c
  <1>13. Stands(data, p1, r, p2) /\ Len(r) = HashSize /\ r \in Seq(Byte)
    <2>1. Stands(data, p1, Cut(data, p1, HashSize), p1 + HashSize) /\ Len(Cut(data, p1, HashSize)) = HashSize
      BY <1>0, <1>1, <1>7, CutStands
    <2> QED BY <1>1, <2>1 DEF r, Stands
  <1>14. Stands(data, p3, m, p4) /\ Len(m) = HashSize /\ m \in Seq(Byte)
    <2>1. Stands(data, p3, Cut(data, p3, HashSize), p3 + HashSize) /\ Len(Cut(data, p3, HashSize)) = HashSize
      BY <1>0, <1>1, <1>7, CutStands
    <2> QED BY <1>1, <2>1 DEF m, Stands
  <1>15. BlockBytes(b) = ((((((V \o r) \o K) \o m) \o T) \o O) \o C) \o X
    <2>1. /\ b.version = v /\ b.prevBlock = r /\ b.number = k /\ b.merkleRoot = m /\ b.bits = t
          /\ b.nonce = o /\ b.txsCount = c /\ b.txs = x
      BY <1>2
    <2> QED BY <2>1 DEF BlockBytes, BlockData
  <1>16. b \in BlockType /\ BlockFramed(b)
    <2>1. DOMAIN x = 1 .. c
      BY <1>5
    <2> QED BY <1>2, <1>3, <1>5, <1>13, <1>14, <2>1 DEF BlockType, BlockFramed
  <1>a. Stands(data, p7, X, z)
    BY <1>5
  <1>b. /\ 0 \in Nat /\ p1 \in Nat /\ p2 \in Nat /\ p3 \in Nat /\ p4 \in Nat /\ p5 \in Nat
        /\ p6 \in Nat /\ p7 \in Nat
    BY <1>1
  <1> HIDE DEF V, K, T, O, C, X, z
  <1>17. Stands(data, 0, V \o r, p2)
    BY <1>8, <1>13, <1>b, OneMore
  <1>18. Stands(data, 0, (V \o r) \o K, p3)
    BY <1>9, <1>17, <1>b, OneMore
  <1>19. Stands(data, 0, ((V \o r) \o K) \o m, p4)
    BY <1>14, <1>18, <1>b, OneMore
  <1>20. Stands(data, 0, (((V \o r) \o K) \o m) \o T, p5)
    BY <1>10, <1>19, <1>b, OneMore
  <1>21. Stands(data, 0, ((((V \o r) \o K) \o m) \o T) \o O, p6)
    BY <1>11, <1>20, <1>b, OneMore
  <1>22. Stands(data, 0, (((((V \o r) \o K) \o m) \o T) \o O) \o C, p7)
    BY <1>12, <1>21, <1>b, OneMore
  <1>23. Stands(data, 0, ((((((V \o r) \o K) \o m) \o T) \o O) \o C) \o X, z)
    BY <1>22, <1>a, <1>b, OneMore
  <1> QED BY <1>15, <1>16, <1>23 DEF b, z

\* What stands at the beginning is the beginning.
LEMMA BeginsWith ==
  ASSUME NEW data \in Seq(Byte), NEW a, NEW e, Stands(data, 0, a, e)
  PROVE  a = SubSeq(data, 1, e) /\ a \in Seq(Byte) /\ Len(a) = e /\ e \in Nat /\ e <= Len(data)
  <1>0. Len(data) \in Nat
    OBVIOUS
  <1>1. a \in Seq(Byte) /\ 0 + Len(a) = e /\ HasAt(data, 0, a) /\ Len(a) \in Nat
    BY DEF Stands
  <1>2. Len(a) = e /\ e \in Nat /\ 0 + Len(a) <= Len(data)
    BY <1>1 DEF HasAt
  <1>3. e <= Len(data)
    BY <1>0, <1>1, <1>2
  <1>4. \A i \in 1 .. e : data[i] = a[i]
    <2> SUFFICES ASSUME NEW i \in 1 .. e PROVE data[i] = a[i]
      OBVIOUS
    <2>1. i \in 1 .. Len(a) /\ 0 + i = i
      BY <1>2
    <2> QED BY <1>1, <2>1 DEF HasAt
  <1> DEFINE s == SubSeq(data, 1, e)
  <1>5. s \in Seq(Byte) /\ Len(s) = e /\ \A i \in 1 .. e : s[i] = data[i]
    <2>1. \A i \in 1 .. e : data[i] \in Byte
      BY <1>0, <1>2, <1>3
    <2>2. /\ s \in Seq(Byte) /\ Len(s) = (IF 1 <= e THEN e - 1 + 1 ELSE 0)
          /\ \A i \in 1 .. e - 1 + 1 : s[i] = data[1 + i - 1]
      BY <1>2, <2>1, SubSeqProperties
    <2>3. Len(s) = e
      BY <1>2, <2>2
    <2>4. ASSUME NEW i \in 1 .. e PROVE s[i] = data[i]
      <3>1. i \in 1 .. e - 1 + 1 /\ 1 + i - 1 = i
        BY <1>2
      <3> QED BY <2>2, <3>1
    <2> QED BY <2>2, <2>3, <2>4
  <1> HIDE DEF s
  <1>6. a = s
    BY <1>1, <1>2, <1>4, <1>5, SeqEqual
  <1> QED BY <1>1, <1>2, <1>3, <1>6 DEF s

\* Whatever the bytes are, what scanBroadcastedData makes of them, as long as it
\* ends within them, is a transaction of the sizes the reader expects, and
\* getBroadcastData writes of it the bytes it was read from: bytes read as one
\* transaction agree in all that was read, and nothing of it is lost between two
\* nodes that pass it on (transaction.cpp:143-192).
THEOREM TransactionsWriteBack ==
  ASSUME NEW data \in Seq(Byte), TxEnd(data, 0) <= Len(data)
  PROVE  /\ TxAt(data, 0) \in TxType /\ TxFramed(TxAt(data, 0))
         /\ TxBytes(TxAt(data, 0)) = SubSeq(data, 1, TxEnd(data, 0))
  <1>1. 0 \in Nat
    OBVIOUS
  <1>2. /\ TxAt(data, 0) \in TxType /\ TxFramed(TxAt(data, 0))
        /\ Stands(data, 0, TxBytes(TxAt(data, 0)), TxEnd(data, 0))
    BY <1>1, TxBack
  <1> QED BY <1>2, BeginsWith

\* So for blocks, with the transactions in them (block.cpp:43-54, 134-153).
THEOREM BlocksWriteBack ==
  ASSUME NEW data \in Seq(Byte), BlockEnd(data) <= Len(data)
  PROVE  /\ BlockAt(data) \in BlockType /\ BlockFramed(BlockAt(data))
         /\ BlockBytes(BlockAt(data)) = SubSeq(data, 1, BlockEnd(data))
  BY BlockBack, BeginsWith

-----------------------------------------------------------------------------
(***************************************************************************)
(* What the sender sends: three sends for each message, the announcement   *)
(* first.                                                                  *)
(***************************************************************************)
\* The assumption on the constants, one by one.
LEMMA SizesAre ==
  /\ CommandSize \in Nat /\ Memory \in Nat /\ MaxCuts \in Nat
  /\ DOMAIN Name = {"inv", "tx", "block"}
  /\ \A c \in DOMAIN Name :
       Name[c] \in [1 .. CommandSize -> Byte] /\ \E i \in DOMAIN Name[c] : Name[c][i] = 0
  /\ \A c \in DOMAIN Name : Name[c] \in Seq(Byte) /\ Len(Name[c]) = CommandSize
  /\ CommandSize # 0
  <1>1. /\ CommandSize \in Nat /\ Memory \in Nat /\ MaxCuts \in Nat
        /\ DOMAIN Name = {"inv", "tx", "block"}
        /\ \A c \in DOMAIN Name :
             Name[c] \in [1 .. CommandSize -> Byte] /\ \E i \in DOMAIN Name[c] : Name[c][i] = 0
    BY WireSizes
  <1>2. ASSUME NEW c \in DOMAIN Name
        PROVE  Name[c] \in Seq(Byte) /\ Len(Name[c]) = CommandSize
    BY <1>1, IsASeq
  <1>3. CommandSize # 0
    <2>1. "inv" \in DOMAIN Name
      BY <1>1
    <2>2. PICK i \in DOMAIN Name["inv"] : Name["inv"][i] = 0
      BY <1>1, <2>1
    <2>3. DOMAIN Name["inv"] = 1 .. CommandSize
      BY <1>1, <2>1
    <2> QED BY <1>1, <2>2, <2>3
  <1> QED BY <1>1, <1>2, <1>3

\* What a letter is.
LEMMA LetterIs ==
  ASSUME NEW l \in Letters
  PROVE  /\ l.type \in {MsgTx, MsgBlock} /\ l.items # << >>
         /\ l.type = MsgTx => l.items \in Seq(TxType)
         /\ l.type # MsgTx => l.items \in Seq(BlockType)
         /\ Len(l.items) \in Nat \ {0} /\ DOMAIN l.items = 1 .. Len(l.items)
         /\ ItemName(l.type) \in DOMAIN Name
  <1>1. l.type \in {MsgTx, MsgBlock} /\ l.items # << >>
    BY WireSizes
  <1>2. l.items \in Seq(IF l.type = MsgTx THEN TxType ELSE BlockType)
    BY WireSizes
  <1>3. Len(l.items) \in Nat \ {0} /\ DOMAIN l.items = 1 .. Len(l.items)
    BY <1>1, <1>2, EmptySeq
  <1>4. ItemName(l.type) \in DOMAIN Name
    BY SizesAre DEF ItemName
  <1> QED BY <1>1, <1>2, <1>3, <1>4

\* The bytes of a block.
LEMMA BlockBytesType ==
  ASSUME NEW b \in BlockType
  PROVE  BlockBytes(b) \in Seq(Byte)
  <1>1. /\ IntBytes(b.version) \in Seq(Byte) /\ b.prevBlock \in Seq(Byte)
        /\ IntBytes(b.number) \in Seq(Byte) /\ b.merkleRoot \in Seq(Byte)
        /\ IntBytes(b.bits) \in Seq(Byte) /\ IntBytes(b.nonce) \in Seq(Byte)
        /\ IntBytes(b.txsCount) \in Seq(Byte) /\ Each(TxBytes, b.txs) \in Seq(Byte)
    BY BlockFields, IntBytesType, TxPartsType
  <1>2. BlockData(b) \in Seq(Byte)
    BY <1>1, ConcatProperties DEF BlockData
  <1> QED BY <1>1, <1>2, ConcatProperties DEF BlockBytes

\* The bytes of an item.
LEMMA ItemBytesType ==
  ASSUME NEW l \in Letters, NEW i \in 1 .. Len(l.items)
  PROVE  ItemBytes(l, l.items[i]) \in Seq(Byte)
  <1>1. CASE l.type = MsgTx
    <2>1. l.items[i] \in TxType
      BY <1>1, LetterIs
    <2> QED BY <1>1, <2>1, TxBytesType DEF ItemBytes
  <1>2. CASE l.type # MsgTx
    <2>1. l.items[i] \in BlockType
      BY <1>2, LetterIs
    <2> QED BY <1>2, <2>1, BlockBytesType DEF ItemBytes
  <1> QED BY <1>1, <1>2

\* Data with its length.
LEMMA WrappedType ==
  ASSUME NEW data \in Seq(Byte)
  PROVE  /\ Wrapped(data) \in Seq(Byte) /\ Len(Wrapped(data)) = IntSize + Len(data)
         /\ HasAt(Wrapped(data), 0, IntBytes(Len(data))) /\ HasAt(Wrapped(data), IntSize, data)
  <1> DEFINE a == IntBytes(Len(data))
             w == a \o data
  <1>1. a \in Seq(Byte) /\ Len(a) = IntSize /\ IntSize \in Nat
    BY IntBytesType, ByteIs
  <1> HIDE DEF a
  <1>2. w \in Seq(Byte) /\ Len(w) = IntSize + Len(data)
    BY <1>1, ConcatProperties
  <1>3. HasAt(w, 0, a \o data)
    BY <1>2, HasAll
  <1>4. HasAt(w, 0, a) /\ HasAt(w, 0 + Len(a), data)
    <2> HIDE DEF w
    <2> QED BY <1>1, <1>2, <1>3, HasConcat
  <1>5. 0 + Len(a) = IntSize
    BY <1>1
  <1> QED BY <1>2, <1>4, <1>5 DEF Wrapped, a

\* Zeros are bytes.
LEMMA ZerosType ==
  ASSUME NEW n \in Nat
  PROVE  Zeros(n) \in Seq(Byte) /\ Len(Zeros(n)) = n /\ \A i \in 1 .. n : Zeros(n)[i] = 0
  <1>1. Zeros(n) \in [1 .. n -> Byte]
    BY ByteIs DEF Zeros
  <1>2. \A i \in 1 .. n : Zeros(n)[i] = 0
    BY DEF Zeros
  <1> QED BY <1>1, <1>2, IsASeq

\* The bytes of an announcement.
LEMMA InvBytesType ==
  ASSUME NEW type \in Nat, NEW n \in Nat
  PROVE  /\ InvBytes(type, n) \in Seq(Byte)
         /\ Len(InvBytes(type, n)) = 2 * IntSize + HashSize
         /\ HashFrom32(n) \in Seq(Byte) /\ Len(HashFrom32(n)) = HashSize
         /\ HasAt(InvBytes(type, n), 0, IntBytes(1))
         /\ HasAt(InvBytes(type, n), IntSize, IntBytes(type))
         /\ HasAt(InvBytes(type, n), 2 * IntSize, HashFrom32(n))
         /\ \A i \in 1 .. HashSize :
              HashFrom32(n)[i] = IF i <= IntSize THEN IntBytes(n)[i] ELSE 0
  <1> DEFINE a == IntBytes(1)
             b == IntBytes(type)
             c == IntBytes(n)
             z == Zeros(HashSize - IntSize)
             h == c \o z
  <1>0. IntSize \in Nat /\ HashSize \in Nat /\ IntSize <= HashSize /\ 0 \in Byte /\ 1 \in Nat
    BY ByteIs
  <1>1. /\ a \in Seq(Byte) /\ b \in Seq(Byte) /\ c \in Seq(Byte)
        /\ Len(a) = IntSize /\ Len(b) = IntSize /\ Len(c) = IntSize
    BY <1>0, IntBytesType
  <1>2. z \in Seq(Byte) /\ Len(z) = HashSize - IntSize /\ \A i \in 1 .. HashSize - IntSize : z[i] = 0
    BY <1>0, ZerosType
  <1> HIDE DEF a, b, c, z
  <1>3. /\ h \in Seq(Byte) /\ Len(h) = HashSize
        /\ \A i \in 1 .. HashSize : h[i] = IF i <= IntSize THEN c[i] ELSE 0
    <2>1. /\ h \in Seq(Byte) /\ Len(h) = Len(c) + Len(z)
          /\ \A i \in 1 .. Len(c) + Len(z) : h[i] = IF i <= Len(c) THEN c[i] ELSE z[i - Len(c)]
      BY <1>1, <1>2, ConcatProperties
    <2>2. ASSUME NEW i \in 1 .. HashSize PROVE h[i] = IF i <= IntSize THEN c[i] ELSE 0
      <3>1. i \in 1 .. Len(c) + Len(z)
        BY <1>0, <1>1, <1>2
      <3>2. ~(i <= IntSize) => i - IntSize \in 1 .. HashSize - IntSize
        BY <1>0
      <3> QED BY <1>1, <1>2, <2>1, <3>1, <3>2
    <2> QED BY <1>0, <1>1, <1>2, <2>1, <2>2
  <1> HIDE DEF h
  <1> DEFINE ab == a \o b
             w == ab \o h
  <1>4. ab \in Seq(Byte) /\ Len(ab) = 2 * IntSize
    <2>1. ab \in Seq(Byte) /\ Len(ab) = Len(a) + Len(b)
      BY <1>1, ConcatProperties
    <2> HIDE DEF ab
    <2> QED BY <1>0, <1>1, <2>1
  <1>5. HasAt(w, 0, ab \o h) /\ w \in Seq(Byte) /\ Len(w) = 2 * IntSize + HashSize
    <2> HIDE DEF ab
    <2>1. w \in Seq(Byte) /\ Len(w) = Len(ab) + Len(h)
      BY <1>3, <1>4, ConcatProperties
    <2>2. HasAt(w, 0, w)
      <3> HIDE DEF w
      <3> QED BY <2>1, HasAll
    <2>3. Len(w) = 2 * IntSize + HashSize
      BY <1>3, <1>4, <2>1
    <2> QED BY <2>1, <2>2, <2>3
  <1>6. HasAt(w, 0, ab) /\ HasAt(w, 0 + Len(ab), h)
    <2> HIDE DEF w, ab
    <2>1. HasAt(w, 0, ab \o h)
      BY <1>5
    <2> QED BY <1>3, <1>4, <1>5, <2>1, HasConcat
  <1>7. HasAt(w, 0, a) /\ HasAt(w, 0 + Len(a), b)
    <2> HIDE DEF w
    <2> QED BY <1>1, <1>5, <1>6, HasConcat
  <1>8. 0 + Len(a) = IntSize /\ 0 + Len(ab) = 2 * IntSize
    BY <1>0, <1>1, <1>4
  <1>9. w = InvBytes(type, n) /\ h = HashFrom32(n)
    BY DEF w, InvBytes, HashFrom32, a, b, h, c, z
  <1> QED BY <1>3, <1>5, <1>6, <1>7, <1>8, <1>9 DEF a, b, c

\* The messages of a letter: 0 is the announcement, the others are its items.
NameOf(l, m) == IF m = 0 THEN "inv" ELSE ItemName(l.type)
PayloadOf(l, m) ==
  IF m = 0 THEN InvBytes(l.type, Len(l.items)) ELSE Wrapped(ItemBytes(l, l.items[m]))

\* A payload has bytes, at least one.
LEMMA PayloadType ==
  ASSUME NEW l \in Letters, NEW m \in 0 .. Len(l.items)
  PROVE  /\ PayloadOf(l, m) \in Seq(Byte) /\ Len(PayloadOf(l, m)) \in Nat \ {0}
         /\ NameOf(l, m) \in DOMAIN Name
  <1>0. IntSize \in Nat \ {0} /\ HashSize \in Nat /\ Len(l.items) \in Nat /\ l.type \in Nat
    BY ByteIs, LetterIs DEF MsgTx, MsgBlock
  <1>1. CASE m = 0
    <2>1. /\ InvBytes(l.type, Len(l.items)) \in Seq(Byte)
          /\ Len(InvBytes(l.type, Len(l.items))) = 2 * IntSize + HashSize
      BY <1>0, InvBytesType
    <2>2. 2 * IntSize + HashSize \in Nat \ {0}
      BY <1>0
    <2>3. "inv" \in DOMAIN Name
      BY SizesAre
    <2> QED BY <1>1, <2>1, <2>2, <2>3 DEF PayloadOf, NameOf
  <1>2. CASE m # 0
    <2>1. m \in 1 .. Len(l.items)
      BY <1>2
    <2> DEFINE data == ItemBytes(l, l.items[m])
    <2>2. data \in Seq(Byte) /\ Len(data) \in Nat
      BY <2>1, ItemBytesType
    <2> HIDE DEF data
    <2>3. Wrapped(data) \in Seq(Byte) /\ Len(Wrapped(data)) = IntSize + Len(data)
      BY <2>2, WrappedType
    <2>4. IntSize + Len(data) \in Nat \ {0}
      BY <1>0, <2>2
    <2>5. ItemName(l.type) \in DOMAIN Name
      BY LetterIs
    <2>6. PayloadOf(l, m) = Wrapped(data) /\ NameOf(l, m) = ItemName(l.type)
      BY <1>2 DEF PayloadOf, NameOf, data
    <2> QED BY <2>3, <2>4, <2>5, <2>6
  <1> QED BY <1>1, <1>2

\* The three sends of a message.
LEMMA SendsOfType ==
  ASSUME NEW c \in DOMAIN Name, NEW payload \in Seq(Byte)
  PROVE  /\ SendsOf(c, payload) \in Seq(Seq(Byte)) /\ Len(SendsOf(c, payload)) = 3
         /\ SendsOf(c, payload)[1] = Name[c] /\ SendsOf(c, payload)[2] = IntBytes(Len(payload))
         /\ SendsOf(c, payload)[3] = payload
  <1> DEFINE a == Name[c]
             b == IntBytes(Len(payload))
  <1>1. a \in Seq(Byte) /\ b \in Seq(Byte)
    BY SizesAre, IntBytesType
  <1> HIDE DEF a, b
  <1>2. << a, b, payload >> \in Seq(Seq(Byte))
    BY <1>1
  <1> QED BY <1>2 DEF SendsOf, a, b

Bodies(l) == [i \in DOMAIN l.items |->
                SendsOf(ItemName(l.type), Wrapped(ItemBytes(l, l.items[i])))]

\* The sends of the items, three for each.
LEMMA BodiesType ==
  ASSUME NEW l \in Letters
  PROVE  /\ Bodies(l) \in Seq(Seq(Seq(Byte))) /\ Len(Bodies(l)) = Len(l.items)
         /\ Equal(Bodies(l), 3)
         /\ \A i \in 1 .. Len(l.items) : Bodies(l)[i] = SendsOf(NameOf(l, i), PayloadOf(l, i))
  <1>0. Len(l.items) \in Nat /\ DOMAIN l.items = 1 .. Len(l.items)
    BY LetterIs
  <1>1. ASSUME NEW i \in 1 .. Len(l.items)
        PROVE  /\ Bodies(l)[i] = SendsOf(NameOf(l, i), PayloadOf(l, i))
               /\ Bodies(l)[i] \in Seq(Seq(Byte)) /\ Len(Bodies(l)[i]) = 3
    <2>1. i \in 0 .. Len(l.items) /\ i # 0
      BY <1>0
    <2>2. PayloadOf(l, i) \in Seq(Byte) /\ NameOf(l, i) \in DOMAIN Name
      BY <2>1, PayloadType
    <2>3. Bodies(l)[i] = SendsOf(NameOf(l, i), PayloadOf(l, i))
      BY <1>0, <2>1 DEF Bodies, PayloadOf, NameOf
    <2> QED BY <2>2, <2>3, SendsOfType
  <1>2. Bodies(l) \in [1 .. Len(l.items) -> Seq(Seq(Byte))]
    <2>1. DOMAIN Bodies(l) = 1 .. Len(l.items) /\ Bodies(l) = [i \in DOMAIN Bodies(l) |-> Bodies(l)[i]]
      BY <1>0 DEF Bodies
    <2> QED BY <1>1, <2>1
  <1>3. Bodies(l) \in Seq(Seq(Seq(Byte))) /\ Len(Bodies(l)) = Len(l.items)
    BY <1>0, <1>2, IsASeq
  <1> QED BY <1>1, <1>3 DEF Equal

\* One element of what stands somewhere.
LEMMA ElementAt ==
  ASSUME NEW S, NEW data \in Seq(S), NEW p \in Nat, NEW b \in Seq(S), HasAt(data, p, b),
         NEW i \in 1 .. Len(b)
  PROVE  data[p + i] = b[i] /\ p + i \in 1 .. Len(data)
  <1>1. Len(b) \in Nat /\ Len(data) \in Nat
    OBVIOUS
  <1>2. data[p + i] = b[i] /\ p + Len(b) <= Len(data)
    BY DEF HasAt
  <1> QED BY <1>1, <1>2

\* The sends of a letter, three for each message.
LEMMA SendsAre ==
  ASSUME NEW l \in Letters
  PROVE  /\ SendsOfLetter[l] \in Seq(Seq(Byte))
         /\ Len(SendsOfLetter[l]) = 3 * (Len(l.items) + 1)
         /\ \A m \in 0 .. Len(l.items) :
              /\ SendsOfLetter[l][3 * m + 1] = Name[NameOf(l, m)]
              /\ SendsOfLetter[l][3 * m + 2] = IntBytes(Len(PayloadOf(l, m)))
              /\ SendsOfLetter[l][3 * m + 3] = PayloadOf(l, m)
  <1> DEFINE n == Len(l.items)
             a == SendsOf("inv", InvBytes(l.type, n))
             b == FlattenSeq(Bodies(l))
             s == a \o b
  <1>0. n \in Nat /\ IntSize \in Nat
    BY LetterIs, ByteIs
  <1>1. SendsOfLetter[l] = s
    BY DEF SendsOfLetter, Bodies
  <1>2. \A m \in 0 .. n : PayloadOf(l, m) \in Seq(Byte) /\ NameOf(l, m) \in DOMAIN Name
    BY PayloadType
  <1>3. a = SendsOf(NameOf(l, 0), PayloadOf(l, 0))
    BY DEF NameOf, PayloadOf
  <1>4. a \in Seq(Seq(Byte)) /\ Len(a) = 3
    <2>1. 0 \in 0 .. n
      BY <1>0
    <2> QED BY <1>2, <1>3, <2>1, SendsOfType
  <1>5. /\ Bodies(l) \in Seq(Seq(Seq(Byte))) /\ Len(Bodies(l)) = n /\ Equal(Bodies(l), 3)
        /\ \A i \in 1 .. n : Bodies(l)[i] = SendsOf(NameOf(l, i), PayloadOf(l, i))
    BY BodiesType
  <1>6. b \in Seq(Seq(Byte)) /\ Len(b) = n * 3
    <2>1. 3 \in Nat
      OBVIOUS
    <2> QED BY <1>5, <2>1, PartsEnd, FlatLength
  <1> HIDE DEF a, b, n
  <1>7. s \in Seq(Seq(Byte)) /\ Len(s) = 3 * (n + 1)
    <2>1. s \in Seq(Seq(Byte)) /\ Len(s) = Len(a) + Len(b)
      BY <1>4, <1>6, ConcatProperties
    <2> QED BY <1>0, <1>4, <1>6, <2>1
  <1>8. HasAt(s, 0, a) /\ HasAt(s, 0 + Len(a), b)
    <2>1. HasAt(s, 0, a \o b)
      <3>1. HasAt(s, 0, s)
        <4> HIDE DEF s
        <4> QED BY <1>7, HasAll
      <3> QED BY <3>1
    <2> HIDE DEF s
    <2> QED BY <1>4, <1>6, <1>7, <2>1, HasConcat
  <1> HIDE DEF s
  <1>9. HasAt(s, 3, b)
    BY <1>4, <1>8
  <1>10. ASSUME NEW m \in 0 .. n
         PROVE  HasAt(s, 3 * m, SendsOf(NameOf(l, m), PayloadOf(l, m)))
    <2>1. CASE m = 0
      <3>1. 3 * m = 0
        BY <2>1
      <3> QED BY <1>3, <1>8, <2>1, <3>1
    <2>2. CASE m # 0
      <3>1. m \in 1 .. n /\ 3 + (m - 1) * 3 = 3 * m /\ 3 \in Nat
        BY <1>0, <2>2
      <3>2. HasAt(s, 3, FlattenSeq(Bodies(l)))
        BY <1>9 DEF b
      <3>3. HasAt(s, 3 + (m - 1) * 3, Bodies(l)[m])
        BY <1>5, <1>7, <3>1, <3>2, EqualParts
      <3> QED BY <1>5, <3>1, <3>3
    <2> QED BY <2>1, <2>2
  <1>11. ASSUME NEW m \in 0 .. n
         PROVE  /\ s[3 * m + 1] = Name[NameOf(l, m)]
                /\ s[3 * m + 2] = IntBytes(Len(PayloadOf(l, m)))
                /\ s[3 * m + 3] = PayloadOf(l, m)
    <2> DEFINE c == SendsOf(NameOf(l, m), PayloadOf(l, m))
    <2>1. /\ c \in Seq(Seq(Byte)) /\ Len(c) = 3 /\ c[1] = Name[NameOf(l, m)]
          /\ c[2] = IntBytes(Len(PayloadOf(l, m))) /\ c[3] = PayloadOf(l, m)
      BY <1>2, SendsOfType
    <2>2. HasAt(s, 3 * m, c) /\ 3 * m \in Nat
      BY <1>0, <1>10
    <2> HIDE DEF c
    <2>3. \A i \in 1 .. 3 : s[3 * m + i] = c[i]
      BY <1>7, <2>1, <2>2, ElementAt
    <2> QED BY <2>1, <2>3
  <1> QED BY <1>1, <1>7, <1>11 DEF n

-----------------------------------------------------------------------------
(***************************************************************************)
(* Types: what a receive and a read give, and the invariant of every step. *)
(***************************************************************************)
\* The rest of a stream.
LEMMA FromType ==
  ASSUME NEW s \in Seq(Byte), NEW p \in Nat
  PROVE  /\ From(s, p) \in Seq(Byte)
         /\ p <= Len(s) => Len(From(s, p)) = Len(s) - p
         /\ \A i \in 1 .. Len(s) - p : From(s, p)[i] = s[p + i]
  <1>1. Len(s) \in Nat /\ p + 1 \in Int /\ \A i \in p + 1 .. Len(s) : s[i] \in Byte
    OBVIOUS
  <1>2. /\ SubSeq(s, p + 1, Len(s)) \in Seq(Byte)
        /\ Len(SubSeq(s, p + 1, Len(s))) = IF p + 1 <= Len(s) THEN Len(s) - (p + 1) + 1 ELSE 0
        /\ \A i \in 1 .. Len(s) - (p + 1) + 1 : SubSeq(s, p + 1, Len(s))[i] = s[(p + 1) + i - 1]
    BY <1>1, SubSeqProperties
  <1>3. /\ p <= Len(s) => Len(SubSeq(s, p + 1, Len(s))) = Len(s) - p
    BY <1>1, <1>2
  <1>4. ASSUME NEW i \in 1 .. Len(s) - p PROVE SubSeq(s, p + 1, Len(s))[i] = s[p + i]
    <2>1. i \in 1 .. Len(s) - (p + 1) + 1 /\ (p + 1) + i - 1 = p + i
      BY <1>1
    <2> QED BY <1>2, <2>1
  <1> QED BY <1>2, <1>3, <1>4 DEF From

\* What a read of n bytes gives has n bytes.
LEMMA FilledType ==
  ASSUME NEW s \in Seq(Byte), NEW n \in Nat, NEW b \in Filled(s, n)
  PROVE  b \in Seq(Byte) /\ Len(b) = n /\ (n <= Len(s) => b = SubSeq(s, 1, n))
  <1>0. Len(s) \in Nat
    OBVIOUS
  <1>1. CASE Len(s) < n
    <2>1. PICK junk \in [1 .. n - Len(s) -> Byte] : b = s \o junk
      BY <1>1 DEF Filled
    <2>2. n - Len(s) \in Nat
      BY <1>0, <1>1
    <2>3. junk \in Seq(Byte) /\ Len(junk) = n - Len(s)
      BY <2>2, IsASeq
    <2>4. b \in Seq(Byte) /\ Len(b) = Len(s) + Len(junk)
      BY <2>1, <2>3, ConcatProperties
    <2> QED BY <1>0, <1>1, <2>3, <2>4
  <1>2. CASE ~(Len(s) < n)
    <2>1. b = SubSeq(s, 1, n)
      BY <1>2 DEF Filled
    <2>2. \A i \in 1 .. n : s[i] \in Byte
      BY <1>0, <1>2
    <2>3. 1 \in Int /\ n \in Int
      OBVIOUS
    <2>4. SubSeq(s, 1, n) \in Seq(Byte) /\ Len(SubSeq(s, 1, n)) = IF 1 <= n THEN n - 1 + 1 ELSE 0
      BY <2>2, <2>3, SubSeqProperties
    <2> QED BY <2>1, <2>4
  <1> QED BY <1>1, <1>2

\* The hash of a row ends within what there is.
LEMMA HashEndType ==
  ASSUME NEW s \in Seq(Byte)
  PROVE  HashEnd(s) \in Nat /\ HashEnd(s) <= Len(s)
  <1> DEFINE P(p) == Len(Unspaced(SubSeq(s, 1, p))) < HashSize
             short == {p \in 0 .. Len(s) : P(p)}
  <1>1. Len(s) \in Nat
    OBVIOUS
  <1>2. short \in SUBSET (0 .. Len(s))
    <2> HIDE DEF P
    <2> QED OBVIOUS
  <1>3. HashEnd(s) = IF Cardinality(short) <= Len(s) THEN Cardinality(short) ELSE Len(s)
    BY DEF HashEnd
  <1> HIDE DEF short
  <1>4. IsFiniteSet(0 .. Len(s))
    BY <1>1, FS_Interval
  <1>5. IsFiniteSet(short)
    BY <1>2, <1>4, FS_Subset
  <1>6. Cardinality(short) \in Nat
    BY <1>5, FS_CardinalityType
  <1> QED BY <1>1, <1>3, <1>6

\* A buffer after a receive.
LEMMA ReceivedType ==
  ASSUME wire \in Seq(Byte), NEW n \in Nat, NEW k \in 0 .. n, k <= Len(wire), NEW rest,
         \A i \in k + 1 .. n : rest[i] \in Byte
  PROVE  Received(n, k, rest) \in Seq(Byte) /\ Len(Received(n, k, rest)) = n
  <1>1. ASSUME NEW i \in 1 .. n PROVE (IF i <= k THEN wire[i] ELSE rest[i]) \in Byte
    <2>1. CASE i <= k
      <3>1. i \in 1 .. Len(wire)
        BY <2>1
      <3> QED BY <2>1, <3>1
    <2>2. CASE ~(i <= k)
      <3>1. i \in k + 1 .. n
        BY <2>2
      <3> QED BY <2>2, <3>1
    <2> QED BY <2>1, <2>2
  <1>2. Received(n, k, rest) \in [1 .. n -> Byte]
    BY <1>1 DEF Received
  <1> QED BY <1>2, IsASeq

\* A command received is one of the names or another.
LEMMA TextOfType ==
  ASSUME NEW b
  PROVE  TextOf(b) \in DOMAIN Name \union {"other"}
  <1> DEFINE P(c) == IsPrefix(Text(c), b)
             same == {c \in DOMAIN Name : P(c)}
  <1>1. same \subseteq DOMAIN Name
    <2> HIDE DEF P
    <2> QED OBVIOUS
  <1>2. TextOf(b) = IF same = {} THEN "other" ELSE CHOOSE c \in same : TRUE
    BY DEF TextOf
  <1> HIDE DEF same
  <1>3. same # {} => (CHOOSE c \in same : TRUE) \in same
    OBVIOUS
  <1> QED BY <1>1, <1>2, <1>3

\* Bytes without some are bytes.
LEMMA UnspacedType ==
  ASSUME NEW s \in Seq(Byte)
  PROVE  Unspaced(s) \in Seq(Byte)
  <1> DEFINE drop == [i \in DOMAIN s |-> s[i] \in Spaces]
  <1>1. Unspaced(s) = Without(s, drop)
    BY DEF Unspaced
  <1> HIDE DEF drop
  <1> QED BY <1>1, WithoutWithin

Commands == DOMAIN Name \union {"other"}
MsgType == [command : Commands, size : 0 .. Power[IntSize] - 1, payload : Seq(Byte)]
InvType == [rows : Nat, rest : Seq(Byte), type : {0, MsgTx, MsgBlock}, left : Nat]

\* What the handlers rely on of the row they are in.
InRow ==
  /\ at \in Reading => inv = NoInv \/ inv.left > 0
  /\ at = "accept" => inv = NoInv
  /\ at = "item" => inv.left > 0
  /\ at = "row" => inv.left = 0

TypeInv ==
  /\ letter \in Letters /\ sent \in 0 .. Len(Sends)
  /\ link \in {"open", "closed", "lost"} /\ wire \in Seq(Byte)
  /\ link = "closed" => sent = Len(Sends)
  /\ at \in Reading \union {"accept", "row", "item"} \union Ends
  /\ msg \in MsgType /\ inv \in InvType /\ (inv.left > 0 <=> inv.type # 0)
  /\ IsSeq(box) /\ InRow
  /\ cuts \in Seq(Reading) /\ Len(cuts) <= MaxCuts

\* The invariant is stronger than the type invariant the runs check.
LEMMA TypeInvIsTypeOK == TypeInv => TypeOK
  BY DEF TypeInv, TypeOK, MsgType, InvType, Commands

\* The values the locals begin with.
LEMMA NoMsgType == NoMsg \in MsgType /\ NoInv \in InvType /\ NoInv.left = 0 /\ NoInv.type = 0
  <1>1. Power[IntSize] \in Nat \ {0}
    BY ByteIs, PowerIs
  <1>2. 0 \in 0 .. Power[IntSize] - 1 /\ << >> \in Seq(Byte)
    BY <1>1
  <1> QED BY <1>2 DEF NoMsg, NoInv, MsgType, InvType, Commands

\* No receive has come short at first.
LEMMA EmptyCuts == << >> \in Seq(Reading) /\ Len(<< >>) = 0
  OBVIOUS

\* The invariant holds at first.
LEMMA TypeInit == Init => TypeInv
  <1> SUFFICES ASSUME Init PROVE TypeInv
    OBVIOUS
  <1>1. Len(Sends) \in Nat
    BY SendsAre DEF Init, Sends
  <1>2. IsSeq(<< >>)
    BY DEF IsSeq
  <1>3. 0 \in 0 .. Len(Sends) /\ MaxCuts \in Nat /\ << >> \in Seq(Byte)
    BY <1>1, SizesAre
  <1>4. 0 <= MaxCuts
    BY <1>3
  <1> QED BY <1>2, <1>3, <1>4, NoMsgType, EmptyCuts DEF Init, TypeInv, InRow, Reading, Ends

\* A receive leaves bytes under way.
LEMMA ReceiveType ==
  ASSUME wire \in Seq(Byte), cuts \in Seq(Reading), at \in Reading, Len(cuts) <= MaxCuts,
         NEW n \in Nat, NEW k, Receive(n, k)
  PROVE  /\ k \in 0 .. n /\ k <= Len(wire)
         /\ wire' \in Seq(Byte) /\ cuts' \in Seq(Reading) /\ Len(cuts') <= MaxCuts
  <1>1. k \in 0 .. n /\ k <= Len(wire)
    BY DEF Receive
  <1>2. wire' \in Seq(Byte)
    <2>1. wire' = From(wire, k)
      BY DEF Receive, From
    <2> QED BY <1>1, <2>1, FromType
  <1>3. cuts' \in Seq(Reading) /\ Len(cuts') <= MaxCuts
    <2>1. Append(cuts, at) \in Seq(Reading)
      BY AppendProperties
    <2>2. cuts' = (IF k < n THEN Append(cuts, at) ELSE cuts) /\ Len(cuts') <= MaxCuts
      BY DEF Receive
    <2> QED BY <2>1, <2>2
  <1> QED BY <1>1, <1>2, <1>3

\* What is said of the letter stays while the letter does.
LEMMA SameLetter ==
  ASSUME letter' = letter
  PROVE  Sends' = Sends /\ Kept' = Kept /\ Framed' = Framed
  BY DEF Sends, Kept, Framed

\* The steps of the sender.
LEMMA TypeSender ==
  ASSUME TypeInv, Send \/ Close \/ Break
  PROVE  TypeInv'
  <1>0. Sends \in Seq(Seq(Byte)) /\ Len(Sends) \in Nat
    BY SendsAre DEF TypeInv, Sends
  <1>1. letter' = letter /\ UNCHANGED << at, msg, inv, box, cuts >>
    BY DEF Send, Close, Break
  <1>2. Sends' = Sends
    BY <1>1, SameLetter
  <1>3. /\ sent' \in 0 .. Len(Sends) /\ link' \in {"open", "closed", "lost"}
        /\ wire' \in Seq(Byte) /\ (link' = "closed" => sent' = Len(Sends))
    <2>1. CASE Send
      <3>1. /\ sent \in 0 .. Len(Sends) /\ sent < Len(Sends) /\ sent' = sent + 1
            /\ wire' = wire \o Sends[sent + 1] /\ link' = link /\ link = "open" /\ wire \in Seq(Byte)
        BY <2>1 DEF Send, TypeInv
      <3>2. sent + 1 \in 1 .. Len(Sends) /\ sent + 1 \in 0 .. Len(Sends)
        BY <1>0, <3>1
      <3>3. Sends[sent + 1] \in Seq(Byte)
        BY <1>0, <3>2
      <3>4. wire' \in Seq(Byte)
        BY <3>1, <3>3, ConcatProperties
      <3> QED BY <3>1, <3>2, <3>4
    <2>2. CASE Close
      BY <2>2 DEF Close, TypeInv
    <2>3. CASE Break
      <3>1. << >> \in Seq(Byte)
        OBVIOUS
      <3> QED BY <2>3, <3>1 DEF Break, TypeInv
    <2> QED BY <2>1, <2>2, <2>3
  <1> QED BY <1>1, <1>2, <1>3 DEF TypeInv, InRow

\* A step of the receiver that leaves the bytes alone.
LEMMA TypeReceiver ==
  ASSUME TypeInv, UNCHANGED << letter, sent, link >>,
         wire' \in Seq(Byte), at' \in Reading \union {"accept", "row", "item"} \union Ends,
         msg' \in MsgType, inv' \in InvType, inv'.left > 0 <=> inv'.type # 0,
         IsSeq(box'), InRow', cuts' \in Seq(Reading), Len(cuts') <= MaxCuts
  PROVE  TypeInv'
  <1>1. Sends' = Sends
    BY SameLetter
  <1> QED BY <1>1 DEF TypeInv

\* The command is received.
LEMMA TypeCommand ==
  ASSUME TypeInv, ReceiveCommand
  PROVE  TypeInv'
  <1>1. /\ at = "command" /\ at' = "size" /\ UNCHANGED << letter, sent, link, inv, box >>
        /\ at \in Reading /\ CommandSize \in Nat
    BY SizesAre DEF ReceiveCommand, Reading
  <1>2. PICK k \in 0 .. CommandSize :
          /\ Receive(CommandSize, k)
          /\ \E rest \in [k + 1 .. CommandSize -> Byte] :
               msg' = [NoMsg EXCEPT !.command = TextOf(Received(CommandSize, k, rest))]
    BY DEF ReceiveCommand
  <1>3. /\ wire' \in Seq(Byte) /\ cuts' \in Seq(Reading) /\ Len(cuts') <= MaxCuts
    BY <1>1, <1>2, ReceiveType DEF TypeInv
  <1>4. PICK c \in Commands : msg' = [NoMsg EXCEPT !.command = c]
    <2>1. PICK rest : msg' = [NoMsg EXCEPT !.command = TextOf(Received(CommandSize, k, rest))]
      BY <1>2
    <2> QED BY <2>1, TextOfType DEF Commands
  <1>5. msg' \in MsgType
    BY <1>4, NoMsgType DEF MsgType
  <1>6. InRow'
    BY <1>1 DEF TypeInv, InRow, Reading
  <1>7. at' \in Reading
    BY <1>1 DEF Reading
  <1> QED BY <1>1, <1>3, <1>5, <1>6, <1>7, TypeReceiver DEF TypeInv

\* The size is received.
LEMMA TypeSize ==
  ASSUME TypeInv, ReceiveSize
  PROVE  TypeInv'
  <1>1. /\ at = "size" /\ at' = "payload" /\ UNCHANGED << letter, sent, link, inv, box >>
        /\ at \in Reading /\ IntSize \in Nat
    BY ByteIs DEF ReceiveSize, Reading
  <1>2. PICK k \in 0 .. IntSize :
          /\ Receive(IntSize, k)
          /\ \E rest \in [k + 1 .. IntSize -> Byte] :
               msg' = [msg EXCEPT !.size = IntAt(Received(IntSize, k, rest), 0)]
    BY DEF ReceiveSize
  <1>3. /\ k <= Len(wire)
        /\ wire' \in Seq(Byte) /\ cuts' \in Seq(Reading) /\ Len(cuts') <= MaxCuts
    BY <1>1, <1>2, ReceiveType DEF TypeInv
  <1>4. PICK v \in 0 .. Power[IntSize] - 1 : msg' = [msg EXCEPT !.size = v]
    <2>1. PICK rest \in [k + 1 .. IntSize -> Byte] :
            msg' = [msg EXCEPT !.size = IntAt(Received(IntSize, k, rest), 0)]
      BY <1>2
    <2> DEFINE b == Received(IntSize, k, rest)
    <2>2. b \in Seq(Byte)
      <3>1. \A i \in k + 1 .. IntSize : rest[i] \in Byte
        OBVIOUS
      <3> QED BY <1>1, <1>2, <1>3, <3>1, ReceivedType DEF TypeInv
    <2>3. IntAt(b, 0) \in Nat /\ IntAt(b, 0) < Power[IntSize]
      <3> HIDE DEF b
      <3>1. 0 \in Nat
        OBVIOUS
      <3> QED BY <2>2, <3>1, IntAtType
    <2>4. Power[IntSize] \in Nat
      BY <1>1, PowerIs
    <2>5. IntAt(b, 0) \in 0 .. Power[IntSize] - 1
      <3> HIDE DEF b
      <3> QED BY <2>3, <2>4
    <2> QED BY <2>1, <2>5
  <1>5. msg' \in MsgType
    BY <1>4 DEF MsgType, TypeInv
  <1>6. InRow'
    BY <1>1 DEF TypeInv, InRow, Reading
  <1>7. at' \in Reading
    BY <1>1 DEF Reading
  <1> QED BY <1>1, <1>3, <1>5, <1>6, <1>7, TypeReceiver DEF TypeInv

\* The payload is received.
LEMMA TypePayload ==
  ASSUME TypeInv, ReceivePayload
  PROVE  TypeInv'
  <1>1. /\ at = "payload" /\ at' = (IF inv = NoInv THEN "accept" ELSE "item")
        /\ UNCHANGED << letter, sent, link, inv, box >> /\ at \in Reading
    BY DEF ReceivePayload, Reading
  <1>2. PICK k \in 0 .. msg.size :
          /\ Receive(msg.size, k)
          /\ msg' = [msg EXCEPT !.payload = Received(msg.size, k, Zeros(msg.size))]
    BY DEF ReceivePayload
  <1>a. msg.size \in Nat /\ msg \in MsgType
    <2>1. Power[IntSize] \in Nat
      BY ByteIs, PowerIs
    <2> QED BY <2>1 DEF TypeInv, MsgType
  <1>3. /\ k <= Len(wire)
        /\ wire' \in Seq(Byte) /\ cuts' \in Seq(Reading) /\ Len(cuts') <= MaxCuts
    BY <1>1, <1>2, <1>a, ReceiveType DEF TypeInv
  <1>4. Received(msg.size, k, Zeros(msg.size)) \in Seq(Byte)
    <2>1. \A i \in k + 1 .. msg.size : Zeros(msg.size)[i] \in Byte
      <3>1. \A i \in k + 1 .. msg.size : i \in 1 .. msg.size
        BY <1>a
      <3> QED BY <1>a, <3>1, ZerosType, ByteIs
    <2> QED BY <1>2, <1>3, <1>a, <2>1, ReceivedType DEF TypeInv
  <1>5. msg' \in MsgType
    BY <1>2, <1>4, <1>a DEF MsgType
  <1>6. InRow'
    BY <1>1 DEF TypeInv, InRow, Reading
  <1>7. at' \in {"accept", "item"}
    BY <1>1
  <1> QED BY <1>1, <1>3, <1>5, <1>6, <1>7, TypeReceiver DEF TypeInv

\* A receive throws.
LEMMA TypeThrows ==
  ASSUME TypeInv, ReceiveThrows
  PROVE  TypeInv'
  <1>1. at' = "threw" /\ UNCHANGED << letter, sent, link, wire, msg, inv, box, cuts >>
    BY DEF ReceiveThrows
  <1>2. InRow'
    BY <1>1 DEF InRow, Reading
  <1>3. at' \in Ends
    BY <1>1 DEF Ends
  <1> QED BY <1>1, <1>2, <1>3, TypeReceiver DEF TypeInv

\* A number read with >> fits.
LEMMA FilledInt ==
  ASSUME NEW s \in Seq(Byte), NEW b \in Filled(s, IntSize)
  PROVE  IntAt(b, 0) \in Nat /\ IntAt(b, 0) < Power[IntSize]
  <1>1. b \in Seq(Byte) /\ 0 \in Nat /\ IntSize \in Nat
    BY ByteIs, FilledType
  <1> QED BY <1>1, IntAtType

\* The announcement is read.
LEMMA TypeAccept ==
  ASSUME TypeInv, HandleAccept
  PROVE  TypeInv'
  <1>1. /\ at = "accept" /\ inv = NoInv /\ msg' = NoMsg
        /\ UNCHANGED << letter, sent, link, wire, box, cuts >>
    BY DEF HandleAccept, TypeInv, InRow
  <1>2. msg.payload \in Seq(Byte)
    BY DEF TypeInv, MsgType
  <1>3. /\ at' \in {"ignored", "threw", "row"} /\ inv' \in InvType
        /\ inv'.left = 0 /\ inv'.type = 0
    <2>1. CASE at' \in {"ignored", "threw"} /\ inv' = inv
      BY <1>1, <2>1, NoMsgType
    <2>2. CASE \E bytes \in Filled(msg.payload, IntSize) :
                 at' = "row" /\ inv' = [NoInv EXCEPT !.rows = IntAt(bytes, 0),
                                                     !.rest = From(msg.payload, IntSize)]
      <3>1. PICK bytes \in Filled(msg.payload, IntSize) :
              at' = "row" /\ inv' = [NoInv EXCEPT !.rows = IntAt(bytes, 0),
                                                  !.rest = From(msg.payload, IntSize)]
        BY <2>2
      <3> DEFINE rows == IntAt(bytes, 0)
                 rest == From(msg.payload, IntSize)
      <3>2. rows \in Nat
        BY <1>2, FilledInt
      <3>3. rest \in Seq(Byte)
        BY <1>2, ByteIs, FromType
      <3>4. at' = "row" /\ inv' = [NoInv EXCEPT !.rows = rows, !.rest = rest]
        BY <3>1
      <3> HIDE DEF rows, rest
      <3>5. inv' \in InvType /\ inv'.left = NoInv.left /\ inv'.type = NoInv.type
        BY <3>2, <3>3, <3>4, NoMsgType DEF InvType
      <3> QED BY <3>4, <3>5, NoMsgType
    <2> QED BY <2>1, <2>2 DEF HandleAccept
  <1>4. InRow'
    BY <1>3 DEF InRow, Reading
  <1>5. at' \in Reading \union {"accept", "row", "item"} \union Ends
    BY <1>3 DEF Ends
  <1>6. inv'.left > 0 <=> inv'.type # 0
    BY <1>3
  <1> QED BY <1>1, <1>3, <1>4, <1>5, <1>6, NoMsgType, TypeReceiver DEF TypeInv

\* A row is begun.
LEMMA TypeNextRow ==
  ASSUME TypeInv, NextRow
  PROVE  TypeInv'
  <1>1. /\ at = "row" /\ inv.rows > 0 /\ inv \in InvType /\ inv.left = 0 /\ inv.type = 0
        /\ UNCHANGED << letter, sent, link, wire, msg, box, cuts >>
    BY DEF NextRow, TypeInv, InRow, InvType
  <1> DEFINE hash == From(inv.rest, IntSize)
             bytes == Unspaced(hash)
             rest == From(hash, HashEnd(hash))
             rows == [inv EXCEPT !.rows = @ - 1, !.rest = rest]
  <1>2. inv.rest \in Seq(Byte) /\ inv.rows - 1 \in Nat /\ IntSize \in Nat
    BY <1>1, ByteIs DEF InvType
  <1>3. hash \in Seq(Byte)
    BY <1>2, FromType
  <1>4. PICK type \in {IntAt(b, 0) : b \in Filled(inv.rest, IntSize)},
             amount \in {IntAt(b, 0) : b \in Filled(bytes, IntSize)} :
          IF type \in {MsgTx, MsgBlock} /\ amount > 0
            THEN /\ inv' = [rows EXCEPT !.type = type, !.left = amount]
                 /\ at' = "command"
            ELSE inv' = rows /\ at' = "row"
    BY DEF NextRow
  <1> HIDE DEF hash
  <1>5. bytes \in Seq(Byte) /\ rest \in Seq(Byte)
    BY <1>3, UnspacedType, HashEndType, FromType
  <1> HIDE DEF bytes, rest
  <1>6. amount \in Nat
    <2>1. PICK b \in Filled(bytes, IntSize) : amount = IntAt(b, 0)
      BY <1>4
    <2> QED BY <1>5, <2>1, FilledInt
  <1>7. rows \in InvType /\ rows.left = 0 /\ rows.type = 0
    BY <1>1, <1>2, <1>5 DEF InvType
  <1> HIDE DEF rows
  <1>8. /\ at' \in {"command", "row"} /\ inv' \in InvType /\ (inv'.left > 0 <=> inv'.type # 0)
        /\ (at' = "command" => inv'.left > 0) /\ (at' = "row" => inv'.left = 0)
    <2>1. CASE type \in {MsgTx, MsgBlock} /\ amount > 0
      <3>1. inv' = [rows EXCEPT !.type = type, !.left = amount] /\ at' = "command"
        BY <1>4, <2>1
      <3>2. inv' \in InvType /\ inv'.type = type /\ inv'.left = amount
        BY <1>6, <1>7, <2>1, <3>1 DEF InvType
      <3> QED BY <2>1, <3>1, <3>2 DEF MsgTx, MsgBlock
    <2>2. CASE ~(type \in {MsgTx, MsgBlock} /\ amount > 0)
      <3>1. inv' = rows /\ at' = "row"
        BY <1>4, <2>2
      <3> QED BY <1>7, <3>1
    <2> QED BY <2>1, <2>2
  <1>9. InRow'
    BY <1>8 DEF InRow, Reading
  <1>10. at' \in Reading \union {"accept", "row", "item"} \union Ends
    BY <1>8 DEF Reading
  <1> QED BY <1>1, <1>8, <1>9, <1>10, TypeReceiver DEF TypeInv

\* The handler returns.
LEMMA TypeDone ==
  ASSUME TypeInv, InvDone
  PROVE  TypeInv'
  <1>1. at' = "done" /\ UNCHANGED << letter, sent, link, wire, msg, inv, box, cuts >>
    BY DEF InvDone
  <1>2. InRow'
    BY <1>1 DEF InRow, Reading
  <1>3. at' \in Ends
    BY <1>1 DEF Ends
  <1> QED BY <1>1, <1>2, <1>3, TypeReceiver DEF TypeInv

\* The row after one of its items.
LEMMA OneLessType ==
  ASSUME NEW i \in InvType, i.left > 0, i.left > 0 <=> i.type # 0
  PROVE  /\ OneLess(i) \in InvType /\ OneLess(i).left = i.left - 1 /\ OneLess(i).rows = i.rows
         /\ OneLess(i).type = (IF i.left = 1 THEN 0 ELSE i.type)
         /\ (OneLess(i).left > 0 <=> OneLess(i).type # 0)
  <1>1. i.left \in Nat \ {0} /\ i.type \in {0, MsgTx, MsgBlock}
    BY DEF InvType
  <1>2. /\ OneLess(i) \in InvType /\ OneLess(i).left = i.left - 1 /\ OneLess(i).rows = i.rows
        /\ OneLess(i).type = (IF i.left = 1 THEN 0 ELSE i.type)
    <2> DEFINE n == i.left - 1
               t == IF i.left = 1 THEN 0 ELSE i.type
    <2>1. n \in Nat /\ t \in {0, MsgTx, MsgBlock}
      BY <1>1
    <2>2. OneLess(i) = [i EXCEPT !.left = n, !.type = t]
      BY Zenon DEF OneLess
    <2> HIDE DEF n, t
    <2>3. /\ OneLess(i) \in InvType /\ OneLess(i).left = n /\ OneLess(i).rows = i.rows
          /\ OneLess(i).type = t
      BY <2>1, <2>2 DEF InvType
    <2> QED BY <2>3 DEF n, t
  <1> QED BY <1>1, <1>2

\* An item is read.
LEMMA TypeItem ==
  ASSUME TypeInv, HandleItem
  PROVE  TypeInv'
  <1>1. /\ at = "item" /\ inv.left > 0 /\ inv \in InvType /\ (inv.left > 0 <=> inv.type # 0)
        /\ IsSeq(box) /\ msg' = NoMsg
        /\ UNCHANGED << letter, sent, link, wire, cuts >>
    BY DEF HandleItem, TypeInv, InRow
  <1>2. /\ IsSeq(box') /\ inv' \in InvType /\ (inv'.left > 0 <=> inv'.type # 0)
        /\ at' \in {"aborted", "threw", "undefined", "row", "command", "hung"}
        /\ (at' = "row" => inv'.left = 0) /\ (at' = "command" => inv'.left > 0)
    <2>1. CASE at' \in {"aborted", "threw", "undefined"} /\ UNCHANGED << inv, box >>
      BY <1>1, <2>1
    <2>2. CASE /\ \E x : box' = Append(box, x)
               /\ inv' = OneLess(inv)
               /\ at' \in {IF inv.left = 1 THEN "row" ELSE "command", "hung"}
      <3>1. IsSeq(box')
        BY <1>1, <2>2, AppendIsSeq
      <3>2. inv' \in InvType /\ inv'.left = inv.left - 1 /\ (inv'.left > 0 <=> inv'.type # 0)
        BY <1>1, <2>2, OneLessType
      <3>3. inv.left \in Nat
        BY <1>1 DEF InvType
      <3> QED BY <1>1, <2>2, <3>1, <3>2, <3>3
    <2>3. \/ at' \in {"aborted", "threw", "undefined"} /\ UNCHANGED << inv, box >>
          \/ /\ \E x : box' = Append(box, x)
             /\ inv' = OneLess(inv)
             /\ at' \in {IF inv.left = 1 THEN "row" ELSE "command", "hung"}
      <3>1. CASE msg.command # ItemName(inv.type)
        BY <3>1 DEF HandleItem
      <3>2. CASE msg.command = ItemName(inv.type)
        <4>1. PICK bytes \in Filled(msg.payload, IntSize) :
                LET size == IntAt(bytes, 0)
                    data == DataOf(msg.payload, size)
                IN \/ size > Memory /\ at' = "threw" /\ UNCHANGED << inv, box >>
                   \/ size <= Memory /\ Overrun(inv.type, data)
                        /\ at' = "undefined" /\ UNCHANGED << inv, box >>
                   \/ /\ size <= Memory /\ ~Overrun(inv.type, data)
                      /\ box' = Append(box, Scanned(inv.type, data))
                      /\ inv' = OneLess(inv)
                      /\ \/ at' = IF inv.left = 1 THEN "row" ELSE "command"
                         \/ inv.type = MsgBlock /\ at' = "hung"
          BY <3>2 DEF HandleItem
        <4> QED BY <4>1
      <3> QED BY <3>1, <3>2
    <2> QED BY <2>1, <2>2, <2>3
  <1>3. InRow'
    BY <1>2 DEF InRow, Reading
  <1>4. at' \in Reading \union {"accept", "row", "item"} \union Ends
    BY <1>2 DEF Reading, Ends
  <1> QED BY <1>1, <1>2, <1>3, <1>4, NoMsgType, TypeReceiver DEF TypeInv

\* Every step keeps the invariant.
LEMMA TypeInductive == TypeInv /\ [Next]_vars => TypeInv'
  <1> SUFFICES ASSUME TypeInv, [Next]_vars PROVE TypeInv'
    OBVIOUS
  <1>1. CASE Send \/ Close \/ Break
    BY <1>1, TypeSender
  <1>2. CASE ReceiveCommand \/ ReceiveSize \/ ReceivePayload \/ ReceiveThrows
    BY <1>2, TypeCommand, TypeSize, TypePayload, TypeThrows
  <1>3. CASE HandleAccept \/ NextRow \/ InvDone \/ HandleItem
    BY <1>3, TypeAccept, TypeNextRow, TypeDone, TypeItem
  <1>4. CASE UNCHANGED vars
    <2>1. Sends' = Sends
      BY <1>4, SameLetter DEF vars
    <2> QED BY <1>4, <2>1 DEF vars, TypeInv, InRow
  <1> QED BY <1>1, <1>2, <1>3, <1>4 DEF Next, Receiver

\* The invariant holds always.
LEMMA TypeInvariant == Spec => []TypeInv
  BY TypeInit, TypeInductive, PTL DEF Spec

\* The variables keep their types, and a row has items left just when it has a
\* type: m_handle_inv resets the type with the last item (server.cpp:193-224).
THEOREM TypeCorrect == Spec => []TypeOK
  BY TypeInvIsTypeOK, TypeInvariant, PTL

-----------------------------------------------------------------------------
(***************************************************************************)
(* The stream of all sends, and the bytes of it that are under way.        *)
(***************************************************************************)
\* The rest of what stands somewhere stands behind its beginning.
LEMMA HasFrom ==
  ASSUME NEW data \in Seq(Byte), NEW p \in Nat, NEW w \in Seq(Byte), HasAt(data, p, w),
         NEW n \in Nat, n <= Len(w)
  PROVE  HasAt(data, p + n, From(w, n)) /\ Len(From(w, n)) = Len(w) - n
  <1>a. Len(w) \in Nat /\ Len(data) \in Nat
    OBVIOUS
  <1>1. /\ Len(From(w, n)) = Len(w) - n
        /\ \A i \in 1 .. Len(w) - n : From(w, n)[i] = w[n + i]
    BY FromType
  <1>2. p + Len(w) <= Len(data) /\ \A i \in 1 .. Len(w) : data[p + i] = w[i]
    BY DEF HasAt
  <1>3. ASSUME NEW i \in 1 .. Len(From(w, n)) PROVE data[(p + n) + i] = From(w, n)[i]
    <2>1. n + i \in 1 .. Len(w) /\ p + (n + i) = (p + n) + i /\ i \in 1 .. Len(w) - n
      BY <1>a, <1>1
    <2>2. data[p + (n + i)] = w[n + i]
      BY <1>2, <2>1
    <2> QED BY <1>1, <2>1, <2>2
  <1>4. (p + n) + Len(From(w, n)) <= Len(data)
    BY <1>a, <1>1, <1>2
  <1> QED BY <1>1, <1>3, <1>4 DEF HasAt

\* Of two sequences at one place the shorter begins the longer.
LEMMA SameThere ==
  ASSUME NEW data \in Seq(Byte), NEW p \in Nat, NEW w \in Seq(Byte), NEW c \in Seq(Byte),
         HasAt(data, p, w), HasAt(data, p, c), Len(c) <= Len(w)
  PROVE  \A i \in 1 .. Len(c) : w[i] = c[i]
  <1> SUFFICES ASSUME NEW i \in 1 .. Len(c) PROVE w[i] = c[i]
    OBVIOUS
  <1>1. i \in 1 .. Len(w)
    OBVIOUS
  <1> QED BY <1>1 DEF HasAt

Stream(l) == CHOOSE g : Parts(g, Byte, SendsOfLetter[l])
Upto(k) == Len(Stream(letter)[k])
Whole == Stream(letter)[Len(Sends)]

\* q bytes have been received; the rest is under way, to come, or lost.
FlowAt(q) ==
  IF link = "lost" THEN wire = << >>
  ELSE HasAt(Whole, q, wire) /\ q + Len(wire) = Upto(sent)

\* k of the sends have been received.
Flow(k) == FlowAt(Upto(k))

\* The stream of all sends, send by send.
LEMMA StreamIs ==
  ASSUME letter \in Letters
  PROVE  /\ Sends \in Seq(Seq(Byte)) /\ Len(Sends) \in Nat
         /\ Whole \in Seq(Byte) /\ Len(Whole) = Upto(Len(Sends)) /\ Upto(0) = 0
         /\ \A k \in Nat : Upto(k) \in Nat
         /\ \A k \in 0 .. Len(Sends) - 1 :
              /\ Sends[k + 1] \in Seq(Byte) /\ Len(Sends[k + 1]) \in Nat
              /\ HasAt(Whole, Upto(k), Sends[k + 1])
              /\ Upto(k + 1) = Upto(k) + Len(Sends[k + 1])
  <1> DEFINE g == Stream(letter)
  <1>1. Sends \in Seq(Seq(Byte)) /\ Len(Sends) \in Nat
    BY SendsAre DEF Sends
  <1>2. Parts(g, Byte, Sends)
    <2>1. \E f : Parts(f, Byte, SendsOfLetter[letter])
      BY <1>1, FlatIs DEF Sends
    <2> QED BY <2>1 DEF Stream, Sends
  <1>3. g[0] = << >> /\ \A k \in Nat : g[k] \in Seq(Byte)
    BY <1>2 DEF Parts
  <1>4. Whole \in Seq(Byte) /\ Whole = g[Len(Sends)]
    BY <1>1, <1>3 DEF Whole
  <1> HIDE DEF g
  <1>5. HasParts(Whole, 0, Sends, g)
    <2>1. HasAt(Whole, 0, g[Len(Sends)])
      BY <1>4, HasAll
    <2>2. 0 \in Nat
      OBVIOUS
    <2> QED BY <1>1, <1>2, <1>4, <2>1, <2>2, PartsAt
  <1>6. \A k \in Nat : Upto(k) = Len(g[k]) /\ Upto(k) \in Nat
    BY <1>3 DEF Upto, g
  <1>7. ASSUME NEW k \in 0 .. Len(Sends) - 1
        PROVE  /\ Sends[k + 1] \in Seq(Byte) /\ Len(Sends[k + 1]) \in Nat
               /\ HasAt(Whole, Upto(k), Sends[k + 1])
               /\ Upto(k + 1) = Upto(k) + Len(Sends[k + 1])
    <2>1. k + 1 \in 1 .. Len(Sends) /\ (k + 1) - 1 = k /\ k \in Nat /\ k + 1 \in Nat
      BY <1>1
    <2>2. Sends[k + 1] \in Seq(Byte)
      BY <1>1, <2>1
    <2>3. Len(Sends[k + 1]) \in Nat
      BY <2>2
    <2>4. HasAt(Whole, 0 + Len(g[k]), Sends[k + 1]) /\ Len(g[k + 1]) = Len(g[k]) + Len(Sends[k + 1])
      BY <1>5, <2>1 DEF HasParts
    <2>5. Upto(k) = Len(g[k]) /\ Upto(k) \in Nat
      BY <1>6, <2>1
    <2>6. Upto(k + 1) = Len(g[k + 1])
      BY <1>6, <2>1
    <2>7. 0 + Len(g[k]) = Upto(k)
      BY <2>5
    <2> QED BY <2>2, <2>3, <2>4, <2>5, <2>6, <2>7
  <1>8. Len(Whole) = Upto(Len(Sends))
    BY <1>1, <1>4, <1>6
  <1>9. Upto(0) = 0
    BY <1>3, <1>6
  <1> QED BY <1>1, <1>4, <1>6, <1>7, <1>8, <1>9

\* A send puts the next bytes behind the others.
LEMMA SenderFlow ==
  ASSUME TypeInv, Send \/ Close \/ Break, NEW q \in Nat, FlowAt(q)
  PROVE  FlowAt(q)'
  <1>1. letter' = letter /\ Whole' = Whole
    BY DEF Send, Close, Break, Whole, Sends
  <1>2. Whole \in Seq(Byte) /\ wire \in Seq(Byte) /\ Len(wire) \in Nat
    BY StreamIs DEF TypeInv
  <1>3. CASE Send
    <2>1. /\ link # "lost" /\ link' = link /\ sent' = sent + 1 /\ wire' = wire \o Sends[sent + 1]
          /\ sent \in 0 .. Len(Sends) - 1 /\ sent \in Nat
      <3>1. Len(Sends) \in Nat
        BY StreamIs DEF TypeInv
      <3> QED BY <1>3, <3>1 DEF Send, TypeInv
    <2>2. HasAt(Whole, q, wire) /\ q + Len(wire) = Upto(sent)
      BY <2>1 DEF FlowAt
    <2> DEFINE c == Sends[sent + 1]
    <2>3. /\ c \in Seq(Byte) /\ Len(c) \in Nat /\ HasAt(Whole, Upto(sent), c)
          /\ Upto(sent + 1) = Upto(sent) + Len(c)
      BY <2>1, StreamIs DEF TypeInv
    <2> HIDE DEF c
    <2>4. HasAt(Whole, q, wire \o c) /\ Len(wire \o c) = Len(wire) + Len(c)
      BY <1>2, <2>2, <2>3, HasBoth
    <2>5. q + Len(wire \o c) = Upto(sent + 1)
      BY <1>2, <2>2, <2>3, <2>4
    <2>6. wire' = wire \o c /\ Upto(sent)' = Upto(sent + 1)
      BY <1>1, <2>1 DEF c, Upto
    <2> QED BY <1>1, <2>1, <2>4, <2>5, <2>6 DEF FlowAt
  <1>4. CASE Close
    <2>1. link # "lost" /\ link' # "lost" /\ wire' = wire /\ Upto(sent)' = Upto(sent)
      BY <1>1, <1>4 DEF Close, Upto
    <2> QED BY <1>1, <2>1 DEF FlowAt
  <1>5. CASE Break
    BY <1>5 DEF Break, FlowAt
  <1> QED BY <1>3, <1>4, <1>5

\* So for the sends that have been received.
LEMMA FlowSender ==
  ASSUME TypeInv, Send \/ Close \/ Break, NEW k \in 0 .. Len(Sends), Flow(k)
  PROVE  Flow(k)'
  <1>1. Upto(k)' = Upto(k)
    BY DEF Send, Close, Break, Upto
  <1>2. Upto(k) \in Nat
    <2>1. Len(Sends) \in Nat /\ letter \in Letters
      BY StreamIs DEF TypeInv
    <2> QED BY <2>1, StreamIs
  <1>3. PICK q \in Nat : q = Upto(k)
    BY <1>2
  <1>4. FlowAt(q)
    BY <1>3 DEF Flow
  <1>5. FlowAt(q)'
    BY <1>4, SenderFlow
  <1> QED BY <1>1, <1>3, <1>5 DEF Flow

\* A receive takes the next bytes, at least one, of a stream that is not lost.
LEMMA FlowTake ==
  ASSUME TypeInv, NEW q \in Nat, FlowAt(q), NEW n \in Nat \ {0}, NEW j, Receive(n, j),
         UNCHANGED << letter, sent, link >>
  PROVE  /\ j \in 1 .. n /\ j <= Len(wire) /\ q + j <= Len(Whole)
         /\ \A i \in 1 .. j : wire[i] = Whole[q + i]
         /\ FlowAt(q + j)'
  <1>1. j \in 0 .. n /\ j <= Len(wire) /\ (j = 0 => n = 0) /\ wire' = From(wire, j)
    BY DEF Receive, From
  <1>2. /\ wire \in Seq(Byte) /\ Len(wire) \in Nat /\ j \in 1 .. n /\ j \in Nat
        /\ Whole \in Seq(Byte) /\ Len(Whole) \in Nat
    <2>1. Whole \in Seq(Byte)
      BY StreamIs DEF TypeInv
    <2> QED BY <1>1, <2>1 DEF TypeInv
  <1>3. link # "lost"
    <2>1. CASE link = "lost"
      <3>1. Len(wire) = 0
        BY <2>1 DEF FlowAt
      <3> QED BY <1>1, <1>2, <3>1
    <2> QED BY <2>1
  <1>4. HasAt(Whole, q, wire) /\ q + Len(wire) = Upto(sent)
    BY <1>3 DEF FlowAt
  <1>5. q + j <= Len(Whole) /\ \A i \in 1 .. j : wire[i] = Whole[q + i]
    <2>1. q + Len(wire) <= Len(Whole) /\ \A i \in 1 .. Len(wire) : Whole[q + i] = wire[i]
      BY <1>4 DEF HasAt
    <2>2. \A i \in 1 .. j : i \in 1 .. Len(wire)
      BY <1>1, <1>2
    <2>3. q + j <= Len(Whole)
      BY <1>1, <1>2, <2>1
    <2> QED BY <2>1, <2>2, <2>3
  <1>6. HasAt(Whole, q + j, From(wire, j)) /\ Len(From(wire, j)) = Len(wire) - j
    <2>1. HasAt(Whole, q + j, From(wire, j))
      BY <1>1, <1>2, <1>4, HasFrom
    <2>2. Len(From(wire, j)) = Len(wire) - j
      BY <1>1, <1>2, FromType
    <2> QED BY <2>1, <2>2
  <1>7. (q + j) + Len(From(wire, j)) = Upto(sent)
    BY <1>2, <1>4, <1>6
  <1>8. Upto(sent)' = Upto(sent) /\ Whole' = Whole /\ wire' = From(wire, j) /\ link' # "lost"
    BY <1>1, <1>3 DEF Upto, Whole, Sends
  <1>9. FlowAt(q + j)'
    BY <1>6, <1>7, <1>8 DEF FlowAt
  <1> QED BY <1>1, <1>2, <1>5, <1>9

\* A receive that is not recorded as short is not.
LEMMA NotShort ==
  ASSUME TypeInv, NEW n, NEW j, Receive(n, j), at \in Reading, n \in Nat, cuts' = cuts
  PROVE  j = n
  <1>1. j \in 0 .. n /\ cuts' = IF j < n THEN Append(cuts, at) ELSE cuts
    BY DEF Receive
  <1>2. Append(cuts, at) # cuts
    <2>1. cuts \in Seq(Reading) /\ Len(cuts) \in Nat
      BY DEF TypeInv
    <2>2. Len(Append(cuts, at)) = Len(cuts) + 1
      BY <2>1, AppendProperties
    <2> QED BY <2>1, <2>2
  <1> QED BY <1>1, <1>2

\* A receive that does not come short takes the next send.
LEMMA FlowReceive ==
  ASSUME TypeInv, NEW k \in 0 .. Len(Sends) - 1, Flow(k), NEW n \in Nat \ {0},
         n = Len(Sends[k + 1]), NEW j, Receive(n, j), cuts' = cuts,
         at \in Reading, UNCHANGED << letter, sent, link >>
  PROVE  /\ j = n /\ n <= Len(wire) /\ \A i \in 1 .. n : wire[i] = Sends[k + 1][i]
         /\ Flow(k + 1)'
  <1>1. j = n
    BY NotShort
  <1>2. k \in Nat /\ k + 1 \in Nat
    <2>1. Len(Sends) \in Nat
      BY StreamIs DEF TypeInv
    <2> QED BY <2>1
  <1>3. /\ Upto(k) \in Nat /\ Sends[k + 1] \in Seq(Byte) /\ HasAt(Whole, Upto(k), Sends[k + 1])
        /\ Upto(k + 1) = Upto(k) + n
    BY <1>2, StreamIs DEF TypeInv
  <1>4. PICK q \in Nat : q = Upto(k)
    BY <1>3
  <1>5. FlowAt(q)
    BY <1>4 DEF Flow
  <1>6. n <= Len(wire) /\ (\A i \in 1 .. n : wire[i] = Whole[q + i]) /\ FlowAt(q + n)'
    <2>1. /\ j <= Len(wire) /\ (\A i \in 1 .. j : wire[i] = Whole[q + i]) /\ FlowAt(q + j)'
      BY <1>5, FlowTake
    <2> QED BY <1>1, <2>1
  <1>7. \A i \in 1 .. n : wire[i] = Sends[k + 1][i]
    BY <1>3, <1>4, <1>6 DEF HasAt
  <1>8. Upto(k + 1)' = q + n
    <2>1. Upto(k + 1)' = Upto(k + 1)
      BY DEF Upto
    <2> QED BY <1>3, <1>4, <2>1
  <1>9. Flow(k + 1)'
    BY <1>6, <1>8 DEF Flow
  <1> QED BY <1>1, <1>6, <1>7, <1>9

\* While there is a send to come, the stream ends only where it was lost.
LEMMA FlowEnds ==
  ASSUME TypeInv, NEW k \in 0 .. Len(Sends) - 1, Flow(k), Len(Sends[k + 1]) # 0,
         wire = << >>, link # "open"
  PROVE  link = "lost"
  <1> SUFFICES ASSUME link # "lost" PROVE FALSE
    OBVIOUS
  <1>1. link = "closed" /\ sent = Len(Sends)
    BY DEF TypeInv
  <1>2. Upto(k) + Len(wire) = Upto(sent) /\ Len(wire) = 0
    BY DEF Flow, FlowAt
  <1>3. Len(Sends) \in Nat /\ k \in Nat
    <2>1. Len(Sends) \in Nat
      BY StreamIs DEF TypeInv
    <2> QED BY <2>1
  <1>4. /\ Len(Whole) = Upto(sent) /\ Upto(k) \in Nat /\ Len(Sends[k + 1]) \in Nat
        /\ HasAt(Whole, Upto(k), Sends[k + 1])
    BY <1>1, <1>3, StreamIs DEF TypeInv
  <1>5. Upto(k) + Len(Sends[k + 1]) <= Len(Whole)
    BY <1>4 DEF HasAt
  <1> QED BY <1>2, <1>4, <1>5

-----------------------------------------------------------------------------
(***************************************************************************)
(* What is read back of an announcement and of an item.                    *)
(***************************************************************************)
\* Where nothing is to be dropped all is kept.
LEMMA NothingDropped ==
  ASSUME NEW S, NEW s \in Seq(S), NEW drop, \A i \in 1 .. Len(s) : ~drop[i]
  PROVE  Without(s, drop) = s
  <1>1. PICK f : Growing(f, s, drop) /\ Without(s, drop) = f[Len(s)]
    BY WithoutIs
  <1>2. Len(s) \in Nat
    OBVIOUS
  <1>3. /\ f[0] = << >>
        /\ \A k \in 1 .. Len(s) : f[k] = IF drop[k] THEN f[k - 1] ELSE Append(f[k - 1], s[k])
    <2>1. \A k \in 0 .. Len(s) :
            f[k] = IF k = 0 THEN << >>
                   ELSE IF drop[k] THEN f[k - 1] ELSE Append(f[k - 1], s[k])
      BY <1>1 DEF Growing
    <2>2. 0 \in 0 .. Len(s) /\ \A k \in 1 .. Len(s) : k \in 0 .. Len(s) /\ k # 0
      BY <1>2
    <2>3. f[0] = << >>
      BY <2>1, <2>2
    <2>4. \A k \in 1 .. Len(s) : f[k] = IF drop[k] THEN f[k - 1] ELSE Append(f[k - 1], s[k])
      BY <2>1, <2>2
    <2> QED BY <2>3, <2>4
  <1> DEFINE Same(k) == f[k] \in Seq(S) /\ Len(f[k]) = k /\ \A i \in 1 .. k : f[k][i] = s[i]
             T == {k \in Nat : k <= Len(s) => Same(k)}
  <1>4. 0 \in T
    <2>1. << >> \in Seq(S) /\ Len(<< >>) = 0 /\ 1 .. 0 = {}
      OBVIOUS
    <2>2. Same(0)
      BY <1>3, <2>1
    <2> QED BY <2>2
  <1>5. ASSUME NEW k \in Nat, k \in T PROVE k + 1 \in T
    <2> SUFFICES ASSUME k + 1 <= Len(s) PROVE Same(k + 1)
      OBVIOUS
    <2>1. k + 1 \in 1 .. Len(s) /\ (k + 1) - 1 = k /\ k <= Len(s)
      BY <1>2
    <2>2. Same(k)
      BY <1>5, <2>1
    <2>a. ~drop[k + 1] /\ s[k + 1] \in S
      BY <2>1
    <2>b. f[k + 1] = IF drop[k + 1] THEN f[(k + 1) - 1] ELSE Append(f[(k + 1) - 1], s[k + 1])
      BY <1>3, <2>1
    <2>3. f[k + 1] = Append(f[k], s[k + 1]) /\ s[k + 1] \in S
      BY <2>1, <2>a, <2>b
    <2> DEFINE u == f[k]
               v == f[k + 1]
    <2>4. u \in Seq(S) /\ Len(u) = k /\ \A i \in 1 .. k : u[i] = s[i]
      BY <2>2
    <2>5. v = Append(u, s[k + 1])
      BY <2>3
    <2> HIDE DEF u, v
    <2>6. /\ v \in Seq(S) /\ Len(v) = k + 1 /\ v[k + 1] = s[k + 1]
          /\ \A i \in 1 .. k : v[i] = u[i]
      BY <2>3, <2>4, <2>5, AppendProperties
    <2>7. \A i \in 1 .. k + 1 : v[i] = s[i]
      <3> SUFFICES ASSUME NEW i \in 1 .. k + 1 PROVE v[i] = s[i]
        OBVIOUS
      <3>1. CASE i = k + 1
        BY <2>6, <3>1
      <3>2. CASE i # k + 1
        <4>1. i \in 1 .. k
          BY <3>2
        <4> QED BY <2>4, <2>6, <4>1
      <3> QED BY <3>1, <3>2
    <2> QED BY <2>6, <2>7 DEF v
  <1>6. \A k \in Nat : k \in T
    <2> HIDE DEF T
    <2> QED BY <1>4, <1>5, InductionOnNat
  <1>7. Same(Len(s))
    BY <1>2, <1>6
  <1> DEFINE w == f[Len(s)]
  <1>8. w \in Seq(S) /\ Len(w) = Len(s) /\ \A i \in 1 .. Len(s) : w[i] = s[i]
    BY <1>7
  <1> HIDE DEF w
  <1>9. w = s
    BY <1>8, SeqEqual
  <1> QED BY <1>1, <1>9 DEF w

\* What stands behind something stands in the rest.
LEMMA HasBehind ==
  ASSUME NEW s \in Seq(Byte), NEW n \in Nat, n <= Len(s), NEW q \in Nat, NEW c \in Seq(Byte),
         HasAt(s, n + q, c)
  PROVE  HasAt(From(s, n), q, c)
  <1>a. Len(s) \in Nat /\ Len(c) \in Nat
    OBVIOUS
  <1>1. Len(From(s, n)) = Len(s) - n
    BY FromType
  <1>2. \A i \in 1 .. Len(s) - n : From(s, n)[i] = s[n + i]
    BY FromType
  <1>3. (n + q) + Len(c) <= Len(s) /\ \A i \in 1 .. Len(c) : s[(n + q) + i] = c[i]
    BY DEF HasAt
  <1>4. ASSUME NEW i \in 1 .. Len(c) PROVE From(s, n)[q + i] = c[i]
    <2>1. q + i \in 1 .. Len(s) - n /\ n + (q + i) = (n + q) + i
      BY <1>a, <1>3
    <2>2. From(s, n)[q + i] = s[n + (q + i)]
      BY <1>2, <2>1
    <2>3. s[(n + q) + i] = c[i]
      BY <1>3
    <2> QED BY <2>1, <2>2, <2>3
  <1>5. q + Len(c) <= Len(From(s, n))
    BY <1>a, <1>1, <1>3
  <1> QED BY <1>4, <1>5 DEF HasAt

\* What stands at the beginning of as many bytes is all of them.
LEMMA AllOfIt ==
  ASSUME NEW s \in Seq(Byte), NEW c \in Seq(Byte), HasAt(s, 0, c), Len(s) = Len(c)
  PROVE  s = c
  <1>1. ASSUME NEW i \in 1 .. Len(s) PROVE s[i] = c[i]
    <2>1. 0 + i = i /\ i \in 1 .. Len(c)
      OBVIOUS
    <2> QED BY <2>1 DEF HasAt
  <1> QED BY <1>1, SeqEqual

\* A read of what is there gives it.
LEMMA FilledRead ==
  ASSUME NEW s \in Seq(Byte), NEW v \in Nat, v < Power[IntSize], HasAt(s, 0, IntBytes(v)),
         NEW b \in Filled(s, IntSize)
  PROVE  IntAt(b, 0) = v
  <1> DEFINE c == IntBytes(v)
  <1>1. c \in Seq(Byte) /\ Len(c) = IntSize /\ IntSize \in Nat
    BY IntBytesType, ByteIs
  <1>2. 0 + Len(c) <= Len(s) /\ \A i \in 1 .. Len(c) : s[0 + i] = c[i]
    BY DEF HasAt
  <1> HIDE DEF c
  <1>3. IntSize <= Len(s) /\ \A i \in 1 .. IntSize : s[i] = c[i]
    BY <1>1, <1>2
  <1>4. b \in Seq(Byte) /\ Len(b) = IntSize /\ b = SubSeq(s, 1, IntSize)
    BY <1>1, <1>3, FilledType
  <1>5. \A i \in 1 .. IntSize : b[i] = s[i]
    BY <1>1, <1>3, <1>4
  <1>6. HasAt(b, 0, c)
    <2>1. ASSUME NEW i \in 1 .. Len(c) PROVE b[0 + i] = c[i]
      <3>1. i \in 1 .. IntSize /\ 0 + i = i
        BY <1>1
      <3> QED BY <1>3, <1>5, <3>1
    <2>2. 0 + Len(c) <= Len(b)
      BY <1>1, <1>4
    <2> QED BY <2>1, <2>2 DEF HasAt
  <1>7. IntAt(b, 0) = Low(v)
    <2>1. 0 \in Nat
      OBVIOUS
    <2> QED BY <1>4, <1>6, <2>1, IntRead DEF c
  <1> QED BY <1>7, LowIs

\* A framed letter: what fits, and what the reader expects.
LEMMA FramedIs ==
  ASSUME NEW l \in FramedLetters
  PROVE  /\ l \in Letters
         /\ \A m \in 0 .. Len(l.items) :
              Len(PayloadOf(l, m)) <= Memory /\ Len(PayloadOf(l, m)) < Power[IntSize]
         /\ Len(l.items) < Power[IntSize]
         /\ \A i \in 1 .. IntSize : IntBytes(Len(l.items))[i] \notin Spaces
         /\ \A i \in 1 .. Len(l.items) :
              IF l.type = MsgTx THEN TxFramed(l.items[i]) ELSE BlockFramed(l.items[i])
  <1>1. /\ l \in Letters
        /\ \A i \in DOMAIN l.items : IF l.type = MsgTx THEN TxFramed(l.items[i]) ELSE BlockFramed(l.items[i])
        /\ \A i \in DOMAIN SendsOfLetter[l] :
             Len(SendsOfLetter[l][i]) <= Memory /\ Len(SendsOfLetter[l][i]) < Power[IntSize]
        /\ Len(l.items) < Power[IntSize]
        /\ \A i \in DOMAIN IntBytes(Len(l.items)) : IntBytes(Len(l.items))[i] \notin Spaces
    BY DEF FramedLetters
  <1>2. Len(l.items) \in Nat /\ DOMAIN l.items = 1 .. Len(l.items)
    BY <1>1, LetterIs
  <1>3. DOMAIN IntBytes(Len(l.items)) = 1 .. IntSize
    BY DEF IntBytes
  <1>4. ASSUME NEW m \in 0 .. Len(l.items)
        PROVE  Len(PayloadOf(l, m)) <= Memory /\ Len(PayloadOf(l, m)) < Power[IntSize]
    <2> DEFINE s == SendsOfLetter[l]
    <2>1. /\ s \in Seq(Seq(Byte)) /\ Len(s) = 3 * (Len(l.items) + 1)
          /\ s[3 * m + 3] = PayloadOf(l, m)
      BY <1>1, SendsAre
    <2>2. 3 * m + 3 \in 1 .. 3 * (Len(l.items) + 1)
      BY <1>2
    <2>3. 3 * m + 3 \in DOMAIN s
      <3> HIDE DEF s
      <3>1. DOMAIN s = 1 .. Len(s)
        BY <2>1
      <3> QED BY <2>1, <2>2, <3>1
    <2> QED BY <1>1, <2>1, <2>3
  <1> QED BY <1>1, <1>2, <1>3, <1>4

\* The text of a command is its name up to a zero.
LEMMA TextIs ==
  ASSUME NEW c \in DOMAIN Name
  PROVE  /\ \E z \in 1 .. CommandSize : Text(c) = SubSeq(Name[c], 1, z)
         /\ Text(c) \in Seq(Byte) /\ Len(Text(c)) \in 1 .. CommandSize
  <1> DEFINE s == Name[c]
             Z(i) == s[i] = 0 /\ \A j \in 1 .. i - 1 : s[j] # 0
             zero == CHOOSE i \in DOMAIN s : Z(i)
             I == {i \in 1 .. CommandSize : s[i] = 0}
  <1>1. s \in Seq(Byte) /\ Len(s) = CommandSize /\ CommandSize \in Nat /\ DOMAIN s = 1 .. CommandSize
    BY SizesAre
  <1>2. I # {} /\ I \subseteq Nat
    <2>1. \E i \in DOMAIN s : s[i] = 0
      BY SizesAre
    <2> QED BY <1>1, <2>1
  <1>3. Min(I) \in I /\ \A y \in I : Min(I) <= y
    BY <1>2, LeastIndex
  <1>4. \E i \in DOMAIN s : Z(i)
    <2> DEFINE i == Min(I)
    <2>1. i \in 1 .. CommandSize /\ s[i] = 0
      BY <1>3
    <2>2. ASSUME NEW j \in 1 .. i - 1 PROVE s[j] # 0
      <3>1. j \in 1 .. CommandSize /\ ~(i <= j)
        BY <1>1, <2>1
      <3> QED BY <1>3, <3>1
    <2> QED BY <1>1, <2>1, <2>2
  <1>5. zero \in DOMAIN s
    <2> HIDE DEF Z, s
    <2> QED BY <1>4
  <1>6. Text(c) = SubSeq(s, 1, zero)
    BY DEF Text
  <1> HIDE DEF s, zero, Z, I
  <1>7. zero \in 1 .. CommandSize
    BY <1>1, <1>5
  <1> DEFINE t == SubSeq(s, 1, zero)
  <1>8. t \in Seq(Byte) /\ Len(t) = zero
    <2>1. \A i \in 1 .. zero : s[i] \in Byte
      BY <1>1, <1>7
    <2>2. t \in Seq(Byte)
      BY <1>7, <2>1, SubSeqProperties
    <2>3. Len(t) = IF 1 <= zero THEN zero - 1 + 1 ELSE 0
      BY <1>7, <2>1, SubSeqProperties
    <2> QED BY <1>7, <2>2, <2>3
  <1> HIDE DEF t
  <1>9. Text(c) = t /\ t = SubSeq(Name[c], 1, zero)
    BY <1>6 DEF t, s
  <1> QED BY <1>7, <1>8, <1>9

\* A command is told by its text.
LEMMA NameRead ==
  ASSUME NEW c \in DOMAIN Name
  PROVE  TextOf(Name[c]) = c
  <1> DEFINE s == Name[c]
             t == Text(c)
  <1>1. s \in Seq(Byte) /\ Len(s) = CommandSize /\ CommandSize \in Nat
    BY SizesAre
  <1>2. PICK zero \in 1 .. CommandSize : t = SubSeq(s, 1, zero)
    BY TextIs
  <1>3. t \in Seq(Byte) /\ Len(t) \in 1 .. CommandSize
    BY TextIs
  <1>4. Len(t) = zero
    <2>1. \A i \in 1 .. zero : s[i] \in Byte
      BY <1>1
    <2>2. Len(SubSeq(s, 1, zero)) = IF 1 <= zero THEN zero - 1 + 1 ELSE 0
      BY <2>1, SubSeqProperties
    <2> QED BY <1>2, <2>2
  <1> HIDE DEF s, t
  <1>5. IsPrefix(t, s)
    <2>1. SubSeq(t, 1, Len(t)) = t
      BY <1>3, SubSeqFull
    <2>2. SubSeq(s, 1, Len(t)) = t
      BY <1>2, <1>4
    <2>3. Len(t) <= Len(s)
      BY <1>1, <1>3
    <2> QED BY <2>1, <2>2, <2>3 DEF IsPrefix
  <1> DEFINE P(d) == IsPrefix(Text(d), s)
             same == {d \in DOMAIN Name : P(d)}
  <1>8. P(c) /\ \A d \in DOMAIN Name : d # c => ~P(d)
    <2>1. \A d \in DOMAIN Name : d # c => ~IsPrefix(Text(d), Name[c])
      BY WireSizes
    <2> QED BY <1>5, <2>1 DEF s, t
  <1>9. TextOf(s) = IF same = {} THEN "other" ELSE CHOOSE d \in same : TRUE
    BY DEF TextOf
  <1>10. same = {c}
    <2> HIDE DEF P
    <2> QED BY <1>8
  <1> QED BY <1>9, <1>10 DEF s

\* Bytes that >> does not skip are all read.
LEMMA UnspacedSame ==
  ASSUME NEW s \in Seq(Byte), \A i \in 1 .. Len(s) : s[i] \notin Spaces
  PROVE  Unspaced(s) = s
  <1> DEFINE drop == [i \in DOMAIN s |-> s[i] \in Spaces]
  <1>1. DOMAIN s = 1 .. Len(s)
    OBVIOUS
  <1>2. \A i \in 1 .. Len(s) : ~drop[i]
    BY <1>1
  <1>3. Unspaced(s) = Without(s, drop)
    BY DEF Unspaced
  <1> HIDE DEF drop
  <1> QED BY <1>2, <1>3, NothingDropped

\* What the receiver makes of the announcement of a framed letter.
LEMMA AnnouncementRead ==
  ASSUME NEW l \in FramedLetters
  PROVE  LET payload == PayloadOf(l, 0)
             rest == From(payload, IntSize)
             hash == From(rest, IntSize)
         IN /\ payload \in Seq(Byte) /\ IntSize + HashSize <= Memory
            /\ \A b \in Filled(payload, IntSize) : IntAt(b, 0) = 1
            /\ \A b \in Filled(rest, IntSize) : IntAt(b, 0) = l.type
            /\ \A b \in Filled(Unspaced(hash), IntSize) : IntAt(b, 0) = Len(l.items)
  <1> DEFINE n == Len(l.items)
             payload == PayloadOf(l, 0)
             rest == From(payload, IntSize)
             hash == From(rest, IntSize)
             h == HashFrom32(n)
  <1>0. /\ IntSize \in Nat \ {0} /\ HashSize \in Nat /\ IntSize <= HashSize
        /\ l \in Letters /\ n \in Nat /\ n < Power[IntSize] /\ l.type \in {1, 2}
        /\ Power[IntSize] \in Nat /\ Memory \in Nat
    BY ByteIs, FramedIs, LetterIs, PowerIs, SizesAre DEF MsgTx, MsgBlock
  <1>1. payload = InvBytes(l.type, n)
    BY DEF PayloadOf
  <1>2. /\ payload \in Seq(Byte) /\ Len(payload) = 2 * IntSize + HashSize
        /\ h \in Seq(Byte) /\ Len(h) = HashSize
        /\ HasAt(payload, 0, IntBytes(1)) /\ HasAt(payload, IntSize, IntBytes(l.type))
        /\ HasAt(payload, 2 * IntSize, h)
        /\ \A i \in 1 .. HashSize : h[i] = IF i <= IntSize THEN IntBytes(n)[i] ELSE 0
    <2> HIDE DEF n, payload
    <2>1. l.type \in Nat /\ n \in Nat
      BY <1>0
    <2>2. /\ InvBytes(l.type, n) \in Seq(Byte)
          /\ Len(InvBytes(l.type, n)) = 2 * IntSize + HashSize
          /\ HasAt(InvBytes(l.type, n), 0, IntBytes(1))
          /\ HasAt(InvBytes(l.type, n), IntSize, IntBytes(l.type))
      BY <2>1, InvBytesType
    <2>3. h \in Seq(Byte) /\ Len(h) = HashSize /\ HasAt(InvBytes(l.type, n), 2 * IntSize, h)
      BY <2>1, InvBytesType
    <2>4. \A i \in 1 .. HashSize : h[i] = IF i <= IntSize THEN IntBytes(n)[i] ELSE 0
      BY <2>1, InvBytesType
    <2> QED BY <1>1, <2>2, <2>3, <2>4
  <1>3. Len(payload) <= Memory /\ Len(payload) < Power[IntSize]
    <2>1. 0 \in 0 .. n
      BY <1>0
    <2>2. Len(PayloadOf(l, 0)) <= Memory /\ Len(PayloadOf(l, 0)) < Power[IntSize]
      BY <2>1, FramedIs
    <2> QED BY <2>2
  <1> HIDE DEF payload, h, n
  <1>4. /\ 1 \in Nat /\ 1 < Power[IntSize] /\ l.type \in Nat /\ l.type < Power[IntSize]
        /\ IntSize + HashSize <= Memory
    <2> DEFINE top == Power[IntSize]
               t == l.type
    <2>1. /\ 2 * IntSize + HashSize < top /\ 2 * IntSize + HashSize <= Memory
          /\ top \in Nat /\ t \in {1, 2}
      BY <1>0, <1>2, <1>3
    <2> HIDE DEF top, t
    <2>2. /\ 1 \in Nat /\ 1 < top /\ t \in Nat /\ t < top
          /\ IntSize + HashSize <= Memory
      BY <1>0, <2>1
    <2> QED BY <2>2 DEF top, t
  <1>5. \A b \in Filled(payload, IntSize) : IntAt(b, 0) = 1
    BY <1>2, <1>4, FilledRead
  <1>6. rest \in Seq(Byte) /\ Len(rest) = IntSize + HashSize
    <2>1. IntSize <= Len(payload)
      BY <1>0, <1>2
    <2>2. rest \in Seq(Byte) /\ Len(rest) = Len(payload) - IntSize
      BY <1>0, <1>2, <2>1, FromType
    <2> QED BY <1>0, <1>2, <2>2
  <1>7. HasAt(rest, 0, IntBytes(l.type)) /\ HasAt(rest, IntSize, h)
    <2>1. /\ IntSize <= Len(payload) /\ IntSize + 0 = IntSize /\ IntSize + IntSize = 2 * IntSize
          /\ 0 \in Nat /\ IntSize \in Nat
      BY <1>0, <1>2
    <2>2. IntBytes(l.type) \in Seq(Byte)
      BY <1>4, IntBytesType
    <2>3. HasAt(payload, IntSize + 0, IntBytes(l.type)) /\ HasAt(payload, IntSize + IntSize, h)
      BY <1>2, <2>1
    <2>4. HasAt(rest, 0, IntBytes(l.type))
      BY <1>2, <2>1, <2>2, <2>3, HasBehind
    <2>5. HasAt(rest, IntSize, h)
      BY <1>2, <2>1, <2>3, HasBehind
    <2> QED BY <2>4, <2>5
  <1> HIDE DEF rest
  <1>8. \A b \in Filled(rest, IntSize) : IntAt(b, 0) = l.type
    BY <1>4, <1>6, <1>7, FilledRead
  <1>9. hash = h
    <2>1. IntSize <= Len(rest) /\ IntSize + 0 = IntSize /\ 0 \in Nat /\ IntSize \in Nat
      BY <1>0, <1>6
    <2>2. hash \in Seq(Byte)
      BY <1>6, <2>1, FromType
    <2>a. Len(hash) = Len(rest) - IntSize
      BY <1>6, <2>1, FromType
    <2>3. HasAt(rest, IntSize + 0, h)
      BY <1>7, <2>1
    <2>4. HasAt(hash, 0, h)
      BY <1>2, <1>6, <2>1, <2>3, HasBehind
    <2> HIDE DEF hash
    <2>5. Len(hash) = Len(h)
      BY <1>0, <1>2, <1>6, <2>a
    <2> QED BY <1>2, <2>2, <2>4, <2>5, AllOfIt
  <1>10. Unspaced(h) = h
    <2>1. ASSUME NEW i \in 1 .. Len(h) PROVE h[i] \notin Spaces
      <3>1. i \in 1 .. HashSize
        BY <1>2
      <3>2. CASE i <= IntSize
        <4>1. i \in 1 .. IntSize
          BY <1>0, <3>1, <3>2
        <4>2. h[i] = IntBytes(n)[i]
          BY <1>2, <3>1, <3>2
        <4> QED BY <4>1, <4>2, FramedIs DEF n
      <3>3. CASE ~(i <= IntSize)
        <4>1. h[i] = 0
          BY <1>2, <3>1, <3>3
        <4> QED BY <4>1, CodecSizes
      <3> QED BY <3>2, <3>3
    <2> QED BY <1>2, <2>1, UnspacedSame
  <1>11. HasAt(h, 0, IntBytes(n))
    <2> DEFINE c == IntBytes(n)
    <2>1. c \in Seq(Byte) /\ Len(c) = IntSize
      BY <1>0, IntBytesType
    <2>2. \A i \in 1 .. HashSize : h[i] = IF i <= IntSize THEN c[i] ELSE 0
      BY <1>2
    <2> HIDE DEF c
    <2>3. ASSUME NEW i \in 1 .. Len(c) PROVE h[0 + i] = c[i]
      <3>1. 0 + i = i /\ i \in 1 .. HashSize /\ i <= IntSize
        BY <1>0, <2>1
      <3> QED BY <2>2, <3>1
    <2>4. 0 + Len(c) <= Len(h)
      BY <1>0, <1>2, <2>1
    <2> QED BY <2>3, <2>4 DEF HasAt, c
  <1>12. \A b \in Filled(Unspaced(hash), IntSize) : IntAt(b, 0) = n
    <2>1. \A b \in Filled(h, IntSize) : IntAt(b, 0) = n
      BY <1>0, <1>2, <1>11, FilledRead
    <2> QED BY <1>9, <1>10, <2>1
  <1> QED BY <1>2, <1>4, <1>5, <1>8, <1>12 DEF payload, rest, n

\* What is kept of item i of a letter.
KeptOf(l, i) == IF l.type = MsgTx THEN TxKept(l.items[i]) ELSE BlockKept(l.items[i])

\* What is kept of each item.
LEMMA KeptIs ==
  ASSUME letter \in Letters
  PROVE  \A i \in 1 .. Len(letter.items) : Kept[i] = KeptOf(letter, i)
  <1>1. DOMAIN letter.items = 1 .. Len(letter.items)
    BY LetterIs
  <1> QED BY <1>1 DEF Kept, KeptOf

\* What the receiver makes of an item of a framed letter.
LEMMA ItemRead ==
  ASSUME NEW l \in FramedLetters, NEW i \in 1 .. Len(l.items),
         NEW b \in Filled(PayloadOf(l, i), IntSize)
  PROVE  LET size == IntAt(b, 0)
             data == DataOf(PayloadOf(l, i), size)
         IN size <= Memory /\ ~Overrun(l.type, data) /\ Scanned(l.type, data) = KeptOf(l, i)
  <1> DEFINE item == l.items[i]
             data == ItemBytes(l, item)
             w == PayloadOf(l, i)
  <1>0. /\ l \in Letters /\ IntSize \in Nat /\ Memory \in Nat /\ Power[IntSize] \in Nat
        /\ i \in 0 .. Len(l.items) /\ i # 0
    <2>1. l \in Letters /\ IntSize \in Nat /\ Memory \in Nat /\ Power[IntSize] \in Nat
      BY FramedIs, ByteIs, SizesAre, PowerIs
    <2>2. Len(l.items) \in Nat
      BY <2>1, LetterIs
    <2> QED BY <2>1, <2>2
  <1>1. data \in Seq(Byte) /\ Len(data) \in Nat
    BY <1>0, ItemBytesType
  <1>2. w = Wrapped(data)
    BY <1>0 DEF PayloadOf
  <1>a. Len(w) <= Memory /\ Len(w) < Power[IntSize]
    BY <1>0, FramedIs
  <1>b. IF l.type = MsgTx THEN TxFramed(item) ELSE BlockFramed(item)
    BY FramedIs
  <1>c. ItemBytes(l, item) = IF l.type = MsgTx THEN TxBytes(item) ELSE BlockBytes(item)
    BY DEF ItemBytes
  <1>d. (l.type = MsgTx => item \in TxType) /\ (l.type # MsgTx => item \in BlockType)
    BY <1>0, LetterIs
  <1>e. KeptOf(l, i) = IF l.type = MsgTx THEN TxKept(item) ELSE BlockKept(item)
    BY DEF KeptOf
  <1> HIDE DEF data, w, item
  <1>3. /\ w \in Seq(Byte) /\ Len(w) = IntSize + Len(data)
        /\ HasAt(w, 0, IntBytes(Len(data))) /\ HasAt(w, IntSize, data)
    BY <1>1, <1>2, WrappedType
  <1>4. Len(data) <= Memory /\ Len(data) < Power[IntSize]
    <2> DEFINE top == Power[IntSize]
               n == Len(data)
               k == Len(w)
    <2>1. k <= Memory /\ k < top /\ k = IntSize + n /\ n \in Nat /\ top \in Nat
      BY <1>0, <1>1, <1>3, <1>a
    <2> HIDE DEF top, n, k
    <2>2. n <= Memory /\ n < top
      BY <1>0, <2>1
    <2> QED BY <2>2 DEF top, n
  <1>5. IntAt(b, 0) = Len(data)
    <2>1. b \in Filled(w, IntSize)
      BY DEF w
    <2> QED BY <1>1, <1>3, <1>4, <2>1, FilledRead
  <1>6. DataOf(w, IntAt(b, 0)) = data
    <2>1. Cut(w, IntSize, Len(data)) = data
      BY <1>0, <1>1, <1>3, CutRead
    <2> QED BY <1>5, <2>1 DEF DataOf
  <1>7. ~Overrun(l.type, data) /\ Scanned(l.type, data) = KeptOf(l, i)
    <2>1. CASE l.type = MsgTx
      <3>1. data = TxBytes(item) /\ item \in TxType /\ TxFramed(item)
        BY <1>b, <1>c, <1>d, <2>1 DEF data
      <3>2. TxAt(data, 0) = TxKept(item) /\ TxEnd(data, 0) = Len(data)
        BY <1>4, <3>1, TransactionsReadBack
      <3>3. ~(TxEnd(data, 0) > Len(data))
        BY <1>1, <3>2
      <3> QED BY <1>e, <2>1, <3>2, <3>3 DEF Overrun, Scanned
    <2>2. CASE l.type # MsgTx
      <3>1. data = BlockBytes(item) /\ item \in BlockType /\ BlockFramed(item)
        BY <1>b, <1>c, <1>d, <2>2 DEF data
      <3>2. BlockAt(data) = BlockKept(item) /\ BlockEnd(data) = Len(data)
        BY <1>4, <3>1, BlocksReadBack
      <3>3. ~(BlockEnd(data) > Len(data))
        BY <1>1, <3>2
      <3> QED BY <1>e, <2>2, <3>2, <3>3 DEF Overrun, Scanned
    <2> QED BY <2>1, <2>2
  <1> QED BY <1>4, <1>5, <1>6, <1>7 DEF w

-----------------------------------------------------------------------------
(***************************************************************************)
(* The inductive invariant: where in the stream the receiver is.           *)
(***************************************************************************)
\* How many sends of a message are received where the handler is.
Off == IF at = "command" THEN 0 ELSE IF at = "size" THEN 1 ELSE IF at = "payload" THEN 2 ELSE 3

\* Message m is being received, or is and waits for its handler.
AtMessage(m) ==
  /\ at # "command" => msg.command = NameOf(letter, m)
  /\ at \in {"payload", "accept", "item"} => msg.size = Len(PayloadOf(letter, m))
  /\ at \in {"accept", "item"} => msg.payload = PayloadOf(letter, m)
  /\ Flow(3 * m + Off)

Announcing == inv = NoInv /\ box = << >> /\ at \in Reading \union {"accept"} /\ AtMessage(0)
RowAhead ==
  /\ at = "row" /\ inv.rows = 1 /\ inv.rest = From(PayloadOf(letter, 0), IntSize)
  /\ box = << >> /\ Flow(3)
Receiving ==
  /\ at \in Reading \union {"item"} /\ inv.rows = 0 /\ inv.type = letter.type
  /\ inv.left = Len(letter.items) - Len(box) /\ inv.left > 0 /\ AtMessage(Len(box) + 1)
RowBehind == at \in {"row", "done"} /\ inv.rows = 0 /\ Len(box) = Len(letter.items)
Lost == at = "threw" /\ link = "lost"
Hung == at = "hung"

Boxed == Len(box) <= Len(letter.items) /\ \A i \in 1 .. Len(box) : box[i] = KeptOf(letter, i)
OnCourse == Boxed /\ (Announcing \/ RowAhead \/ Receiving \/ RowBehind \/ Lost \/ Hung)

DeliveryInv == cuts = << >> /\ Framed => OnCourse

\* The sends of a message.
LEMMA MessageSends ==
  ASSUME letter \in Letters, NEW m \in 0 .. Len(letter.items)
  PROVE  /\ 3 * m \in 0 .. Len(Sends) - 1 /\ 3 * m + 1 \in 0 .. Len(Sends) - 1
         /\ 3 * m + 2 \in 0 .. Len(Sends) - 1 /\ 3 * m + 3 \in 0 .. Len(Sends)
         /\ Sends[3 * m + 1] = Name[NameOf(letter, m)]
         /\ Sends[(3 * m + 1) + 1] = IntBytes(Len(PayloadOf(letter, m)))
         /\ Sends[(3 * m + 2) + 1] = PayloadOf(letter, m)
         /\ Len(Sends[3 * m + 1]) = CommandSize /\ CommandSize \in Nat \ {0}
         /\ Len(Sends[(3 * m + 1) + 1]) = IntSize /\ IntSize \in Nat \ {0}
         /\ PayloadOf(letter, m) \in Seq(Byte) /\ Len(PayloadOf(letter, m)) \in Nat \ {0}
         /\ NameOf(letter, m) \in DOMAIN Name
  <1> DEFINE n == Len(letter.items)
  <1>1. n \in Nat
    BY LetterIs
  <1>2. /\ Len(Sends) = 3 * (n + 1)
        /\ Sends[3 * m + 1] = Name[NameOf(letter, m)]
        /\ Sends[3 * m + 2] = IntBytes(Len(PayloadOf(letter, m)))
        /\ Sends[3 * m + 3] = PayloadOf(letter, m)
    BY SendsAre DEF Sends
  <1>3. /\ PayloadOf(letter, m) \in Seq(Byte) /\ Len(PayloadOf(letter, m)) \in Nat \ {0}
        /\ NameOf(letter, m) \in DOMAIN Name
    BY PayloadType
  <1>4. /\ Len(Name[NameOf(letter, m)]) = CommandSize /\ CommandSize \in Nat \ {0}
        /\ Len(IntBytes(Len(PayloadOf(letter, m)))) = IntSize /\ IntSize \in Nat \ {0}
    BY <1>3, SizesAre, IntBytesType, ByteIs
  <1>5. (3 * m + 1) + 1 = 3 * m + 2 /\ (3 * m + 2) + 1 = 3 * m + 3
    OBVIOUS
  <1>6. /\ 3 * m \in 0 .. Len(Sends) - 1 /\ 3 * m + 1 \in 0 .. Len(Sends) - 1
        /\ 3 * m + 2 \in 0 .. Len(Sends) - 1 /\ 3 * m + 3 \in 0 .. Len(Sends)
    <2> DEFINE k == Len(Sends)
    <2>1. k = 3 * (n + 1) /\ m \in 0 .. n
      BY <1>2
    <2> HIDE DEF k, n
    <2>2. /\ 3 * m \in 0 .. k - 1 /\ 3 * m + 1 \in 0 .. k - 1
          /\ 3 * m + 2 \in 0 .. k - 1 /\ 3 * m + 3 \in 0 .. k
      BY <1>1, <2>1
    <2> QED BY <2>2 DEF k
  <1> QED BY <1>2, <1>3, <1>4, <1>5, <1>6

\* Bytes received whole are the ones sent.
LEMMA ReceivedSame ==
  ASSUME NEW c \in Seq(Byte), NEW n \in Nat, n = Len(c), NEW rest,
         \A i \in 1 .. n : wire[i] = c[i]
  PROVE  Received(n, n, rest) = c
  <1>1. Received(n, n, rest) = [i \in 1 .. n |-> c[i]]
    BY DEF Received
  <1>2. c = [i \in 1 .. n |-> c[i]]
    OBVIOUS
  <1> QED BY <1>1, <1>2

\* A whole command received is the name of the message.
LEMMA CommandTaken ==
  ASSUME TypeInv, NEW m \in 0 .. Len(letter.items), AtMessage(m), ReceiveCommand,
         cuts' = cuts
  PROVE  AtMessage(m)' /\ at' = "size" /\ UNCHANGED << letter, sent, link, inv, box >>
  <1> DEFINE k == 3 * m
             c == NameOf(letter, m)
  <1>1. /\ at = "command" /\ at' = "size" /\ UNCHANGED << letter, sent, link, inv, box >>
        /\ at \in Reading
    BY DEF ReceiveCommand, Reading
  <1>2. /\ k \in 0 .. Len(Sends) - 1 /\ Sends[k + 1] = Name[c] /\ c \in DOMAIN Name
        /\ CommandSize = Len(Sends[k + 1]) /\ CommandSize \in Nat \ {0}
    BY MessageSends DEF TypeInv
  <1>3. Flow(k)
    <2>1. k + Off = k
      BY <1>1 DEF Off
    <2> QED BY <2>1 DEF AtMessage
  <1>4. PICK j \in 0 .. CommandSize :
          /\ Receive(CommandSize, j)
          /\ \E rest \in [j + 1 .. CommandSize -> Byte] :
               msg' = [NoMsg EXCEPT !.command = TextOf(Received(CommandSize, j, rest))]
    BY DEF ReceiveCommand
  <1> HIDE DEF k, c
  <1>5. /\ j = CommandSize /\ \A i \in 1 .. CommandSize : wire[i] = Sends[k + 1][i]
        /\ Flow(k + 1)'
    BY <1>1, <1>2, <1>3, <1>4, FlowReceive
  <1>6. PICK rest : msg' = [NoMsg EXCEPT !.command = TextOf(Received(CommandSize, CommandSize, rest))]
    BY <1>4, <1>5
  <1>7. Received(CommandSize, CommandSize, rest) = Name[c]
    <2>1. Name[c] \in Seq(Byte) /\ CommandSize = Len(Name[c]) /\ CommandSize \in Nat
      BY <1>2, SizesAre
    <2>2. \A i \in 1 .. CommandSize : wire[i] = Name[c][i]
      BY <1>2, <1>5
    <2> QED BY <2>1, <2>2, ReceivedSame
  <1>8. msg'.command = c
    <2>1. TextOf(Name[c]) = c
      BY <1>2, NameRead
    <2> QED BY <1>6, <1>7, <2>1 DEF NoMsg
  <1>9. c = NameOf(letter, m)' /\ Off' = 1
    BY <1>1 DEF c, Off, NameOf
  <1>10. AtMessage(m)'
    <2>1. Flow(3 * m + Off)'
      BY <1>5, <1>9 DEF k
    <2> QED BY <1>1, <1>8, <1>9, <2>1 DEF AtMessage
  <1> QED BY <1>1, <1>10

\* A whole size received is the length of the payload.
LEMMA SizeTaken ==
  ASSUME TypeInv, NEW m \in 0 .. Len(letter.items), AtMessage(m), ReceiveSize,
         Len(PayloadOf(letter, m)) < Power[IntSize], cuts' = cuts
  PROVE  AtMessage(m)' /\ at' = "payload" /\ UNCHANGED << letter, sent, link, inv, box >>
  <1> DEFINE k == 3 * m + 1
             n == Len(PayloadOf(letter, m))
  <1>1. /\ at = "size" /\ at' = "payload" /\ UNCHANGED << letter, sent, link, inv, box >>
        /\ at \in Reading
    BY DEF ReceiveSize, Reading
  <1>2. /\ k \in 0 .. Len(Sends) - 1 /\ Sends[k + 1] = IntBytes(n) /\ n \in Nat
        /\ IntSize = Len(Sends[k + 1]) /\ IntSize \in Nat \ {0}
    BY MessageSends DEF TypeInv
  <1>3. Flow(k)
    <2>1. Off = 1
      BY <1>1 DEF Off
    <2> QED BY <2>1 DEF AtMessage
  <1>4. PICK j \in 0 .. IntSize :
          /\ Receive(IntSize, j)
          /\ \E rest \in [j + 1 .. IntSize -> Byte] :
               msg' = [msg EXCEPT !.size = IntAt(Received(IntSize, j, rest), 0)]
    BY DEF ReceiveSize
  <1>a. n < Power[IntSize]
    OBVIOUS
  <1>b. msg.command = NameOf(letter, m) /\ msg \in MsgType
    BY <1>1 DEF AtMessage, TypeInv
  <1>c. 3 * m + 2 = k + 1
    OBVIOUS
  <1> HIDE DEF k, n
  <1>5. /\ j = IntSize /\ \A i \in 1 .. IntSize : wire[i] = Sends[k + 1][i]
        /\ Flow(k + 1)'
    BY <1>1, <1>2, <1>3, <1>4, FlowReceive
  <1>6. PICK rest : msg' = [msg EXCEPT !.size = IntAt(Received(IntSize, IntSize, rest), 0)]
    BY <1>4, <1>5
  <1>7. Received(IntSize, IntSize, rest) = IntBytes(n)
    <2>1. IntBytes(n) \in Seq(Byte) /\ IntSize = Len(IntBytes(n)) /\ IntSize \in Nat
      BY <1>2, IntBytesType
    <2>2. \A i \in 1 .. IntSize : wire[i] = IntBytes(n)[i]
      BY <1>2, <1>5
    <2> QED BY <2>1, <2>2, ReceivedSame
  <1>8. IntAt(IntBytes(n), 0) = n
    <2>1. IntBytes(n) \in Seq(Byte) /\ 0 \in Nat
      BY <1>2, IntBytesType
    <2>2. HasAt(IntBytes(n), 0, IntBytes(n))
      BY <2>1, HasAll
    <2>3. IntAt(IntBytes(n), 0) = Low(n)
      BY <1>2, <2>1, <2>2, IntRead
    <2> QED BY <1>2, <1>a, <2>3, LowIs
  <1>9. msg'.size = n /\ msg'.command = NameOf(letter, m)
    <2>1. msg' = [msg EXCEPT !.size = n]
      BY <1>6, <1>7, <1>8
    <2> QED BY <1>b, <2>1 DEF MsgType
  <1>10. /\ NameOf(letter, m)' = NameOf(letter, m) /\ n = Len(PayloadOf(letter, m))'
         /\ Off' = 2
    BY <1>1 DEF n, Off, NameOf, PayloadOf
  <1>11. AtMessage(m)'
    <2>1. Flow(3 * m + Off)'
      BY <1>5, <1>10, <1>c
    <2> QED BY <1>1, <1>9, <1>10, <2>1 DEF AtMessage
  <1> QED BY <1>1, <1>11

\* A whole payload received is the payload.
LEMMA PayloadTaken ==
  ASSUME TypeInv, NEW m \in 0 .. Len(letter.items), AtMessage(m), ReceivePayload,
         cuts' = cuts
  PROVE  /\ AtMessage(m)' /\ at' = (IF inv = NoInv THEN "accept" ELSE "item")
         /\ UNCHANGED << letter, sent, link, inv, box >>
  <1> DEFINE k == 3 * m + 2
             c == PayloadOf(letter, m)
             n == Len(c)
  <1>1. /\ at = "payload" /\ at' = (IF inv = NoInv THEN "accept" ELSE "item")
        /\ UNCHANGED << letter, sent, link, inv, box >> /\ at \in Reading
    BY DEF ReceivePayload, Reading
  <1>2. /\ k \in 0 .. Len(Sends) - 1 /\ Sends[k + 1] = c /\ c \in Seq(Byte) /\ n \in Nat \ {0}
        /\ n = Len(Sends[k + 1])
    BY MessageSends DEF TypeInv
  <1>3. Flow(k)
    <2>1. Off = 2
      BY <1>1 DEF Off
    <2> QED BY <2>1 DEF AtMessage
  <1>b. msg.command = NameOf(letter, m) /\ msg.size = n /\ msg \in MsgType
    BY <1>1 DEF AtMessage, TypeInv
  <1>4. PICK j \in 0 .. n :
          /\ Receive(n, j)
          /\ msg' = [msg EXCEPT !.payload = Received(n, j, Zeros(n))]
    BY <1>b DEF ReceivePayload
  <1>c. 3 * m + 3 = k + 1
    OBVIOUS
  <1> HIDE DEF k, n, c
  <1>5. j = n /\ (\A i \in 1 .. n : wire[i] = Sends[k + 1][i]) /\ Flow(k + 1)'
    BY <1>1, <1>2, <1>3, <1>4, FlowReceive
  <1>6. msg' = [msg EXCEPT !.payload = c]
    <2>1. \A i \in 1 .. n : wire[i] = c[i]
      BY <1>2, <1>5
    <2>2. n \in Nat /\ n = Len(c)
      BY <1>2 DEF n
    <2>3. Received(n, n, Zeros(n)) = c
      BY <1>2, <2>1, <2>2, ReceivedSame
    <2> QED BY <1>4, <1>5, <2>3
  <1>9. msg'.payload = c /\ msg'.size = n /\ msg'.command = NameOf(letter, m)
    BY <1>6, <1>b DEF MsgType
  <1>10. /\ NameOf(letter, m)' = NameOf(letter, m) /\ n = Len(PayloadOf(letter, m))'
         /\ PayloadOf(letter, m)' = c
    BY <1>1 DEF c, n, NameOf, PayloadOf
  <1>11. AtMessage(m)'
    <2>1. Off' = 3
      BY <1>1 DEF Off
    <2>2. Flow(3 * m + Off)'
      BY <1>5, <1>c, <2>1
    <2> QED BY <1>1, <1>9, <1>10, <2>2 DEF AtMessage
  <1> QED BY <1>1, <1>11

\* A message is waited for in vain only where the connection is lost.
LEMMA ThrowsLost ==
  ASSUME TypeInv, Framed, NEW m \in 0 .. Len(letter.items), AtMessage(m), at \in Reading,
         ReceiveThrows
  PROVE  link = "lost"
  <1>0. /\ 3 * m \in 0 .. Len(Sends) - 1 /\ 3 * m + 1 \in 0 .. Len(Sends) - 1
        /\ 3 * m + 2 \in 0 .. Len(Sends) - 1
        /\ Len(Sends[3 * m + 1]) # 0 /\ Len(Sends[(3 * m + 1) + 1]) # 0
        /\ Len(Sends[(3 * m + 2) + 1]) # 0
    BY MessageSends DEF TypeInv
  <1>1. wire = << >> /\ link # "open"
    <2>1. CASE at = "payload" /\ msg.size > Memory
      <3>1. Len(PayloadOf(letter, m)) > Memory
        BY <2>1 DEF AtMessage
      <3>2. Len(PayloadOf(letter, m)) <= Memory
        BY FramedIs DEF Framed
      <3>3. Len(PayloadOf(letter, m)) \in Nat /\ Memory \in Nat
        BY MessageSends, SizesAre DEF TypeInv
      <3> QED BY <3>1, <3>2, <3>3
    <2> QED BY <2>1 DEF ReceiveThrows
  <1>2. CASE at = "command"
    <2>1. Off = 0 /\ 3 * m + 0 = 3 * m
      BY <1>2 DEF Off
    <2>2. Flow(3 * m)
      BY <2>1 DEF AtMessage
    <2> QED BY <1>0, <1>1, <2>2, FlowEnds
  <1>3. CASE at = "size"
    <2>1. Off = 1
      BY <1>3 DEF Off
    <2>2. Flow(3 * m + 1)
      BY <2>1 DEF AtMessage
    <2> QED BY <1>0, <1>1, <2>2, FlowEnds
  <1>4. CASE at = "payload"
    <2>1. Off = 2
      BY <1>4 DEF Off
    <2>2. Flow(3 * m + 2)
      BY <2>1 DEF AtMessage
    <2> QED BY <1>0, <1>1, <2>2, FlowEnds
  <1> QED BY <1>2, <1>3, <1>4 DEF Reading

\* The sender does not move the receiver.
LEMMA MessageSender ==
  ASSUME TypeInv, NEW m \in 0 .. Len(letter.items), AtMessage(m), Send \/ Close \/ Break
  PROVE  AtMessage(m)'
  <1>1. UNCHANGED << letter, at, msg >>
    BY DEF Send, Close, Break
  <1>2. 3 * m + Off \in 0 .. Len(Sends)
    <2>1. /\ 3 * m \in 0 .. Len(Sends) - 1 /\ 3 * m + 1 \in 0 .. Len(Sends) - 1
          /\ 3 * m + 2 \in 0 .. Len(Sends) - 1 /\ 3 * m + 3 \in 0 .. Len(Sends)
      BY MessageSends DEF TypeInv
    <2>2. Len(Sends) \in Nat
      BY StreamIs DEF TypeInv
    <2>3. Off \in {0, 1, 2, 3}
      BY DEF Off
    <2> QED BY <2>1, <2>2, <2>3
  <1>3. Flow(3 * m + Off)
    BY DEF AtMessage
  <1>4. PICK k \in 0 .. Len(Sends) : k = 3 * m + Off
    BY <1>2
  <1>5. Flow(k)'
    BY <1>3, <1>4, FlowSender
  <1>6. Off' = Off
    BY <1>1 DEF Off
  <1>7. Flow(3 * m + Off)'
    BY <1>4, <1>5, <1>6
  <1> QED BY <1>1, <1>7 DEF AtMessage, NameOf, PayloadOf

\* The lengths are numbers.
LEMMA BoxLength ==
  ASSUME TypeInv
  PROVE  Len(box) \in Nat /\ Len(letter.items) \in Nat \ {0} /\ letter \in Letters
  <1>1. IsSeq(box) /\ letter \in Letters
    BY DEF TypeInv
  <1>2. Len(box) \in Nat
    BY <1>1, AppendIsSeq
  <1> QED BY <1>1, <1>2, LetterIs

\* The next item is one of the letter.
LEMMA ReceivingItem ==
  ASSUME TypeInv, Receiving
  PROVE  Len(box) + 1 \in 1 .. Len(letter.items) /\ Len(box) + 1 \in 0 .. Len(letter.items)
  <1>1. Len(box) \in Nat /\ Len(letter.items) \in Nat
    BY BoxLength
  <1> QED BY <1>1 DEF Receiving

\* The box stays while nothing is put into it.
LEMMA SameBoxed ==
  ASSUME Boxed, UNCHANGED << letter, box >>
  PROVE  Boxed'
  BY DEF Boxed, KeptOf

\* The steps of the sender keep the course.
LEMMA CourseSender ==
  ASSUME TypeInv, OnCourse, Send \/ Close \/ Break
  PROVE  OnCourse'
  <1>1. UNCHANGED << letter, at, msg, inv, box >> /\ link = "open"
    BY DEF Send, Close, Break
  <1>2. Boxed'
    BY <1>1, SameBoxed DEF OnCourse
  <1>3. CASE Announcing
    <2>1. 0 \in 0 .. Len(letter.items)
      BY BoxLength
    <2>2. AtMessage(0)'
      BY <1>3, <2>1, MessageSender DEF Announcing
    <2> QED BY <1>1, <1>2, <1>3, <2>2 DEF OnCourse, Announcing
  <1>4. CASE RowAhead
    <2>1. 3 \in 0 .. Len(Sends)
      <3>1. 0 \in 0 .. Len(letter.items) /\ 3 * 0 + 3 = 3
        BY BoxLength
      <3>2. 3 * 0 + 3 \in 0 .. Len(Sends)
        BY <3>1, MessageSends, BoxLength
      <3> QED BY <3>1, <3>2
    <2>2. Flow(3)'
      BY <1>4, <2>1, FlowSender DEF RowAhead
    <2> QED BY <1>1, <1>2, <1>4, <2>2 DEF OnCourse, RowAhead, PayloadOf
  <1>5. CASE Receiving
    <2>1. PICK m \in 0 .. Len(letter.items) : m = Len(box) + 1
      BY <1>5, ReceivingItem
    <2>2. AtMessage(m)
      BY <1>5, <2>1 DEF Receiving
    <2>3. AtMessage(m)'
      BY <2>2, MessageSender
    <2>4. AtMessage(Len(box) + 1)'
      BY <1>1, <2>1, <2>3
    <2> QED BY <1>1, <1>2, <1>5, <2>4 DEF OnCourse, Receiving
  <1>6. CASE RowBehind
    BY <1>1, <1>2, <1>6 DEF OnCourse, RowBehind
  <1>7. CASE Lost
    BY <1>1, <1>7 DEF Lost
  <1>8. CASE Hung
    BY <1>1, <1>2, <1>8 DEF OnCourse, Hung
  <1> QED BY <1>3, <1>4, <1>5, <1>6, <1>7, <1>8 DEF OnCourse

\* What is received is the announcement or an item.
LEMMA ReadingPhase ==
  ASSUME OnCourse, at \in Reading
  PROVE  Announcing \/ Receiving
  BY DEF OnCourse, RowAhead, RowBehind, Lost, Hung, Reading

\* Message m is received one send further.
Taken(m) == AtMessage(m)' /\ UNCHANGED << letter, sent, link, inv, box >>

\* What keeps the message in place keeps the course.
LEMMA CourseTaken ==
  ASSUME TypeInv, OnCourse, at \in Reading,
         Announcing => Taken(0) /\ at' \in Reading \union {"accept"},
         Receiving => Taken(Len(box) + 1) /\ at' \in Reading \union {"item"}
  PROVE  OnCourse'
  <1>1. CASE Announcing
    <2>1. AtMessage(0)' /\ UNCHANGED << letter, sent, link, inv, box >> /\ at' \in Reading \union {"accept"}
      BY <1>1 DEF Taken
    <2>2. Boxed'
      BY <2>1, SameBoxed DEF OnCourse
    <2>3. Announcing'
      BY <1>1, <2>1 DEF Announcing
    <2> QED BY <2>2, <2>3 DEF OnCourse
  <1>2. CASE Receiving
    <2>1. /\ AtMessage(Len(box) + 1)' /\ UNCHANGED << letter, sent, link, inv, box >>
          /\ at' \in Reading \union {"item"}
      BY <1>2 DEF Taken
    <2>2. Boxed'
      BY <2>1, SameBoxed DEF OnCourse
    <2>3. Receiving'
      BY <1>2, <2>1 DEF Receiving
    <2> QED BY <2>2, <2>3 DEF OnCourse
  <1> QED BY <1>1, <1>2, ReadingPhase

\* Every receive stays on course.
LEMMA CourseReceive ==
  ASSUME TypeInv, OnCourse, Framed, cuts' = cuts,
         ReceiveCommand \/ ReceiveSize \/ ReceivePayload
  PROVE  OnCourse'
  <1>1. at \in Reading
    BY DEF ReceiveCommand, ReceiveSize, ReceivePayload, Reading
  <1>2. ASSUME NEW m \in 0 .. Len(letter.items), AtMessage(m)
        PROVE  /\ Taken(m)
               /\ \/ at' \in Reading
                  \/ at' = (IF inv = NoInv THEN "accept" ELSE "item")
    <2>1. CASE ReceiveCommand
      <3>1. AtMessage(m)' /\ at' = "size" /\ UNCHANGED << letter, sent, link, inv, box >>
        BY <1>2, <2>1, CommandTaken
      <3> QED BY <3>1 DEF Taken, Reading
    <2>2. CASE ReceiveSize
      <3>0. Len(PayloadOf(letter, m)) < Power[IntSize]
        BY FramedIs DEF Framed
      <3>1. AtMessage(m)' /\ at' = "payload" /\ UNCHANGED << letter, sent, link, inv, box >>
        BY <1>2, <2>2, <3>0, SizeTaken
      <3> QED BY <3>1 DEF Taken, Reading
    <2>3. CASE ReceivePayload
      <3>1. /\ AtMessage(m)' /\ at' = (IF inv = NoInv THEN "accept" ELSE "item")
            /\ UNCHANGED << letter, sent, link, inv, box >>
        BY <1>2, <2>3, PayloadTaken
      <3> QED BY <3>1 DEF Taken
    <2> QED BY <2>1, <2>2, <2>3
  <1>3. Announcing => Taken(0) /\ at' \in Reading \union {"accept"}
    <2>1. 0 \in 0 .. Len(letter.items)
      BY BoxLength
    <2> QED BY <1>2, <2>1 DEF Announcing
  <1>4. Receiving => Taken(Len(box) + 1) /\ at' \in Reading \union {"item"}
    <2> SUFFICES ASSUME Receiving
                 PROVE  Taken(Len(box) + 1) /\ at' \in Reading \union {"item"}
      OBVIOUS
    <2>1. PICK m \in 0 .. Len(letter.items) : m = Len(box) + 1
      BY ReceivingItem
    <2>2. AtMessage(m)
      BY <2>1 DEF Receiving
    <2>3. Taken(m)
      BY <1>2, <2>2
    <2>4. inv # NoInv
      BY NoMsgType DEF Receiving
    <2>5. at' \in Reading \union {"item"}
      BY <1>2, <2>2, <2>4
    <2>6. box' = box
      BY <2>3 DEF Taken
    <2>7. Taken(Len(box) + 1)
      BY <2>1, <2>3, <2>6 DEF Taken
    <2> QED BY <2>5, <2>7
  <1> QED BY <1>1, <1>3, <1>4, CourseTaken

\* A receive throws only where the connection is lost.
LEMMA CourseThrows ==
  ASSUME TypeInv, OnCourse, Framed, ReceiveThrows
  PROVE  OnCourse'
  <1>1. at \in Reading /\ at' = "threw" /\ UNCHANGED << letter, link, box >>
    BY DEF ReceiveThrows, Reading
  <1>2. link = "lost"
    <2>1. CASE Announcing
      <3>1. 0 \in 0 .. Len(letter.items)
        BY BoxLength
      <3> QED BY <1>1, <2>1, <3>1, ThrowsLost DEF Announcing
    <2>2. CASE Receiving
      <3>1. PICK m \in 0 .. Len(letter.items) : m = Len(box) + 1
        BY <2>2, ReceivingItem
      <3>2. AtMessage(m)
        BY <2>2, <3>1 DEF Receiving
      <3> QED BY <1>1, <3>2, ThrowsLost
    <2> QED BY <1>1, <2>1, <2>2, ReadingPhase
  <1>3. Boxed'
    BY <1>1, SameBoxed DEF OnCourse
  <1> QED BY <1>1, <1>2, <1>3 DEF OnCourse, Lost

\* Where in the stream the receiver is does not change with its locals.
LEMMA SameFlow ==
  ASSUME UNCHANGED << letter, sent, link, wire >>, NEW k
  PROVE  Flow(k)' = Flow(k)
  BY DEF Flow, FlowAt, Upto, Whole, Sends

\* The announcement has one row.
LEMMA OneRow ==
  ASSUME NEW n \in Nat
  PROVE  1 * n = n
  OBVIOUS

\* The announcement read is the one sent.
LEMMA CourseAccept ==
  ASSUME TypeInv, OnCourse, Framed, HandleAccept
  PROVE  OnCourse'
  <1>1. at = "accept" /\ UNCHANGED << letter, sent, link, wire, box, cuts >>
    BY DEF HandleAccept
  <1>2. Announcing /\ Boxed
    BY <1>1 DEF OnCourse, RowAhead, Receiving, RowBehind, Lost, Hung, Reading
  <1>3. msg.command = "inv" /\ msg.payload = PayloadOf(letter, 0) /\ inv = NoInv /\ box = << >>
    BY <1>1, <1>2 DEF Announcing, AtMessage, NameOf
  <1>4. Flow(3)
    <2>1. 3 * 0 + Off = 3
      BY <1>1 DEF Off
    <2>2. Flow(3 * 0 + Off)
      BY <1>2 DEF Announcing, AtMessage
    <2> QED BY <2>1, <2>2
  <1>5. /\ IntSize + HashSize <= Memory
        /\ \A b \in Filled(PayloadOf(letter, 0), IntSize) : IntAt(b, 0) = 1
    BY AnnouncementRead DEF Framed
  <1>6. PICK bytes \in Filled(msg.payload, IntSize) :
          LET rows == IntAt(bytes, 0)
          IN IF rows * (IntSize + HashSize) > Memory
               THEN at' = "threw" /\ inv' = inv
               ELSE /\ at' = "row"
                    /\ inv' = [NoInv EXCEPT !.rows = rows, !.rest = From(msg.payload, IntSize)]
    BY <1>3 DEF HandleAccept
  <1>7. IntAt(bytes, 0) = 1
    BY <1>3, <1>5, <1>6
  <1>8. ~(1 * (IntSize + HashSize) > Memory)
    <2>1. IntSize \in Nat /\ HashSize \in Nat /\ Memory \in Nat
      BY ByteIs, SizesAre
    <2>2. IntSize + HashSize \in Nat
      BY <2>1
    <2>3. 1 * (IntSize + HashSize) = IntSize + HashSize
      BY <2>2, OneRow
    <2> QED BY <1>5, <2>1, <2>2, <2>3
  <1>9. /\ at' = "row"
        /\ inv' = [NoInv EXCEPT !.rows = 1, !.rest = From(msg.payload, IntSize)]
    BY <1>6, <1>7, <1>8
  <1>10. inv'.rows = 1 /\ inv'.rest = From(PayloadOf(letter, 0), IntSize)
    BY <1>3, <1>9 DEF NoInv
  <1>11. Flow(3)'
    BY <1>1, <1>4, SameFlow
  <1>12. Boxed'
    BY <1>1, <1>2, SameBoxed
  <1>13. RowAhead'
    <2>1. PayloadOf(letter, 0)' = PayloadOf(letter, 0)
      BY <1>1 DEF PayloadOf
    <2> QED BY <1>1, <1>3, <1>9, <1>10, <1>11, <2>1 DEF RowAhead
  <1> QED BY <1>12, <1>13 DEF OnCourse

\* The row has as many items as the letter.
LEMMA CourseNextRow ==
  ASSUME TypeInv, OnCourse, Framed, NextRow
  PROVE  OnCourse'
  <1>1. /\ at = "row" /\ inv.rows > 0
        /\ UNCHANGED << letter, sent, link, wire, msg, box, cuts >>
    BY DEF NextRow
  <1>2. RowAhead /\ Boxed
    BY <1>1 DEF OnCourse, Announcing, Receiving, RowBehind, Lost, Hung, Reading
  <1>3. /\ inv.rows = 1 /\ inv.rest = From(PayloadOf(letter, 0), IntSize) /\ box = << >>
        /\ Flow(3) /\ inv \in InvType
    BY <1>2 DEF RowAhead, TypeInv
  <1> DEFINE hash == From(inv.rest, IntSize)
             bytes == Unspaced(hash)
             end == From(hash, HashEnd(hash))
             rows == [inv EXCEPT !.rows = @ - 1, !.rest = end]
             n == Len(letter.items)
  <1>4. /\ \A b \in Filled(inv.rest, IntSize) : IntAt(b, 0) = letter.type
        /\ \A b \in Filled(bytes, IntSize) : IntAt(b, 0) = n
    BY <1>3, AnnouncementRead DEF Framed
  <1>5. PICK type \in {IntAt(b, 0) : b \in Filled(inv.rest, IntSize)},
             amount \in {IntAt(b, 0) : b \in Filled(bytes, IntSize)} :
          IF type \in {MsgTx, MsgBlock} /\ amount > 0
            THEN /\ inv' = [rows EXCEPT !.type = type, !.left = amount]
                 /\ at' = "command"
            ELSE inv' = rows /\ at' = "row"
    BY DEF NextRow
  <1>a. n \in Nat \ {0} /\ letter \in Letters /\ letter.type \in {MsgTx, MsgBlock}
    BY BoxLength, LetterIs
  <1>6. rows.rows = 0 /\ DOMAIN rows = {"rows", "rest", "type", "left"}
    <2> HIDE DEF end
    <2> QED BY <1>3 DEF InvType
  <1> HIDE DEF bytes, rows, n
  <1>7. type = letter.type /\ amount = n
    BY <1>4, <1>5
  <1>8. inv' = [rows EXCEPT !.type = letter.type, !.left = n] /\ at' = "command"
    <2>1. n > 0
      BY <1>a
    <2> QED BY <1>5, <1>7, <1>a, <2>1
  <1>9. inv'.rows = 0 /\ inv'.type = letter.type /\ inv'.left = n
    BY <1>6, <1>8
  <1>10. AtMessage(1)'
    <2>1. Flow(3)'
      BY <1>1, <1>3, SameFlow
    <2>2. Off' = 0 /\ 3 * 1 + 0 = 3
      BY <1>8 DEF Off
    <2>3. Flow(3 * 1 + Off)'
      BY <2>1, <2>2
    <2> QED BY <1>8, <2>3 DEF AtMessage
  <1>11. Receiving'
    <2>1. Len(box') = 0 /\ n - 0 = n /\ n > 0 /\ 0 + 1 = 1
      BY <1>1, <1>3, <1>a
    <2>2. n = Len(letter.items)' /\ letter' = letter
      BY <1>1 DEF n
    <2>3. inv'.left = Len(letter.items)' - Len(box') /\ inv'.left > 0
      BY <1>9, <2>1, <2>2
    <2>4. Len(box') + 1 = 1
      BY <2>1
    <2>5. AtMessage(Len(box) + 1)'
      BY <1>10, <2>4
    <2> QED BY <1>8, <1>9, <2>2, <2>3, <2>5 DEF Receiving, Reading
  <1>12. Boxed'
    BY <1>1, <1>2, SameBoxed
  <1> QED BY <1>11, <1>12 DEF OnCourse

\* The handler returns when all has been read.
LEMMA CourseDone ==
  ASSUME TypeInv, OnCourse, InvDone
  PROVE  OnCourse'
  <1>1. /\ at = "row" /\ inv.rows = 0 /\ at' = "done"
        /\ UNCHANGED << letter, sent, link, wire, msg, inv, box, cuts >>
    BY DEF InvDone
  <1>2. RowBehind /\ Boxed
    BY <1>1 DEF OnCourse, Announcing, RowAhead, Receiving, Lost, Hung, Reading
  <1>3. RowBehind'
    BY <1>1, <1>2 DEF RowBehind
  <1> QED BY <1>1, <1>2, <1>3, SameBoxed DEF OnCourse

\* An item of a framed letter is given to the chain as it was sent.
LEMMA ItemTaken ==
  ASSUME TypeInv, OnCourse, Framed, HandleItem
  PROVE  /\ Receiving /\ box' = Append(box, KeptOf(letter, Len(box) + 1))
         /\ inv' = OneLess(inv)
         /\ at' \in {IF inv.left = 1 THEN "row" ELSE "command", "hung"}
         /\ UNCHANGED << letter, sent, link, wire, cuts >>
  <1>1. at = "item" /\ UNCHANGED << letter, sent, link, wire, cuts >>
    BY DEF HandleItem
  <1>2. Receiving
    BY <1>1 DEF OnCourse, Announcing, RowAhead, RowBehind, Lost, Hung, Reading
  <1>3. PICK m \in 1 .. Len(letter.items) : m = Len(box) + 1
    BY <1>2, ReceivingItem
  <1>4. /\ msg.command = NameOf(letter, m) /\ msg.payload = PayloadOf(letter, m)
        /\ inv.type = letter.type
    BY <1>1, <1>2, <1>3 DEF Receiving, AtMessage
  <1>5. msg.command = ItemName(inv.type)
    BY <1>4 DEF NameOf
  <1>6. PICK bytes \in Filled(msg.payload, IntSize) :
          LET size == IntAt(bytes, 0)
              data == DataOf(msg.payload, size)
          IN \/ size > Memory /\ at' = "threw" /\ UNCHANGED << inv, box >>
             \/ size <= Memory /\ Overrun(inv.type, data)
                  /\ at' = "undefined" /\ UNCHANGED << inv, box >>
             \/ /\ size <= Memory /\ ~Overrun(inv.type, data)
                /\ box' = Append(box, Scanned(inv.type, data))
                /\ inv' = OneLess(inv)
                /\ \/ at' = IF inv.left = 1 THEN "row" ELSE "command"
                   \/ inv.type = MsgBlock /\ at' = "hung"
    BY <1>5 DEF HandleItem
  <1> DEFINE size == IntAt(bytes, 0)
             data == DataOf(msg.payload, size)
  <1>7. size <= Memory /\ ~Overrun(inv.type, data) /\ Scanned(inv.type, data) = KeptOf(letter, m)
    BY <1>4, <1>6, ItemRead DEF Framed
  <1>8. size \in Nat /\ Memory \in Nat
    <2>1. msg.payload \in Seq(Byte)
      BY DEF TypeInv, MsgType
    <2> QED BY <1>6, <2>1, FilledInt, SizesAre
  <1>9. ~(size > Memory)
    <2> HIDE DEF size
    <2> QED BY <1>7, <1>8
  <1>10. /\ box' = Append(box, Scanned(inv.type, data))
         /\ inv' = OneLess(inv)
         /\ at' \in {IF inv.left = 1 THEN "row" ELSE "command", "hung"}
    BY <1>6, <1>7, <1>9
  <1> QED BY <1>1, <1>2, <1>3, <1>7, <1>10

\* The next item is waited for, or the row is done.
LEMMA CourseItem ==
  ASSUME TypeInv, OnCourse, Framed, HandleItem
  PROVE  OnCourse'
  <1>1. /\ Receiving /\ box' = Append(box, KeptOf(letter, Len(box) + 1))
        /\ inv' = OneLess(inv)
        /\ at' \in {IF inv.left = 1 THEN "row" ELSE "command", "hung"}
        /\ UNCHANGED << letter, sent, link, wire, cuts >> /\ at = "item"
    BY ItemTaken DEF HandleItem
  <1> DEFINE k == Len(box)
             n == Len(letter.items)
  <1>2. k \in Nat /\ n \in Nat /\ k + 1 \in 1 .. n
    BY <1>1, BoxLength, ReceivingItem
  <1>3. /\ Len(box') = k + 1 /\ box'[k + 1] = KeptOf(letter, k + 1)
        /\ \A i \in 1 .. k : box'[i] = box[i]
    <2>1. IsSeq(box)
      BY DEF TypeInv
    <2>2. DOMAIN box = 1 .. Len(box)
      BY <2>1, AppendIsSeq
    <2> QED BY <1>1, <2>1, <2>2, AppendIsSeq
  <1>4. inv.left = n - k /\ inv.rows = 0 /\ inv.type = letter.type
    BY <1>1 DEF Receiving
  <1>5. /\ inv'.left = inv.left - 1 /\ inv'.rows = 0
        /\ inv'.type = (IF inv.left = 1 THEN 0 ELSE letter.type)
    <2>1. inv \in InvType /\ inv.left > 0 /\ (inv.left > 0 <=> inv.type # 0)
      BY <1>1 DEF TypeInv, Receiving
    <2> QED BY <1>1, <1>4, <2>1, OneLessType
  <1>6. Boxed /\ Flow(3 * (k + 1) + 3)
    <2>1. Off = 3
      BY <1>1 DEF Off
    <2> QED BY <1>1, <2>1 DEF OnCourse, Receiving, AtMessage
  <1>7. Boxed'
    <2>1. \A i \in 1 .. k : box[i] = KeptOf(letter, i)
      BY <1>6 DEF Boxed
    <2> HIDE DEF k
    <2>2. \A i \in 1 .. k + 1 : box'[i] = KeptOf(letter, i)
      <3> SUFFICES ASSUME NEW i \in 1 .. k + 1 PROVE box'[i] = KeptOf(letter, i)
        OBVIOUS
      <3>1. i = k + 1 \/ i \in 1 .. k
        BY <1>2
      <3> QED BY <1>3, <2>1, <3>1
    <2>3. k + 1 <= n
      BY <1>2
    <2>4. Len(box') = k + 1 /\ letter' = letter
      BY <1>1, <1>3
    <2>5. \A i \in 1 .. Len(box') : box'[i] = KeptOf(letter', i)
      BY <2>2, <2>4
    <2>6. Len(box') <= Len(letter'.items)
      BY <2>3, <2>4
    <2> QED BY <2>5, <2>6 DEF Boxed, KeptOf
  <1>8. CASE at' = "hung"
    BY <1>7, <1>8 DEF OnCourse, Hung
  <1>9. CASE at' # "hung" /\ inv.left = 1
    <2>1. k + 1 = n
      BY <1>2, <1>4, <1>9
    <2>2. RowBehind'
      BY <1>1, <1>3, <1>5, <1>9, <2>1 DEF RowBehind
    <2> QED BY <1>7, <2>2 DEF OnCourse
  <1>10. CASE at' # "hung" /\ inv.left # 1
    <2>1. inv.left \in Nat /\ inv.left > 0
      BY <1>1 DEF TypeInv, InvType, Receiving
    <2> DEFINE left == inv.left
    <2>2. left - 1 = n - (k + 1) /\ left - 1 > 0
      <3> HIDE DEF k, n, left
      <3>1. left = n - k /\ left \in Nat /\ left > 0 /\ left # 1
        BY <1>4, <1>10, <2>1 DEF k, n, left
      <3> QED BY <1>2, <3>1
    <2>3. inv'.left = Len(letter.items)' - Len(box') /\ inv'.left > 0
      BY <1>1, <1>3, <1>5, <2>2
    <2>4. AtMessage(Len(box) + 1)'
      <3>1. PICK q \in Nat : q = 3 * (k + 1) + 3
        BY <1>2
      <3>2. Flow(q)'
        BY <1>1, <1>6, <3>1, SameFlow
      <3>3. at' = "command" /\ Off' = 0
        BY <1>1, <1>10 DEF Off
      <3>4. Len(box') + 1 = k + 2
        BY <1>2, <1>3
      <3>5. 3 * (Len(box') + 1) + Off' = q
        <4>1. 3 * (k + 2) + 0 = 3 * (k + 1) + 3
          BY <1>2
        <4> QED BY <3>1, <3>3, <3>4, <4>1
      <3>6. Flow(3 * (Len(box) + 1) + Off)'
        BY <3>2, <3>5
      <3> QED BY <3>3, <3>6 DEF AtMessage
    <2>5. Receiving'
      BY <1>1, <1>5, <1>10, <2>3, <2>4 DEF Receiving, Reading
    <2> QED BY <1>7, <2>5 DEF OnCourse
  <1> QED BY <1>8, <1>9, <1>10

\* The letter stays, and a receive that came short is not forgotten.
LEMMA CutsStay ==
  ASSUME TypeInv, [Next]_vars
  PROVE  letter' = letter /\ (cuts' = << >> => cuts = << >>)
  <1>1. cuts \in Seq(Reading)
    BY DEF TypeInv
  <1>2. ASSUME NEW n, NEW k, Receive(n, k), at \in Reading
        PROVE  cuts' = << >> => cuts = << >>
    <2>1. Append(cuts, at) # << >>
      BY <1>1, <1>2, AppendProperties
    <2> QED BY <1>2, <2>1 DEF Receive
  <1>3. CASE ReceiveCommand
    BY <1>2, <1>3 DEF ReceiveCommand, Reading
  <1>4. CASE ReceiveSize
    BY <1>2, <1>4 DEF ReceiveSize, Reading
  <1>5. CASE ReceivePayload
    BY <1>2, <1>5 DEF ReceivePayload, Reading
  <1>6. CASE Send \/ Close \/ Break
    BY <1>6 DEF Send, Close, Break
  <1>7. CASE ReceiveThrows \/ InvDone
    BY <1>7 DEF ReceiveThrows, InvDone
  <1>8. CASE HandleAccept \/ NextRow \/ HandleItem
    BY <1>8 DEF HandleAccept, NextRow, HandleItem
  <1>9. CASE UNCHANGED vars
    BY <1>9 DEF vars
  <1> QED BY <1>3, <1>4, <1>5, <1>6, <1>7, <1>8, <1>9 DEF Next, Receiver

\* Every step stays on course.
LEMMA CourseInductive ==
  ASSUME TypeInv, OnCourse, Framed, [Next]_vars, cuts = << >>, cuts' = << >>
  PROVE  OnCourse'
  <1>1. CASE Send \/ Close \/ Break
    BY <1>1, CourseSender
  <1>2. CASE ReceiveCommand \/ ReceiveSize \/ ReceivePayload
    BY <1>2, CourseReceive
  <1>3. CASE ReceiveThrows
    BY <1>3, CourseThrows
  <1>4. CASE HandleAccept \/ NextRow
    BY <1>4, CourseAccept, CourseNextRow
  <1>5. CASE InvDone \/ HandleItem
    BY <1>5, CourseDone, CourseItem
  <1>6. CASE UNCHANGED vars
    <2>1. Boxed'
      BY <1>6, SameBoxed DEF OnCourse, vars
    <2>2. (Announcing \/ RowAhead \/ Receiving \/ RowBehind \/ Lost \/ Hung)'
      BY <1>6 DEF OnCourse, vars, Announcing, RowAhead, Receiving, RowBehind, Lost, Hung, AtMessage,
                  NameOf, PayloadOf, Flow, FlowAt, Upto, Whole, Sends, Off
    <2> QED BY <2>1, <2>2 DEF OnCourse
  <1> QED BY <1>1, <1>2, <1>3, <1>4, <1>5, <1>6 DEF Next, Receiver

\* The receiver begins on course.
LEMMA CourseInit == Init => DeliveryInv
  <1> SUFFICES ASSUME Init PROVE OnCourse
    BY DEF DeliveryInv
  <1>1. TypeInv
    BY TypeInit
  <1>2. Boxed
    <2>1. Len(letter.items) \in Nat
      BY <1>1, BoxLength
    <2>2. box = << >> /\ Len(<< >>) = 0 /\ 1 .. 0 = {}
      BY DEF Init
    <2> QED BY <2>1, <2>2 DEF Boxed
  <1>3. Flow(3 * 0 + Off)
    <2>1. 3 * 0 + Off = 0
      BY DEF Init, Off
    <2>2. Whole \in Seq(Byte) /\ Upto(0) = 0
      BY <1>1, StreamIs DEF TypeInv
    <2>3. HasAt(Whole, 0, << >>)
      <3>1. 0 + Len(<< >>) = 0 /\ 0 <= Len(Whole) /\ 1 .. Len(<< >>) = {}
        BY <2>2
      <3> QED BY <3>1 DEF HasAt
    <2>4. wire = << >> /\ sent = 0 /\ link = "open" /\ 0 + Len(<< >>) = 0
      BY DEF Init
    <2>5. Flow(0)
      BY <2>2, <2>3, <2>4 DEF Flow, FlowAt
    <2> QED BY <2>1, <2>5
  <1>4. Announcing
    BY <1>3 DEF Init, Announcing, AtMessage, Reading
  <1> QED BY <1>2, <1>4 DEF OnCourse

\* Every step keeps the invariant.
LEMMA DeliveryInductive == TypeInv /\ DeliveryInv /\ [Next]_vars => DeliveryInv'
  <1> SUFFICES ASSUME TypeInv, DeliveryInv, [Next]_vars, cuts' = << >>, Framed'
               PROVE  OnCourse'
    BY DEF DeliveryInv
  <1>1. cuts = << >> /\ letter' = letter
    BY CutsStay
  <1>2. Framed
    BY <1>1, SameLetter
  <1> QED BY <1>1, <1>2, CourseInductive DEF DeliveryInv

\* The receiver is on course always.
LEMMA DeliveryInvariant == Spec => []DeliveryInv
  <1>1. Spec => [](TypeInv /\ DeliveryInv)
    BY TypeInit, TypeInductive, CourseInit, DeliveryInductive, PTL DEF Spec
  <1> QED BY <1>1, PTL

-----------------------------------------------------------------------------
(***************************************************************************)
(* What follows from it.                                                   *)
(***************************************************************************)
\* The asserts of m_handle_inv hold, nothing is read past the end of a payload,
\* and the handler does not throw, but for a receive that came short, a letter
\* the reader does not expect, or (to throw) a lost connection (server.cpp:193-224).
THEOREM FailsOnlyForCauseAlways == Spec => []FailsOnlyForCause
  <1>1. ASSUME DeliveryInv PROVE FailsOnlyForCause
    <2> SUFFICES ASSUME OnCourse PROVE FailsOnlyForCause
      BY <1>1 DEF DeliveryInv, FailsOnlyForCause
    <2>1. at \notin {"aborted", "undefined", "ignored"}
      BY DEF OnCourse, Announcing, RowAhead, Receiving, RowBehind, Lost, Hung, Reading
    <2>2. at = "threw" => link = "lost"
      BY DEF OnCourse, Announcing, RowAhead, Receiving, RowBehind, Lost, Hung, Reading
    <2> QED BY <2>1, <2>2 DEF FailsOnlyForCause
  <1> QED BY <1>1, DeliveryInvariant, PTL

\* What an append leaves, as Delivery says it.
LEMMA AppendPrefix ==
  ASSUME IsSeq(box), NEW item
  PROVE  Promise!IsPrefix(box, Append(box, item))
  <1> DEFINE longer == Append(box, item)
  <1>1. /\ Len(box) \in Nat /\ DOMAIN box = 1 .. Len(box) /\ IsSeq(longer)
        /\ Len(longer) = Len(box) + 1 /\ \A i \in 1 .. Len(box) : longer[i] = box[i]
    BY AppendIsSeq
  <1> HIDE DEF longer
  <1>2. SubSeq(box, 1, Len(box)) = [i \in 1 .. Len(box) |-> box[i]]
    BY <1>1
  <1>3. SubSeq(longer, 1, Len(box)) = [i \in 1 .. Len(box) |-> longer[i]]
    BY <1>1
  <1>4. [i \in 1 .. Len(box) |-> box[i]] = [i \in 1 .. Len(box) |-> longer[i]]
    BY <1>1
  <1>5. Len(box) <= Len(longer) /\ SubSeq(box, 1, Len(box)) = SubSeq(longer, 1, Len(box))
    BY <1>1, <1>2, <1>3, <1>4
  <1>6. Promise!IsPrefix(box, longer)
    BY <1>5 DEF Promise!IsPrefix
  <1> QED BY <1>6 DEF longer

\* A step of the connection is a step of Delivery, or none.
LEMMA DeliveryStep ==
  ASSUME TypeInv, DeliveryInv, [Next]_vars
  PROVE  [Promise!Next]_<< Kept, box, cuts # << >> \/ ~Framed >>
  <1> DEFINE spoiled == cuts # << >> \/ ~Framed
  <1>1. Kept' = Kept /\ Framed' = Framed
    BY CutsStay, SameLetter
  <1>2. spoiled => spoiled'
    BY <1>1, CutsStay
  <1>3. CASE box' = box
    <2>1. CASE spoiled' = spoiled
      BY <1>1, <1>3, <2>1
    <2>2. CASE spoiled' # spoiled
      <3>1. ~spoiled /\ spoiled' = TRUE
        BY <1>2, <2>2
      <3> QED BY <1>1, <1>3, <3>1 DEF Promise!Next, Promise!Spoil
    <2> QED BY <2>1, <2>2
  <1>4. CASE HandleItem /\ spoiled
    <2>1. spoiled' = spoiled
      BY <1>1, <1>4 DEF HandleItem
    <2>2. CASE box' = box
      BY <1>3, <2>2
    <2>3. CASE box' # box
      <3>1. PICK item : box' = Append(box, item)
        BY <1>4, <2>3 DEF HandleItem
      <3>2. IsSeq(box)
        BY DEF TypeInv
      <3>3. Promise!IsPrefix(box, box')
        BY <3>1, <3>2, AppendPrefix
      <3> QED BY <1>1, <1>4, <2>1, <3>3 DEF Promise!Next, Promise!Misdeliver
    <2> QED BY <2>2, <2>3
  <1>5. CASE HandleItem /\ ~spoiled
    <2>1. OnCourse /\ Framed
      BY <1>5 DEF DeliveryInv
    <2>2. Receiving /\ box' = Append(box, KeptOf(letter, Len(box) + 1)) /\ cuts' = cuts
      BY <1>5, <2>1, ItemTaken
    <2>3. spoiled' = spoiled
      BY <1>1, <2>2
    <2>4. /\ Len(box) + 1 \in 1 .. Len(letter.items) /\ Len(box) \in Nat
          /\ letter \in Letters /\ Len(letter.items) \in Nat
      BY <2>2, BoxLength, ReceivingItem
    <2>5. Kept[Len(box) + 1] = KeptOf(letter, Len(box) + 1)
      BY <2>4, KeptIs
    <2>6. Len(Kept) = Len(letter.items)
      <3>1. DOMAIN Kept = 1 .. Len(letter.items)
        BY <2>4, LetterIs DEF Kept
      <3>2. Kept = [i \in 1 .. Len(letter.items) |-> Kept[i]]
        BY <2>4, LetterIs DEF Kept
      <3> QED BY <2>4, <3>1, <3>2
    <2>7. Len(box) < Len(Kept)
      BY <2>4, <2>6
    <2> QED BY <1>1, <1>5, <2>2, <2>3, <2>5, <2>7 DEF Promise!Next, Promise!Deliver
  <1>6. HandleItem \/ box' = box
    BY DEF Next, Receiver, Send, Close, Break, ReceiveCommand, ReceiveSize, ReceivePayload,
           ReceiveThrows, HandleAccept, NextRow, InvDone, vars
  <1> QED BY <1>3, <1>4, <1>5, <1>6

\* A connection implements Delivery: the items of a framed letter reach the chain
\* in their order, each once and with every field as sent, as long as no receive
\* has returned less than it was asked for (connection.cpp:10-14,
\* server.cpp:193-224); and what has arrived stays.
THEOREM Delivers == Spec => DeliverySpec
  <1>1. Init => Promise!Init
    BY DEF Init, Promise!Init
  <1>2. TypeInv /\ DeliveryInv /\ [Next]_vars =>
          [Promise!Next]_<< Kept, box, cuts # << >> \/ ~Framed >>
    BY DeliveryStep
  <1> QED BY <1>1, <1>2, TypeInvariant, DeliveryInvariant, PTL DEF Spec, DeliverySpec, Promise!Spec

-----------------------------------------------------------------------------
(***************************************************************************)
(* A payload that came short: its first bytes, and zeros for the rest.     *)
(***************************************************************************)
\* The first j bytes of s, and zeros for the rest: a payload that came short.
ZeroTail(s, j) == [i \in 1 .. Len(s) |-> IF i <= j THEN s[i] ELSE 0]

\* It is as long as what was sent.
LEMMA ZeroTailType ==
  ASSUME NEW s \in Seq(Byte), NEW j \in Nat
  PROVE  /\ ZeroTail(s, j) \in Seq(Byte) /\ Len(ZeroTail(s, j)) = Len(s)
         /\ \A i \in 1 .. Len(s) : ZeroTail(s, j)[i] = IF i <= j THEN s[i] ELSE 0
  <1>1. Len(s) \in Nat /\ \A i \in 1 .. Len(s) : s[i] \in Byte
    OBVIOUS
  <1>2. ZeroTail(s, j) \in [1 .. Len(s) -> Byte]
    BY <1>1, ByteIs DEF ZeroTail
  <1>3. ZeroTail(s, j) \in Seq(Byte) /\ Len(ZeroTail(s, j)) = Len(s)
    BY <1>1, <1>2, IsASeq
  <1> QED BY <1>3 DEF ZeroTail

\* A number with smaller bytes is smaller.
LEMMA SmallerBytes ==
  ASSUME NEW a \in Seq(Byte), NEW b \in Seq(Byte), NEW p \in Nat,
         \A i \in 1 .. IntSize : At(a, p + i) <= At(b, p + i)
  PROVE  IntAt(a, p) <= IntAt(b, p)
  <1>0. IntSize \in Nat /\ Base \in Nat
    BY ByteIs
  <1>1. PICK f : Sums(f, a, p) /\ IntAt(a, p) = f[IntSize]
    BY IntAtSums
  <1>2. PICK g : Sums(g, b, p) /\ IntAt(b, p) = g[IntSize]
    BY IntAtSums
  <1>3. \A k \in 0 .. IntSize : f[k] \in Nat
    BY <1>1, SumsFit
  <1>4. \A k \in 0 .. IntSize : g[k] \in Nat
    BY <1>2, SumsFit
  <1> DEFINE T == {k \in Nat : k <= IntSize => f[k] <= g[k]}
  <1>5. 0 \in T
    BY <1>1, <1>2 DEF Sums
  <1>6. ASSUME NEW k \in Nat, k \in T PROVE k + 1 \in T
    <2> SUFFICES ASSUME k + 1 <= IntSize PROVE f[k + 1] <= g[k + 1]
      OBVIOUS
    <2> DEFINE x == At(a, p + (k + 1))
               y == At(b, p + (k + 1))
               P == Power[k]
    <2>1. /\ f[k] <= g[k] /\ k \in 0 .. IntSize - 1 /\ k \in 0 .. IntSize
          /\ k + 1 \in 1 .. IntSize /\ p + (k + 1) \in Nat \ {0}
      BY <1>0, <1>6
    <2>2. x \in Nat /\ y \in Nat /\ x <= y
      <3>1. x \in Byte /\ y \in Byte
        BY <2>1, AtType
      <3>2. x <= y
        BY <2>1
      <3> QED BY <3>1, <3>2, ByteIs
    <2>3. P \in Nat /\ f[k] \in Nat /\ g[k] \in Nat
      BY <1>3, <1>4, <2>1, PowerIs
    <2>4. f[k + 1] = f[k] + P * x /\ g[k + 1] = g[k] + P * y
      BY <1>1, <1>2, <2>1 DEF Sums
    <2> HIDE DEF x, y, P
    <2>5. P * x <= P * y /\ P * x \in Nat /\ P * y \in Nat
      BY <2>2, <2>3
    <2> QED BY <2>1, <2>3, <2>4, <2>5
  <1>7. \A k \in Nat : k \in T
    <2> HIDE DEF T
    <2> QED BY <1>5, <1>6, InductionOnNat
  <1> QED BY <1>0, <1>1, <1>2, <1>7

\* A read where there are bytes enough takes them.
LEMMA FilledSame ==
  ASSUME NEW s \in Seq(Byte), IntSize <= Len(s), NEW b \in Filled(s, IntSize)
  PROVE  /\ IntAt(b, 0) = IntAt(s, 0) /\ IntAt(b, 0) \in Nat /\ IntAt(b, 0) < Power[IntSize]
  <1>0. IntSize \in Nat /\ Len(s) \in Nat
    BY ByteIs
  <1>1. b \in Seq(Byte) /\ Len(b) = IntSize /\ b = SubSeq(s, 1, IntSize)
    BY <1>0, FilledType
  <1>2. \A i \in 1 .. IntSize : b[i] = s[i]
    BY <1>0, <1>1
  <1>3. \A i \in 1 .. IntSize : At(b, 0 + i) = At(s, 0 + i)
    <2> SUFFICES ASSUME NEW i \in 1 .. IntSize PROVE At(b, 0 + i) = At(s, 0 + i)
      OBVIOUS
    <2>1. 0 + i = i /\ i <= Len(s) /\ i <= Len(b)
      BY <1>0, <1>1
    <2> QED BY <1>2, <2>1 DEF At
  <1>4. \A i \in 1 .. IntSize : At(b, 0 + i) \in Nat
    <2> SUFFICES ASSUME NEW i \in 1 .. IntSize PROVE At(b, 0 + i) \in Nat
      OBVIOUS
    <2>1. 0 + i \in Nat \ {0}
      BY <1>0
    <2> QED BY <1>1, <2>1, AtType, ByteIs
  <1>5. \A i \in 1 .. IntSize : At(b, 0 + i) <= At(s, 0 + i) /\ At(s, 0 + i) <= At(b, 0 + i)
    BY <1>3, <1>4
  <1>6. 0 \in Nat
    OBVIOUS
  <1>7. IntAt(b, 0) <= IntAt(s, 0) /\ IntAt(s, 0) <= IntAt(b, 0)
    BY <1>1, <1>5, <1>6, SmallerBytes
  <1>8. /\ IntAt(b, 0) \in Nat /\ IntAt(b, 0) < Power[IntSize]
        /\ IntAt(s, 0) \in Nat
    BY <1>1, <1>6, IntAtType
  <1> QED BY <1>7, <1>8

\* Zeros make a number no larger.
LEMMA ZeroTailInt ==
  ASSUME NEW s \in Seq(Byte), NEW j \in Nat, NEW p \in Nat, NEW v \in Nat, v < Power[IntSize],
         HasAt(s, p, IntBytes(v))
  PROVE  IntAt(ZeroTail(s, j), p) <= v
  <1>0. IntSize \in Nat /\ Len(s) \in Nat
    BY ByteIs
  <1> DEFINE z == ZeroTail(s, j)
  <1>1. z \in Seq(Byte) /\ Len(z) = Len(s) /\ \A i \in 1 .. Len(s) : z[i] = IF i <= j THEN s[i] ELSE 0
    BY ZeroTailType
  <1> HIDE DEF z
  <1>2. \A i \in 1 .. IntSize : At(z, p + i) <= At(s, p + i)
    <2> SUFFICES ASSUME NEW i \in 1 .. IntSize PROVE At(z, p + i) <= At(s, p + i)
      OBVIOUS
    <2>1. p + i \in Nat \ {0}
      BY <1>0
    <2>2. At(s, p + i) \in Nat
      BY <2>1, AtType, ByteIs
    <2>3. At(z, p + i) = At(s, p + i) \/ At(z, p + i) = 0
      BY <1>1, <2>1 DEF At
    <2> QED BY <2>2, <2>3
  <1>3. IntAt(z, p) <= IntAt(s, p)
    BY <1>1, <1>2, SmallerBytes
  <1>4. IntAt(s, p) = v
    BY IntRead, LowIs
  <1> QED BY <1>3, <1>4 DEF z

\* What is only zeroed, byte by byte.
LEMMA OnlyZeroedIs ==
  ASSUME NEW seen \in Seq(Byte), NEW was \in Seq(Byte), Len(seen) <= Len(was),
         NEW k \in 0 .. Len(seen),
         \A i \in 1 .. Len(seen) : seen[i] = IF i <= k THEN was[i] ELSE 0
  PROVE  OnlyZeroed(seen, was)
  <1>0. Len(seen) \in Nat /\ Len(was) \in Nat /\ k \in Nat /\ Len(seen) - k \in Nat
    OBVIOUS
  <1> DEFINE n == Len(seen)
             a == SubSeq(was, 1, k)
             z == Zeros(n - k)
             c == a \o z
  <1>1. a \in Seq(Byte) /\ Len(a) = k /\ \A i \in 1 .. k : a[i] = was[i]
    <2>1. \A i \in 1 .. k : was[i] \in Byte
      BY <1>0
    <2>2. /\ a \in Seq(Byte) /\ Len(a) = (IF 1 <= k THEN k - 1 + 1 ELSE 0)
          /\ \A i \in 1 .. k - 1 + 1 : a[i] = was[1 + i - 1]
      BY <1>0, <2>1, SubSeqProperties
    <2>3. Len(a) = k
      BY <1>0, <2>2
    <2>4. ASSUME NEW i \in 1 .. k PROVE a[i] = was[i]
      <3>1. i \in 1 .. k - 1 + 1 /\ 1 + i - 1 = i
        BY <1>0
      <3> QED BY <2>2, <3>1
    <2> QED BY <2>2, <2>3, <2>4
  <1>2. z \in Seq(Byte) /\ Len(z) = n - k /\ \A i \in 1 .. n - k : z[i] = 0
    BY <1>0, ZerosType
  <1> HIDE DEF a, z
  <1>3. /\ c \in Seq(Byte) /\ Len(c) = Len(a) + Len(z)
        /\ \A i \in 1 .. Len(a) + Len(z) : c[i] = IF i <= Len(a) THEN a[i] ELSE z[i - Len(a)]
    BY <1>1, <1>2, ConcatProperties
  <1> HIDE DEF c
  <1>4. ASSUME NEW i \in 1 .. n PROVE seen[i] = c[i]
    <2>1. i \in 1 .. Len(a) + Len(z) /\ (~(i <= k) => i - k \in 1 .. n - k) /\ (i <= k => i \in 1 .. k)
      BY <1>0, <1>1, <1>2
    <2> QED BY <1>1, <1>2, <1>3, <2>1
  <1>5. Len(c) = n
    BY <1>0, <1>1, <1>2, <1>3
  <1>6. seen = c
    BY <1>3, <1>4, <1>5, SeqEqual
  <1>7. seen = SubSeq(was, 1, k) \o Zeros(Len(seen) - k)
    BY <1>6 DEF a, z, c
  <1> QED BY <1>7 DEF OnlyZeroed

\* What is scanned of any bytes, as long as they are enough, are bytes of theirs.
LEMMA ScannedBytes ==
  ASSUME NEW l \in Letters, NEW data \in Seq(Byte), ~Overrun(l.type, data)
  PROVE  LET seen == ItemBytes(l, Scanned(l.type, data))
         IN /\ seen \in Seq(Byte) /\ Len(seen) \in Nat /\ Len(seen) <= Len(data)
            /\ \A i \in 1 .. Len(seen) : seen[i] = data[i]
  <1> DEFINE seen == ItemBytes(l, Scanned(l.type, data))
  <1>0. Len(data) \in Nat /\ 0 \in Nat
    OBVIOUS
  <1>1. \E e : Stands(data, 0, seen, e)
    <2>1. CASE l.type = MsgTx
      <3>1. ~(TxEnd(data, 0) > Len(data)) /\ seen = TxBytes(TxAt(data, 0))
        BY <2>1 DEF Overrun, Scanned, ItemBytes
      <3>2. TxEnd(data, 0) \in Nat
        BY <1>0, TxEndType
      <3>3. TxEnd(data, 0) <= Len(data)
        BY <1>0, <3>1, <3>2
      <3>4. Stands(data, 0, TxBytes(TxAt(data, 0)), TxEnd(data, 0))
        BY <1>0, <3>3, TxBack
      <3> QED BY <3>1, <3>4
    <2>2. CASE l.type # MsgTx
      <3>1. ~(BlockEnd(data) > Len(data)) /\ seen = BlockBytes(BlockAt(data))
        BY <2>2 DEF Overrun, Scanned, ItemBytes
      <3>2. BlockEnd(data) \in Nat
        <4>1. IntAt(data, CountFrom) \in Nat
          <5>1. CountFrom \in Nat
            BY ByteIs DEF CountFrom
          <5> QED BY <5>1, IntAtType
        <4> QED BY <4>1, TxsEndIs DEF BlockEnd
      <3>3. BlockEnd(data) <= Len(data)
        BY <1>0, <3>1, <3>2
      <3>4. Stands(data, 0, BlockBytes(BlockAt(data)), BlockEnd(data))
        BY <3>3, BlockBack
      <3> QED BY <3>1, <3>4
    <2> QED BY <2>1, <2>2
  <1> HIDE DEF seen
  <1>2. PICK e : Stands(data, 0, seen, e)
    BY <1>1
  <1>3. seen \in Seq(Byte) /\ Len(seen) = e /\ e \in Nat /\ e <= Len(data) /\ HasAt(data, 0, seen)
    BY <1>2, BeginsWith DEF Stands
  <1>4. ASSUME NEW i \in 1 .. Len(seen) PROVE seen[i] = data[i]
    <2>1. 0 + i = i
      OBVIOUS
    <2> QED BY <1>3, <2>1 DEF HasAt
  <1> QED BY <1>3, <1>4 DEF seen

\* An item read of a payload that came short is only zeroed.
LEMMA ItemZeroed ==
  ASSUME NEW l \in Letters, NEW i \in 1 .. Len(l.items), NEW w, w = PayloadOf(l, i),
         Len(w) < Power[IntSize], NEW j \in 1 .. Len(w),
         NEW b \in Filled(ZeroTail(w, j), IntSize),
         NEW data, data = DataOf(ZeroTail(w, j), IntAt(b, 0)), ~Overrun(l.type, data)
  PROVE  OnlyZeroed(ItemBytes(l, Scanned(l.type, data)), ItemBytes(l, l.items[i]))
  <1> DEFINE was == ItemBytes(l, l.items[i])
             z == ZeroTail(w, j)
             n == IntAt(b, 0)
             seen == ItemBytes(l, Scanned(l.type, data))
  <1>0. IntSize \in Nat /\ Len(l.items) \in Nat /\ Power[IntSize] \in Nat
    BY ByteIs, LetterIs, PowerIs
  <1>1. was \in Seq(Byte) /\ Len(was) \in Nat
    BY ItemBytesType
  <1>2. w = Wrapped(was)
    <2>1. i # 0
      BY <1>0
    <2> QED BY <2>1 DEF PayloadOf
  <1> HIDE DEF was, n
  <1>3. /\ w \in Seq(Byte) /\ Len(w) = IntSize + Len(was) /\ j \in Nat /\ Len(w) \in Nat
        /\ HasAt(w, 0, IntBytes(Len(was))) /\ HasAt(w, IntSize, was)
    BY <1>1, <1>2, WrappedType
  <1>4. z \in Seq(Byte) /\ Len(z) = Len(w) /\ \A q \in 1 .. Len(w) : z[q] = IF q <= j THEN w[q] ELSE 0
    BY <1>3, ZeroTailType
  <1>5. n = IntAt(z, 0) /\ n \in Nat
    <2>1. IntSize <= Len(z)
      BY <1>0, <1>1, <1>3, <1>4
    <2> HIDE DEF z
    <2>2. b \in Filled(z, IntSize)
      BY DEF z
    <2> QED BY <1>4, <2>1, <2>2, FilledSame DEF n
  <1>6. n <= Len(was)
    <2>1. Len(was) < Power[IntSize]
      <3> DEFINE top == Power[IntSize]
      <3>1. Len(w) < top /\ top \in Nat /\ Len(w) = IntSize + Len(was)
        BY <1>0, <1>3
      <3> HIDE DEF top
      <3>2. Len(was) < top
        BY <1>0, <1>1, <3>1
      <3> QED BY <3>2 DEF top
    <2>2. 0 \in Nat
      OBVIOUS
    <2>3. IntAt(z, 0) <= Len(was)
      BY <1>1, <1>3, <2>1, <2>2, ZeroTailInt
    <2> QED BY <1>5, <2>3
  <1> HIDE DEF z
  <1>7. data = Cut(z, IntSize, n)
    BY DEF DataOf, z, n
  <1>8. /\ data \in Seq(Byte) /\ Len(data) = n /\ HasAt(z, IntSize, data)
    <2>1. IntSize + n <= Len(z)
      BY <1>0, <1>1, <1>3, <1>4, <1>5, <1>6
    <2> QED BY <1>0, <1>4, <1>5, <1>7, <2>1, CutThere
  <1>9. ASSUME NEW q \in 1 .. n PROVE data[q] = IF IntSize + q <= j THEN was[q] ELSE 0
    <2>1. q \in 1 .. Len(was) /\ IntSize + q \in 1 .. Len(w)
      BY <1>0, <1>1, <1>3, <1>5, <1>6
    <2>2. data[q] = z[IntSize + q]
      BY <1>8 DEF HasAt
    <2>3. w[IntSize + q] = was[q]
      BY <1>3, <2>1 DEF HasAt
    <2> QED BY <1>4, <2>1, <2>2, <2>3
  <1>10. /\ seen \in Seq(Byte) /\ Len(seen) \in Nat /\ Len(seen) <= n
         /\ \A q \in 1 .. Len(seen) : seen[q] = data[q]
    BY <1>8, ScannedBytes
  <1> HIDE DEF seen
  <1> DEFINE k == IF j <= IntSize THEN 0 ELSE IF j - IntSize <= Len(seen) THEN j - IntSize ELSE Len(seen)
  <1>11. k \in 0 .. Len(seen)
    BY <1>0, <1>3, <1>10
  <1>12. ASSUME NEW q \in 1 .. Len(seen) PROVE seen[q] = IF q <= k THEN was[q] ELSE 0
    <2>1. q \in 1 .. n
      BY <1>5, <1>10
    <2>2. seen[q] = IF IntSize + q <= j THEN was[q] ELSE 0
      BY <1>9, <1>10, <2>1
    <2>3. IntSize + q <= j <=> q <= k
      BY <1>0, <1>3, <1>10
    <2> HIDE DEF k
    <2> QED BY <2>2, <2>3
  <1> HIDE DEF k
  <1>13. Len(seen) <= Len(was)
    BY <1>1, <1>5, <1>6, <1>10
  <1>14. OnlyZeroed(seen, was)
    BY <1>1, <1>10, <1>11, <1>12, <1>13, OnlyZeroedIs
  <1> QED BY <1>14 DEF seen, was

\* The bytes of the number 1, and of a type, which is 1 or 2.
LEMMA OneBytes ==
  /\ IntBytes(1)[1] = 1
  /\ \A i \in 2 .. IntSize : IntBytes(1)[i] = 0
  /\ \A t \in {1, 2} : IntBytes(t)[1] = t % Base
  <1>0. IntSize \in Nat \ {0} /\ Base \in Nat \ {0, 1} /\ Power[0] = 1 /\ 0 \in Nat
    BY ByteIs, PowerIs
  <1>1. ASSUME NEW t \in {1, 2} PROVE IntBytes(t)[1] = t % Base
    <2>1. 1 \in 1 .. IntSize /\ 1 - 1 = 0 /\ t \in Nat
      BY <1>0
    <2>2. IntBytes(t)[1] = (t \div Power[1 - 1]) % Base
      BY <2>1, IntBytesType
    <2>3. t \div 1 = t
      BY <2>1
    <2> QED BY <1>0, <2>1, <2>2, <2>3
  <1>2. 1 % Base = 1
    BY <1>0
  <1>3. ASSUME NEW i \in 2 .. IntSize PROVE IntBytes(1)[i] = 0
    <2> DEFINE P == Power[i - 1]
    <2>1. i \in 1 .. IntSize /\ i - 1 \in Nat /\ i - 2 \in Nat /\ (i - 2) + 1 = i - 1 /\ 1 \in Nat
      BY <1>0
    <2>2. IntBytes(1)[i] = (1 \div P) % Base
      BY <2>1, IntBytesType
    <2>3. P = Base * Power[i - 2] /\ Power[i - 2] \in Nat \ {0}
      BY <2>1, PowerIs
    <2>4. P \in Nat /\ P > 1
      <3> DEFINE Q == Power[i - 2]
      <3>1. P = Base * Q /\ Q \in Nat \ {0}
        BY <2>3
      <3> HIDE DEF P, Q
      <3>2. Base * Q = Base + Base * (Q - 1) /\ Base * (Q - 1) \in Nat
        BY <1>0, <3>1
      <3> QED BY <1>0, <3>1, <3>2
    <2> HIDE DEF P
    <2>5. 1 \div P = 0
      BY <2>4
    <2>6. 0 % Base = 0
      BY <1>0
    <2> QED BY <2>2, <2>5, <2>6
  <1> QED BY <1>0, <1>1, <1>2, <1>3

\* A type with some of its bytes gone is the type or none.
LEMMA TypeStays ==
  ASSUME NEW rest \in Seq(Byte), IntSize <= Len(rest), NEW t \in {1, 2}, t < Power[IntSize],
         \A i \in 1 .. IntSize : rest[i] = IntBytes(t)[i] \/ rest[i] = 0
  PROVE  IntAt(rest, 0) \in {1, 2} => IntAt(rest, 0) = t
  <1> DEFINE v == IntAt(rest, 0)
             c == IntBytes(t)
  <1>0. /\ IntSize \in Nat \ {0} /\ Base \in Nat \ {0, 1} /\ Power[0] = 1 /\ 0 \in Nat
        /\ t \in Nat /\ Len(rest) \in Nat
    <2>1. IntSize \in Nat \ {0} /\ Base \in Nat \ {0, 1}
      BY ByteIs
    <2>2. Power[0] = 1
      BY PowerIs
    <2>3. t \in Nat /\ Len(rest) \in Nat
      OBVIOUS
    <2> QED BY <2>1, <2>2, <2>3
  <1>1. c \in Seq(Byte) /\ Len(c) = IntSize /\ c[1] = t % Base
    BY <1>0, IntBytesType, OneBytes
  <1>2. IntAt(c, 0) = t
    <2>1. HasAt(c, 0, c)
      <3> HIDE DEF c
      <3> QED BY <1>1, HasAll
    <2>2. IntAt(c, 0) = Low(t)
      BY <1>0, <1>1, <2>1, IntRead
    <2> QED BY <1>0, <2>2, LowIs
  <1> HIDE DEF c
  <1>3. \A i \in 1 .. IntSize : rest[i] = c[i] \/ rest[i] = 0
    BY DEF c
  <1>4. \A i \in 1 .. IntSize : At(rest, 0 + i) <= At(c, 0 + i)
    <2> SUFFICES ASSUME NEW i \in 1 .. IntSize PROVE At(rest, 0 + i) <= At(c, 0 + i)
      OBVIOUS
    <2>1. 0 + i = i /\ i <= Len(rest) /\ i <= Len(c) /\ i \in Nat \ {0}
      BY <1>0, <1>1
    <2>2. At(c, i) \in Nat
      BY <1>1, <2>1, AtType, ByteIs
    <2>3. At(rest, i) = At(c, i) \/ At(rest, i) = 0
      BY <1>3, <2>1 DEF At
    <2> QED BY <2>1, <2>2, <2>3
  <1>5. v <= t /\ v \in Nat
    <2>1. IntAt(rest, 0) <= IntAt(c, 0)
      BY <1>0, <1>1, <1>4, SmallerBytes
    <2> QED BY <1>0, <1>2, <2>1, IntAtType
  <1>6. v % Base = rest[1]
    <2>1. PICK f : Sums(f, rest, 0) /\ IntAt(rest, 0) = f[IntSize]
      BY <1>0, IntAtSums
    <2>2. 0 \in 0 .. IntSize - 1 /\ 0 + (0 + 1) = 1 /\ 1 <= Len(rest)
      BY <1>0
    <2>3. (f[IntSize] \div Power[0]) % Base = At(rest, 0 + (0 + 1))
      BY <1>0, <2>1, <2>2, ByteOfSum
    <2>4. At(rest, 1) = rest[1]
      BY <2>2 DEF At
    <2>5. v \div 1 = v
      BY <1>5
    <2> QED BY <1>0, <2>1, <2>2, <2>3, <2>4, <2>5
  <1>7. v % Base = t % Base \/ v % Base = 0
    <2>1. 1 \in 1 .. IntSize
      BY <1>0
    <2> QED BY <1>1, <1>3, <1>6, <2>1
  <1> HIDE DEF v
  <1>8. 1 % Base = 1 /\ 2 % Base # 1
    <2>1. CASE Base = 2
      BY <2>1
    <2>2. CASE Base # 2
      <3>1. Base > 2
        BY <1>0, <2>2
      <3>2. 1 % Base = 1 /\ 2 % Base = 2
        BY <1>0, <3>1
      <3> QED BY <3>2
    <2> QED BY <2>1, <2>2
  <1>9. ASSUME v \in {1, 2} PROVE v = t
    <2> SUFFICES ASSUME v # t PROVE FALSE
      OBVIOUS
    <2>1. v = 1 /\ t = 2
      BY <1>5, <1>9
    <2> QED BY <1>7, <1>8, <2>1
  <1> QED BY <1>9 DEF v

\* The announcement of a payload that came short still says that there is a row,
\* and its type is the letter's or none of the two.
LEMMA AnnouncementZeroed ==
  ASSUME NEW l \in Letters, NEW w, w = PayloadOf(l, 0), Len(w) < Power[IntSize],
         NEW j \in 1 .. Len(w)
  PROVE  LET z == ZeroTail(w, j)
             rest == From(z, IntSize)
         IN /\ z \in Seq(Byte) /\ rest \in Seq(Byte)
            /\ \A b \in Filled(z, IntSize) : IntAt(b, 0) = 1
            /\ \A b \in Filled(rest, IntSize) :
                 IntAt(b, 0) \in {MsgTx, MsgBlock} => IntAt(b, 0) = l.type
  <1> DEFINE t == l.type
             z == ZeroTail(w, j)
             rest == From(z, IntSize)
  <1>0. /\ IntSize \in Nat \ {0} /\ HashSize \in Nat /\ IntSize <= HashSize
        /\ t \in {1, 2} /\ Len(l.items) \in Nat /\ Power[IntSize] \in Nat /\ 1 \in Nat /\ 0 \in Nat
    BY ByteIs, LetterIs, PowerIs DEF MsgTx, MsgBlock
  <1>1. w = InvBytes(t, Len(l.items)) /\ t \in Nat
    BY <1>0 DEF PayloadOf
  <1> HIDE DEF t
  <1>2. /\ w \in Seq(Byte) /\ Len(w) = 2 * IntSize + HashSize
        /\ HasAt(w, 0, IntBytes(1)) /\ HasAt(w, IntSize, IntBytes(t))
    BY <1>0, <1>1, InvBytesType
  <1>3. j \in Nat /\ j >= 1 /\ Len(w) \in Nat
    BY <1>2
  <1>4. z \in Seq(Byte) /\ Len(z) = Len(w) /\ \A i \in 1 .. Len(w) : z[i] = IF i <= j THEN w[i] ELSE 0
    BY <1>2, <1>3, ZeroTailType
  <1> HIDE DEF z
  <1>5. 1 < Power[IntSize] /\ t < Power[IntSize]
    <2> DEFINE top == Power[IntSize]
    <2>1. 2 * IntSize + HashSize < top /\ top \in Nat
      BY <1>0, <1>2
    <2> HIDE DEF top
    <2>2. 1 < top /\ t < top
      BY <1>0, <2>1
    <2> QED BY <2>2 DEF top
  <1>6. IntBytes(1) \in Seq(Byte) /\ Len(IntBytes(1)) = IntSize
        /\ IntBytes(t) \in Seq(Byte) /\ Len(IntBytes(t)) = IntSize
    BY <1>0, <1>1, IntBytesType
  <1>7. HasAt(z, 0, IntBytes(1))
    <2> DEFINE c == IntBytes(1)
    <2>1. c[1] = 1 /\ \A i \in 2 .. IntSize : c[i] = 0
      BY OneBytes
    <2>2. Len(c) = IntSize /\ HasAt(w, 0, c)
      BY <1>2, <1>6
    <2> HIDE DEF c
    <2>3. ASSUME NEW i \in 1 .. Len(c) PROVE z[0 + i] = c[i]
      <3>1. 0 + i = i /\ i \in 1 .. Len(w) /\ i \in 1 .. IntSize
        BY <1>0, <1>2, <2>2
      <3>2. w[i] = c[i]
        BY <2>2, <3>1 DEF HasAt
      <3>3. CASE i = 1
        BY <1>3, <1>4, <3>1, <3>2, <3>3
      <3>4. CASE i # 1
        <4>1. c[i] = 0
          BY <1>0, <2>1, <3>1, <3>4
        <4> QED BY <1>4, <3>1, <3>2, <4>1
      <3> QED BY <3>3, <3>4
    <2>4. 0 + Len(c) <= Len(z)
      BY <1>0, <1>2, <1>4, <2>2
    <2> QED BY <2>3, <2>4 DEF HasAt, c
  <1>8. \A b \in Filled(z, IntSize) : IntAt(b, 0) = 1
    BY <1>0, <1>4, <1>5, <1>7, FilledRead
  <1>9. rest \in Seq(Byte) /\ Len(rest) = IntSize + HashSize
        /\ \A i \in 1 .. IntSize + HashSize : rest[i] = z[IntSize + i]
    <2>1. IntSize <= Len(z) /\ Len(z) - IntSize = IntSize + HashSize
      BY <1>0, <1>2, <1>4
    <2>2. rest \in Seq(Byte) /\ Len(rest) = Len(z) - IntSize
      BY <1>0, <1>4, <2>1, FromType
    <2>3. \A i \in 1 .. Len(z) - IntSize : rest[i] = z[IntSize + i]
      BY <1>0, <1>4, FromType
    <2> QED BY <2>1, <2>2, <2>3
  <1> HIDE DEF rest
  <1>10. \A i \in 1 .. IntSize : rest[i] = IntBytes(t)[i] \/ rest[i] = 0
    <2> SUFFICES ASSUME NEW i \in 1 .. IntSize PROVE rest[i] = IntBytes(t)[i] \/ rest[i] = 0
      OBVIOUS
    <2>1. i \in 1 .. Len(IntBytes(t)) /\ i \in 1 .. IntSize + HashSize /\ IntSize + i \in 1 .. Len(w)
      BY <1>0, <1>2, <1>6
    <2>2. w[IntSize + i] = IntBytes(t)[i]
      BY <1>2, <2>1 DEF HasAt
    <2>3. rest[i] = z[IntSize + i]
      BY <1>9, <2>1
    <2> QED BY <1>4, <2>1, <2>2, <2>3
  <1>11. IntSize <= Len(rest)
    BY <1>0, <1>9
  <1>12. IntAt(rest, 0) \in {1, 2} => IntAt(rest, 0) = t
    BY <1>0, <1>5, <1>9, <1>10, <1>11, TypeStays
  <1>13. \A b \in Filled(rest, IntSize) : IntAt(b, 0) = IntAt(rest, 0)
    BY <1>9, <1>11, FilledSame
  <1>14. \A b \in Filled(rest, IntSize) : IntAt(b, 0) \in {MsgTx, MsgBlock} => IntAt(b, 0) = t
    BY <1>12, <1>13 DEF MsgTx, MsgBlock
  <1> QED BY <1>4, <1>8, <1>9, <1>14 DEF z, rest, t

-----------------------------------------------------------------------------
(***************************************************************************)
(* The inductive invariant of ShortPayloadOnlyZeroes: where the receiver is*)
(* when only payloads came short.                                          *)
(***************************************************************************)
\* Only payloads came short, and the letter is plain.
OnlyPayloads == \A i \in DOMAIN cuts : cuts[i] = "payload"
Plain == letter \in PlainLetters

\* j bytes of the payload of message m, at least one, have been received.
CameTo(m, j) == j \in 1 .. Len(PayloadOf(letter, m)) /\ FlowAt(Upto(3 * m + 2) + j)
\* The payload is that of message m, or what came of it.
Came(m) == \E j \in Nat : CameTo(m, j) /\ msg.payload = ZeroTail(PayloadOf(letter, m), j)

InLetter == inv.rows = 0 /\ inv.type = letter.type /\ inv.left > 0
More == Len(box) < Len(letter.items)

\* The announcement is received, is read, and its row is.
Fresh == at \in Reading /\ inv = NoInv /\ box = << >> /\ AtMessage(0)
AnnouncementIn ==
  at = "accept" /\ inv = NoInv /\ box = << >> /\ msg.command = "inv" /\ Came(0)
RowIn ==
  /\ at = "row" /\ inv.rows = 1 /\ box = << >>
  /\ \E j \in Nat : CameTo(0, j) /\ inv.rest = From(ZeroTail(PayloadOf(letter, 0), j), IntSize)
\* The next item is waited for, where the rest of the last payload may come first;
\* it is received; it waits for the handler.
Waiting == at = "command" /\ InLetter /\ \E j \in Nat : CameTo(Len(box), j)
ItemComing == at \in {"size", "payload"} /\ InLetter /\ More /\ AtMessage(Len(box) + 1)
ItemIn ==
  at = "item" /\ InLetter /\ More /\ msg.command = ItemName(letter.type) /\ Came(Len(box) + 1)
\* What a short payload left behind was read as a command: the handler will abort.
Stray == at \in {"size", "payload", "item"} /\ InLetter /\ msg.command # ItemName(letter.type)
Over == (at = "row" /\ inv.rows = 0) \/ at \in Ends

ZeroedBox ==
  /\ Len(box) <= Len(letter.items)
  /\ \A i \in 1 .. Len(box) :
       OnlyZeroed(ItemBytes(letter, box[i]), ItemBytes(letter, letter.items[i]))
InPhase ==
  Fresh \/ AnnouncementIn \/ RowIn \/ Waiting \/ ItemComing \/ ItemIn \/ Stray \/ Over

ZeroesInv == OnlyPayloads /\ Plain => ZeroedBox /\ InPhase

\* What a plain letter is, message by message.
LEMMA PlainIs ==
  ASSUME NEW l \in PlainLetters
  PROVE  /\ l \in Letters
         /\ \A m \in 0 .. Len(l.items) : Len(PayloadOf(l, m)) < Power[IntSize]
         /\ \A m \in 0 .. Len(l.items) : \A p \in 1 .. Len(PayloadOf(l, m)) - 1 :
              ~IsPrefix(Text(ItemName(l.type)), From(PayloadOf(l, m), p) \o Name[ItemName(l.type)])
  <1>1. /\ l \in Letters
        /\ \A k \in 1 .. Len(l.items) + 1 :
             LET payload == SendsOfLetter[l][3 * k]
                 name == ItemName(l.type)
             IN /\ Len(payload) < Power[IntSize]
                /\ \A p \in 1 .. Len(payload) - 1 :
                     ~IsPrefix(Text(name), From(payload, p) \o Name[name])
    BY DEF PlainLetters
  <1>2. Len(l.items) \in Nat
    BY <1>1, LetterIs
  <1>3. ASSUME NEW m \in 0 .. Len(l.items)
        PROVE  /\ Len(PayloadOf(l, m)) < Power[IntSize]
               /\ \A p \in 1 .. Len(PayloadOf(l, m)) - 1 :
                    ~IsPrefix(Text(ItemName(l.type)),
                              From(PayloadOf(l, m), p) \o Name[ItemName(l.type)])
    <2>1. m + 1 \in 1 .. Len(l.items) + 1 /\ 3 * (m + 1) = 3 * m + 3
      BY <1>2
    <2>2. SendsOfLetter[l][3 * m + 3] = PayloadOf(l, m)
      BY <1>1, SendsAre
    <2>3. SendsOfLetter[l][3 * (m + 1)] = PayloadOf(l, m)
      BY <2>1, <2>2
    <2> QED BY <1>1, <2>1, <2>3
  <1> QED BY <1>1, <1>3

\* Where the payload of a message stands, and the next message's name behind it.
LEMMA PayloadPlace ==
  ASSUME letter \in Letters, NEW m \in 0 .. Len(letter.items)
  PROVE  /\ PayloadOf(letter, m) \in Seq(Byte) /\ Len(PayloadOf(letter, m)) \in Nat \ {0}
         /\ Upto(3 * m + 2) \in Nat
         /\ HasAt(Whole, Upto(3 * m + 2), PayloadOf(letter, m))
         /\ Upto(3 * m + 3) = Upto(3 * m + 2) + Len(PayloadOf(letter, m))
  <1> DEFINE k == 3 * m + 2
  <1>1. /\ k \in 0 .. Len(Sends) - 1 /\ Sends[k + 1] = PayloadOf(letter, m)
        /\ PayloadOf(letter, m) \in Seq(Byte) /\ Len(PayloadOf(letter, m)) \in Nat \ {0}
    BY MessageSends
  <1>2. k \in Nat /\ k + 1 = 3 * m + 3
    <2>1. Len(letter.items) \in Nat
      BY LetterIs
    <2> QED BY <2>1
  <1> HIDE DEF k
  <1>3. /\ Upto(k) \in Nat /\ HasAt(Whole, Upto(k), Sends[k + 1])
        /\ Upto(k + 1) = Upto(k) + Len(Sends[k + 1])
    BY <1>1, <1>2, StreamIs
  <1> QED BY <1>1, <1>2, <1>3 DEF k

\* What came of a payload does not change when nothing is received.
LEMMA CameStays ==
  ASSUME TypeInv, NEW m \in 0 .. Len(letter.items), NEW j \in Nat, CameTo(m, j),
         (Send \/ Close \/ Break) \/ UNCHANGED << letter, sent, link, wire >>
  PROVE  CameTo(m, j)'
  <1>1. letter' = letter
    BY DEF Send, Close, Break
  <1>2. PICK q \in Nat : q = Upto(3 * m + 2) + j
    <2>1. Upto(3 * m + 2) \in Nat
      BY PayloadPlace DEF TypeInv
    <2> QED BY <2>1
  <1>3. FlowAt(q)
    BY <1>2 DEF CameTo
  <1>4. FlowAt(q)'
    <2>1. CASE Send \/ Close \/ Break
      BY <1>3, <2>1, SenderFlow
    <2>2. CASE UNCHANGED << letter, sent, link, wire >>
      BY <1>3, <2>2 DEF FlowAt, Upto, Whole, Sends
    <2> QED BY <2>1, <2>2
  <1>5. Upto(3 * m + 2)' + j = q
    BY <1>1, <1>2 DEF Upto
  <1>6. j \in 1 .. Len(PayloadOf(letter, m))'
    BY <1>1 DEF CameTo, PayloadOf
  <1>7. FlowAt(Upto(3 * m + 2) + j)'
    BY <1>4, <1>5
  <1> QED BY <1>6, <1>7 DEF CameTo

\* Where only payloads came short, the other receives did not.
LEMMA OnlyPayloadsStay ==
  ASSUME TypeInv, [Next]_vars, OnlyPayloads'
  PROVE  OnlyPayloads /\ (at \in Reading /\ at # "payload" => cuts' = cuts)
  <1>1. cuts \in Seq(Reading) /\ Len(cuts) \in Nat
    BY DEF TypeInv
  <1>2. ASSUME NEW n, NEW k, Receive(n, k), at \in Reading
        PROVE  OnlyPayloads /\ (at # "payload" => cuts' = cuts)
    <2>1. CASE cuts' = cuts
      BY <2>1 DEF OnlyPayloads
    <2>2. CASE cuts' = Append(cuts, at)
      <3>1. /\ \A i \in 1 .. Len(cuts) : cuts'[i] = cuts[i]
            /\ cuts'[Len(cuts) + 1] = at /\ DOMAIN cuts' = 1 .. Len(cuts) + 1
            /\ DOMAIN cuts = 1 .. Len(cuts)
        BY <1>1, <1>2, <2>2, AppendProperties
      <3>2. \A i \in DOMAIN cuts' : cuts'[i] = "payload"
        BY DEF OnlyPayloads
      <3>3. \A i \in 1 .. Len(cuts) : i \in 1 .. Len(cuts) + 1
        BY <1>1
      <3>4. Len(cuts) + 1 \in 1 .. Len(cuts) + 1
        BY <1>1
      <3>5. at = "payload"
        BY <3>1, <3>2, <3>4
      <3>6. \A i \in DOMAIN cuts : cuts[i] = "payload"
        BY <3>1, <3>2, <3>3
      <3> QED BY <3>5, <3>6 DEF OnlyPayloads
    <2> QED BY <1>2, <2>1, <2>2 DEF Receive
  <1>3. CASE ReceiveCommand
    BY <1>2, <1>3 DEF ReceiveCommand, Reading
  <1>4. CASE ReceiveSize
    BY <1>2, <1>4 DEF ReceiveSize, Reading
  <1>5. CASE ReceivePayload
    BY <1>2, <1>5 DEF ReceivePayload, Reading
  <1>6. ASSUME cuts' = cuts PROVE OnlyPayloads
    BY <1>6 DEF OnlyPayloads
  <1>7. CASE Send \/ Close \/ Break \/ ReceiveThrows \/ InvDone
    BY <1>6, <1>7 DEF Send, Close, Break, ReceiveThrows, InvDone
  <1>8. CASE HandleAccept \/ NextRow \/ HandleItem
    BY <1>6, <1>8 DEF HandleAccept, NextRow, HandleItem
  <1>9. CASE UNCHANGED vars
    BY <1>6, <1>9 DEF vars
  <1> QED BY <1>3, <1>4, <1>5, <1>7, <1>8, <1>9 DEF Next, Receiver

\* The box stays while nothing is put into it.
LEMMA ZeroedStays ==
  ASSUME ZeroedBox, UNCHANGED << letter, box >>
  PROVE  ZeroedBox'
  BY DEF ZeroedBox

\* What came of a payload stays while the receiver does.
LEMMA CameKept ==
  ASSUME TypeInv, NEW m \in 0 .. Len(letter.items), Came(m), UNCHANGED msg,
         (Send \/ Close \/ Break) \/ UNCHANGED << letter, sent, link, wire >>
  PROVE  Came(m)'
  <1>1. PICK j \in Nat : CameTo(m, j) /\ msg.payload = ZeroTail(PayloadOf(letter, m), j)
    BY DEF Came
  <1>2. CameTo(m, j)'
    BY <1>1, CameStays
  <1>3. msg'.payload = ZeroTail(PayloadOf(letter, m), j)'
    BY <1>1 DEF Send, Close, Break, ZeroTail, PayloadOf
  <1> QED BY <1>2, <1>3 DEF Came

\* The messages a phase speaks of are messages of the letter.
LEMMA PhaseMessages ==
  ASSUME TypeInv, ZeroedBox
  PROVE  /\ 0 \in 0 .. Len(letter.items)
         /\ Len(box) \in 0 .. Len(letter.items) /\ Len(box) \in Nat
         /\ More => Len(box) + 1 \in 1 .. Len(letter.items) /\ Len(box) + 1 \in 0 .. Len(letter.items)
  <1>1. Len(box) \in Nat /\ Len(letter.items) \in Nat
    BY BoxLength
  <1> QED BY <1>1 DEF More, ZeroedBox

\* The receiver's phase outlasts what the sender does.
LEMMA ZeroesSender ==
  ASSUME TypeInv, ZeroedBox, InPhase, Send \/ Close \/ Break
  PROVE  ZeroedBox' /\ InPhase'
  <1>1. UNCHANGED << letter, at, msg, inv, box >>
    BY DEF Send, Close, Break
  <1>2. ZeroedBox'
    BY <1>1, ZeroedStays
  <1>3. CASE Fresh
    <2>1. AtMessage(0)'
      BY <1>3, PhaseMessages, MessageSender DEF Fresh
    <2> QED BY <1>1, <1>2, <1>3, <2>1 DEF InPhase, Fresh
  <1>4. CASE AnnouncementIn
    <2>1. Came(0)'
      BY <1>1, <1>4, PhaseMessages, CameKept DEF AnnouncementIn
    <2> QED BY <1>1, <1>2, <1>4, <2>1 DEF InPhase, AnnouncementIn
  <1>5. CASE RowIn
    <2>1. PICK j \in Nat :
            CameTo(0, j) /\ inv.rest = From(ZeroTail(PayloadOf(letter, 0), j), IntSize)
      BY <1>5 DEF RowIn
    <2>2. CameTo(0, j)'
      BY <2>1, PhaseMessages, CameStays
    <2>3. inv'.rest = From(ZeroTail(PayloadOf(letter, 0), j), IntSize)'
      BY <1>1, <2>1 DEF From, ZeroTail, PayloadOf
    <2> QED BY <1>1, <1>2, <1>5, <2>2, <2>3 DEF InPhase, RowIn
  <1>6. CASE Waiting
    <2>1. PICK m \in 0 .. Len(letter.items) : m = Len(box)
      BY PhaseMessages
    <2>2. PICK j \in Nat : CameTo(m, j)
      BY <1>6, <2>1 DEF Waiting
    <2>3. CameTo(m, j)'
      BY <2>2, CameStays
    <2>4. CameTo(Len(box), j)'
      BY <1>1, <2>1, <2>3
    <2> QED BY <1>1, <1>2, <1>6, <2>4 DEF InPhase, Waiting, InLetter
  <1>7. CASE ItemComing
    <2>1. PICK m \in 0 .. Len(letter.items) : m = Len(box) + 1
      BY <1>7, PhaseMessages DEF ItemComing
    <2>2. AtMessage(m)'
      BY <1>7, <2>1, MessageSender DEF ItemComing
    <2>3. AtMessage(Len(box) + 1)'
      BY <1>1, <2>1, <2>2
    <2> QED BY <1>1, <1>2, <1>7, <2>3 DEF InPhase, ItemComing, InLetter, More
  <1>8. CASE ItemIn
    <2>1. PICK m \in 0 .. Len(letter.items) : m = Len(box) + 1
      BY <1>8, PhaseMessages DEF ItemIn
    <2>2. Came(m)'
      BY <1>1, <1>8, <2>1, CameKept DEF ItemIn
    <2>3. Came(Len(box) + 1)'
      BY <1>1, <2>1, <2>2
    <2> QED BY <1>1, <1>2, <1>8, <2>3 DEF InPhase, ItemIn, InLetter, More
  <1>9. CASE Stray \/ Over
    BY <1>1, <1>2, <1>9 DEF InPhase, Stray, InLetter, Over
  <1> QED BY <1>3, <1>4, <1>5, <1>6, <1>7, <1>8, <1>9 DEF InPhase

\* Nor does it change by itself.
LEMMA ZeroesStutter ==
  ASSUME ZeroedBox, InPhase, UNCHANGED vars
  PROVE  ZeroedBox' /\ InPhase'
  <1>1. ZeroedBox'
    BY ZeroedStays DEF vars
  <1>2. InPhase'
    BY DEF vars, InPhase, Fresh, AnnouncementIn, RowIn, Waiting, ItemComing, ItemIn, Stray, Over,
           InLetter, More, Came, CameTo, AtMessage, Flow, FlowAt, Upto, Whole, Sends, Off,
           NameOf, PayloadOf
  <1> QED BY <1>1, <1>2

\* A receive that throws ends the handler, and so does the last row.
LEMMA ZeroesEnds ==
  ASSUME ZeroedBox, ReceiveThrows \/ InvDone
  PROVE  ZeroedBox' /\ InPhase'
  <1>1. UNCHANGED << letter, box >> /\ at' \in Ends
    BY DEF ReceiveThrows, InvDone, Ends
  <1> QED BY <1>1, ZeroedStays DEF InPhase, Over

\* The announcement read has one row, whatever of it came.
LEMMA ZeroesAccept ==
  ASSUME TypeInv, Plain, ZeroedBox, InPhase, HandleAccept
  PROVE  ZeroedBox' /\ InPhase'
  <1>1. at = "accept" /\ UNCHANGED << letter, sent, link, wire, box >>
    BY DEF HandleAccept
  <1>2. AnnouncementIn
    BY <1>1 DEF InPhase, Fresh, RowIn, Waiting, ItemComing, ItemIn, Stray, Over, Reading, Ends
  <1>3. ZeroedBox'
    BY <1>1, ZeroedStays
  <1>4. 0 \in 0 .. Len(letter.items)
    BY PhaseMessages
  <1>5. PICK j \in Nat : CameTo(0, j) /\ msg.payload = ZeroTail(PayloadOf(letter, 0), j)
    BY <1>2 DEF AnnouncementIn, Came
  <1>6. PICK w : w = PayloadOf(letter, 0)
    OBVIOUS
  <1>7. \A b \in Filled(ZeroTail(w, j), IntSize) : IntAt(b, 0) = 1
    <2>1. letter \in Letters /\ Len(w) < Power[IntSize]
      BY <1>4, <1>6, PlainIs DEF Plain
    <2>2. j \in 1 .. Len(w)
      BY <1>5, <1>6 DEF CameTo
    <2> QED BY <1>6, <2>1, <2>2, AnnouncementZeroed
  <1>8. PICK bytes \in Filled(msg.payload, IntSize) :
          LET rows == IntAt(bytes, 0)
          IN IF rows * (IntSize + HashSize) > Memory
               THEN at' = "threw" /\ inv' = inv
               ELSE /\ at' = "row"
                    /\ inv' = [NoInv EXCEPT !.rows = rows, !.rest = From(msg.payload, IntSize)]
    BY <1>2 DEF HandleAccept, AnnouncementIn
  <1>9. IntAt(bytes, 0) = 1
    BY <1>5, <1>6, <1>7, <1>8
  <1>10. CASE at' = "threw"
    BY <1>3, <1>10 DEF InPhase, Over, Ends
  <1>11. CASE at' # "threw"
    <2>1. /\ at' = "row"
          /\ inv' = [NoInv EXCEPT !.rows = 1, !.rest = From(msg.payload, IntSize)]
      BY <1>8, <1>9, <1>11
    <2>2. inv'.rows = 1 /\ inv'.rest = From(ZeroTail(PayloadOf(letter, 0), j), IntSize)
      BY <1>5, <2>1 DEF NoInv
    <2>3. CameTo(0, j)'
      BY <1>1, <1>4, <1>5, CameStays
    <2>4. inv'.rest = From(ZeroTail(PayloadOf(letter, 0), j), IntSize)'
      BY <1>1, <2>2 DEF From, ZeroTail, PayloadOf
    <2>5. box' = << >>
      BY <1>1, <1>2 DEF AnnouncementIn
    <2>6. RowIn'
      BY <2>1, <2>2, <2>3, <2>4, <2>5 DEF RowIn
    <2> QED BY <1>3, <2>6 DEF InPhase
  <1> QED BY <1>10, <1>11

\* The row announces items of the letter's type, or none.
LEMMA ZeroesNextRow ==
  ASSUME TypeInv, Plain, ZeroedBox, InPhase, NextRow
  PROVE  ZeroedBox' /\ InPhase'
  <1>1. at = "row" /\ inv.rows > 0 /\ UNCHANGED << letter, sent, link, wire, box >>
    BY DEF NextRow
  <1>2. RowIn
    BY <1>1 DEF InPhase, Fresh, AnnouncementIn, Waiting, ItemComing, ItemIn, Stray, Over, Reading, Ends
  <1>3. ZeroedBox'
    BY <1>1, ZeroedStays
  <1>4. 0 \in 0 .. Len(letter.items)
    BY PhaseMessages
  <1>5. PICK j \in Nat :
          CameTo(0, j) /\ inv.rest = From(ZeroTail(PayloadOf(letter, 0), j), IntSize)
    BY <1>2 DEF RowIn
  <1>6. PICK w : w = PayloadOf(letter, 0)
    OBVIOUS
  <1>7. \A b \in Filled(inv.rest, IntSize) :
          IntAt(b, 0) \in {MsgTx, MsgBlock} => IntAt(b, 0) = letter.type
    <2>1. letter \in Letters /\ Len(w) < Power[IntSize]
      BY <1>4, <1>6, PlainIs DEF Plain
    <2>2. j \in 1 .. Len(w)
      BY <1>5, <1>6 DEF CameTo
    <2>3. inv.rest = From(ZeroTail(w, j), IntSize)
      BY <1>5, <1>6
    <2> QED BY <1>6, <2>1, <2>2, <2>3, AnnouncementZeroed
  <1> DEFINE hash == From(inv.rest, IntSize)
             rest == From(hash, HashEnd(hash))
             rows == [inv EXCEPT !.rows = @ - 1, !.rest = rest]
  <1>8. PICK type \in {IntAt(b, 0) : b \in Filled(inv.rest, IntSize)},
             amount \in {IntAt(b, 0) : b \in Filled(Unspaced(hash), IntSize)} :
          IF type \in {MsgTx, MsgBlock} /\ amount > 0
            THEN inv' = [rows EXCEPT !.type = type, !.left = amount] /\ at' = "command"
            ELSE inv' = rows /\ at' = "row"
    BY DEF NextRow
  <1>9. inv \in InvType /\ inv.rows = 1
    BY <1>2 DEF TypeInv, RowIn
  <1>10. rows.rows = 0
    BY <1>9 DEF InvType
  <1>11. CASE type \in {MsgTx, MsgBlock} /\ amount > 0
    <2>1. inv' = [rows EXCEPT !.type = type, !.left = amount] /\ at' = "command"
      BY <1>8, <1>11
    <2>2. type = letter.type
      BY <1>7, <1>8, <1>11
    <2>3. inv'.rows = 0 /\ inv'.type = type /\ inv'.left = amount
      BY <1>9, <1>10, <2>1 DEF InvType
    <2>4. InLetter'
      BY <1>1, <1>11, <2>2, <2>3 DEF InLetter
    <2>5. CameTo(0, j)'
      BY <1>1, <1>4, <1>5, CameStays
    <2>6. Len(box') = 0
      BY <1>1, <1>2 DEF RowIn
    <2>7. CameTo(Len(box), j)'
      BY <2>5, <2>6
    <2>8. Waiting'
      BY <2>1, <2>4, <2>7 DEF Waiting
    <2> QED BY <1>3, <2>8 DEF InPhase
  <1>12. CASE ~(type \in {MsgTx, MsgBlock} /\ amount > 0)
    <2>1. inv' = rows /\ at' = "row"
      BY <1>8, <1>12
    <2> QED BY <1>3, <1>10, <2>1 DEF InPhase, Over
  <1> QED BY <1>11, <1>12

\* The receiver begins with the announcement.
LEMMA ZeroesInit == Init => ZeroesInv
  <1> SUFFICES ASSUME Init PROVE ZeroedBox /\ InPhase
    BY DEF ZeroesInv
  <1>1. TypeInv
    BY TypeInit
  <1>2. ZeroedBox
    <2>1. Len(letter.items) \in Nat
      BY <1>1, BoxLength
    <2>2. box = << >> /\ Len(<< >>) = 0 /\ 1 .. 0 = {}
      BY DEF Init
    <2> QED BY <2>1, <2>2 DEF ZeroedBox
  <1>3. AtMessage(0)
    <2>1. 3 * 0 + Off = 0
      BY DEF Init, Off
    <2>2. Whole \in Seq(Byte) /\ Upto(0) = 0
      BY <1>1, StreamIs DEF TypeInv
    <2>3. HasAt(Whole, 0, << >>)
      <3>1. 0 + Len(<< >>) = 0 /\ 0 <= Len(Whole) /\ 1 .. Len(<< >>) = {}
        BY <2>2
      <3> QED BY <3>1 DEF HasAt
    <2>4. wire = << >> /\ sent = 0 /\ link = "open" /\ 0 + Len(<< >>) = 0
      BY DEF Init
    <2>5. Flow(0)
      BY <2>2, <2>3, <2>4 DEF Flow, FlowAt
    <2>6. Flow(3 * 0 + Off)
      BY <2>1, <2>5
    <2> QED BY <2>6 DEF Init, AtMessage
  <1>4. Fresh
    BY <1>3 DEF Init, Fresh, Reading
  <1> QED BY <1>2, <1>4 DEF InPhase

\* An item is put into the box as it was sent, but for zeros, or the handler ends.
LEMMA ZeroesItem ==
  ASSUME TypeInv, Plain, ZeroedBox, InPhase, HandleItem
  PROVE  ZeroedBox' /\ InPhase'
  <1>1. at = "item" /\ UNCHANGED << letter, sent, link, wire >>
    BY DEF HandleItem
  <1>2. ItemIn \/ Stray
    BY <1>1 DEF InPhase, Fresh, AnnouncementIn, RowIn, Waiting, ItemComing, Over, Reading, Ends
  <1>3. ASSUME box' = box, at' \in Ends
        PROVE  ZeroedBox' /\ InPhase'
    BY <1>1, <1>3, ZeroedStays DEF InPhase, Over
  <1>4. CASE msg.command # ItemName(inv.type)
    <2>1. box' = box /\ at' \in Ends
      BY <1>4 DEF HandleItem, Ends
    <2> QED BY <1>3, <2>1
  <1>5. CASE msg.command = ItemName(inv.type)
    <2>1. ItemIn
      BY <1>2, <1>5 DEF Stray, InLetter
    <2>2. PICK m \in 1 .. Len(letter.items) : m = Len(box) + 1
      BY <2>1, PhaseMessages DEF ItemIn
    <2>3. PICK j \in Nat : CameTo(m, j) /\ msg.payload = ZeroTail(PayloadOf(letter, m), j)
      BY <2>1, <2>2 DEF ItemIn, Came
    <2>4. PICK w : w = PayloadOf(letter, m)
      OBVIOUS
    <2>5. PICK bytes \in Filled(msg.payload, IntSize) :
            LET size == IntAt(bytes, 0)
                data == DataOf(msg.payload, size)
            IN \/ size > Memory /\ at' = "threw" /\ UNCHANGED << inv, box >>
               \/ size <= Memory /\ Overrun(inv.type, data)
                    /\ at' = "undefined" /\ UNCHANGED << inv, box >>
               \/ /\ size <= Memory /\ ~Overrun(inv.type, data)
                  /\ box' = Append(box, Scanned(inv.type, data))
                  /\ inv' = OneLess(inv)
                  /\ \/ at' = IF inv.left = 1 THEN "row" ELSE "command"
                     \/ inv.type = MsgBlock /\ at' = "hung"
      BY <1>5 DEF HandleItem
    <2> DEFINE data == DataOf(msg.payload, IntAt(bytes, 0))
    <2>6. CASE at' \in Ends /\ box' = box
      BY <1>3, <2>6
    <2>7. CASE ~(at' \in Ends /\ box' = box)
      <3>1. /\ ~Overrun(inv.type, data) /\ box' = Append(box, Scanned(inv.type, data))
            /\ inv' = OneLess(inv)
            /\ at' \in {IF inv.left = 1 THEN "row" ELSE "command", "hung"}
        BY <2>5, <2>7 DEF Ends
      <3>2. inv.type = letter.type /\ inv.rows = 0 /\ inv.left > 0 /\ More
        BY <2>1 DEF ItemIn, InLetter
      <3> DEFINE item == Scanned(letter.type, data)
      <3>3. OnlyZeroed(ItemBytes(letter, item), ItemBytes(letter, letter.items[m]))
        <4>1. letter \in Letters /\ Len(w) < Power[IntSize]
          <5>1. m \in 0 .. Len(letter.items)
            OBVIOUS
          <5> QED BY <2>4, <5>1, PlainIs DEF Plain
        <4>2. j \in 1 .. Len(w)
          BY <2>3, <2>4 DEF CameTo
        <4>3. bytes \in Filled(ZeroTail(w, j), IntSize) /\ data = DataOf(ZeroTail(w, j), IntAt(bytes, 0))
          BY <2>3, <2>4, <2>5
        <4>4. ~Overrun(letter.type, data)
          BY <3>1, <3>2
        <4> HIDE DEF data
        <4> QED BY <2>4, <4>1, <4>2, <4>3, <4>4, ItemZeroed
      <3>4. box' = Append(box, item)
        BY <3>1, <3>2
      <3> HIDE DEF item, data
      <3> DEFINE k == Len(box)
      <3>5. k \in Nat /\ k + 1 = m
        BY <2>2, BoxLength
      <3>6. Len(box') = k + 1 /\ box'[k + 1] = item /\ \A i \in 1 .. k : box'[i] = box[i]
        <4>1. IsSeq(box)
          BY DEF TypeInv
        <4>2. DOMAIN box = 1 .. Len(box)
          BY <4>1, AppendIsSeq
        <4> QED BY <3>4, <4>1, <4>2, AppendIsSeq
      <3> HIDE DEF k
      <3>7. ZeroedBox'
        <4>1. \A i \in 1 .. k :
                OnlyZeroed(ItemBytes(letter, box[i]), ItemBytes(letter, letter.items[i]))
          BY DEF ZeroedBox, k
        <4>2. ASSUME NEW i \in 1 .. k + 1
              PROVE  OnlyZeroed(ItemBytes(letter, box'[i]), ItemBytes(letter, letter.items[i]))
          <5>1. CASE i = k + 1
            BY <3>3, <3>5, <3>6, <5>1
          <5>2. CASE i # k + 1
            <6>1. i \in 1 .. k
              BY <3>5, <5>2
            <6>2. box'[i] = box[i]
              BY <3>6, <6>1
            <6> QED BY <4>1, <6>1, <6>2
          <5> QED BY <5>1, <5>2
        <4>3. k + 1 <= Len(letter.items)
          <5>1. m <= Len(letter.items)
            OBVIOUS
          <5> QED BY <3>5, <5>1
        <4>4. Len(box') = k + 1 /\ letter' = letter
          BY <1>1, <3>6
        <4>5. \A i \in 1 .. Len(box') :
                OnlyZeroed(ItemBytes(letter', box'[i]), ItemBytes(letter', letter'.items[i]))
          BY <4>2, <4>4
        <4>6. Len(box') <= Len(letter'.items)
          BY <4>3, <4>4
        <4> QED BY <4>5, <4>6 DEF ZeroedBox, ItemBytes
      <3>8. /\ inv'.left = inv.left - 1 /\ inv'.rows = 0
            /\ inv'.type = (IF inv.left = 1 THEN 0 ELSE letter.type)
        <4>1. inv \in InvType /\ inv.left > 0 /\ (inv.left > 0 <=> inv.type # 0)
          BY <3>2 DEF TypeInv
        <4> QED BY <3>1, <3>2, <4>1, OneLessType
      <3>9. CASE at' = "hung" \/ inv.left = 1
        BY <3>1, <3>7, <3>8, <3>9 DEF InPhase, Over, Ends
      <3>10. CASE at' # "hung" /\ inv.left # 1
        <4>1. inv.left \in Nat
          BY DEF TypeInv, InvType
        <4>2. inv'.left > 0
          BY <3>2, <3>8, <3>10, <4>1
        <4>3. m \in 0 .. Len(letter.items)
          OBVIOUS
        <4>4. CameTo(m, j)'
          BY <1>1, <2>3, <4>3, CameStays
        <4>5. CameTo(Len(box), j)'
          BY <3>5, <3>6, <4>4
        <4>6. Waiting'
          BY <1>1, <3>1, <3>8, <3>10, <4>2, <4>5 DEF Waiting, InLetter
        <4> QED BY <3>7, <4>6 DEF InPhase
      <3> QED BY <3>9, <3>10
    <2> QED BY <2>6, <2>7
  <1> QED BY <1>4, <1>5

\* A size received is that of the message, or belongs to what was left behind.
LEMMA ZeroesSize ==
  ASSUME TypeInv, Plain, ZeroedBox, InPhase, cuts' = cuts, ReceiveSize
  PROVE  ZeroedBox' /\ InPhase'
  <1>1. /\ at = "size" /\ at' = "payload" /\ at' \in Reading
        /\ UNCHANGED << letter, inv, box >>
    BY DEF ReceiveSize, Reading
  <1>2. ZeroedBox'
    BY <1>1, ZeroedStays
  <1>3. \A m \in 0 .. Len(letter.items) : Len(PayloadOf(letter, m)) < Power[IntSize]
    BY PlainIs DEF Plain
  <1>4. CASE Fresh
    <2>1. 0 \in 0 .. Len(letter.items) /\ AtMessage(0)
      BY <1>4, PhaseMessages DEF Fresh
    <2>2. AtMessage(0)'
      BY <1>3, <2>1, SizeTaken
    <2> QED BY <1>1, <1>2, <1>4, <2>2 DEF InPhase, Fresh
  <1>5. CASE ItemComing
    <2>1. PICK m \in 0 .. Len(letter.items) : m = Len(box) + 1
      BY <1>5, PhaseMessages DEF ItemComing
    <2>2. AtMessage(m)
      BY <1>5, <2>1 DEF ItemComing
    <2>3. AtMessage(m)'
      BY <1>3, <2>2, SizeTaken
    <2>4. AtMessage(Len(box) + 1)'
      BY <1>1, <2>1, <2>3
    <2> QED BY <1>1, <1>2, <1>5, <2>4 DEF InPhase, ItemComing, InLetter, More
  <1>6. CASE Stray
    <2>1. msg \in MsgType
      BY DEF TypeInv
    <2>2. msg'.command = msg.command
      BY <2>1 DEF ReceiveSize, MsgType
    <2> QED BY <1>1, <1>2, <1>6, <2>2 DEF InPhase, Stray, InLetter
  <1>7. Fresh \/ ItemComing \/ Stray
    BY <1>1 DEF InPhase, AnnouncementIn, RowIn, Waiting, ItemIn, Over, Ends
  <1> QED BY <1>4, <1>5, <1>6, <1>7

\* What a short receive leaves of a payload's buffer.
LEMMA ReceivedShort ==
  ASSUME NEW w \in Seq(Byte), NEW j \in Nat, \A i \in 1 .. Len(w) : i <= j => wire[i] = w[i]
  PROVE  Received(Len(w), j, Zeros(Len(w))) = ZeroTail(w, j)
  <1> DEFINE n == Len(w)
  <1>1. n \in Nat /\ \A i \in 1 .. n : Zeros(n)[i] = 0
    BY DEF Zeros
  <1>2. \A i \in 1 .. n : (IF i <= j THEN wire[i] ELSE Zeros(n)[i]) = (IF i <= j THEN w[i] ELSE 0)
    BY <1>1
  <1> HIDE DEF n
  <1>3. [i \in 1 .. n |-> IF i <= j THEN wire[i] ELSE Zeros(n)[i]]
          = [i \in 1 .. n |-> IF i <= j THEN w[i] ELSE 0]
    BY <1>2
  <1> QED BY <1>3 DEF n, Received, ZeroTail

\* A payload comes whole, or with zeros for the rest.
LEMMA PayloadCame ==
  ASSUME TypeInv, NEW m \in 0 .. Len(letter.items), AtMessage(m), ReceivePayload
  PROVE  /\ Came(m)' /\ msg'.command = NameOf(letter, m)
         /\ at' = (IF inv = NoInv THEN "accept" ELSE "item")
         /\ UNCHANGED << letter, sent, link, inv, box >>
  <1>1. /\ at = "payload" /\ at' = (IF inv = NoInv THEN "accept" ELSE "item")
        /\ UNCHANGED << letter, sent, link, inv, box >>
    BY DEF ReceivePayload
  <1>2. letter \in Letters /\ msg \in MsgType
    BY DEF TypeInv
  <1>3. PICK w : w = PayloadOf(letter, m)
    OBVIOUS
  <1>4. PICK q : q = Upto(3 * m + 2)
    OBVIOUS
  <1>5. w \in Seq(Byte) /\ Len(w) \in Nat \ {0} /\ q \in Nat /\ HasAt(Whole, q, w)
    BY <1>2, <1>3, <1>4, PayloadPlace
  <1>6. FlowAt(q)
    <2>1. Off = 2
      BY <1>1 DEF Off
    <2> QED BY <1>4, <2>1 DEF AtMessage, Flow
  <1>7. msg.command = NameOf(letter, m) /\ msg.size = Len(w)
    BY <1>1, <1>3 DEF AtMessage
  <1>8. PICK j \in 0 .. Len(w) :
          /\ Receive(Len(w), j)
          /\ msg' = [msg EXCEPT !.payload = Received(Len(w), j, Zeros(Len(w)))]
    BY <1>7 DEF ReceivePayload
  <1>9. j \in 1 .. Len(w) /\ (\A i \in 1 .. j : wire[i] = Whole[q + i]) /\ FlowAt(q + j)'
    BY <1>1, <1>5, <1>6, <1>8, FlowTake
  <1>10. Received(Len(w), j, Zeros(Len(w))) = ZeroTail(w, j)
    <2>1. ASSUME NEW i \in 1 .. Len(w), i <= j PROVE wire[i] = w[i]
      <3>1. i \in 1 .. j
        BY <2>1
      <3>2. Whole[q + i] = w[i]
        BY <1>5 DEF HasAt
      <3> QED BY <1>9, <3>1, <3>2
    <2>2. j \in Nat
      OBVIOUS
    <2> QED BY <1>5, <2>1, <2>2, ReceivedShort
  <1>11. msg'.payload = ZeroTail(w, j) /\ msg'.command = msg.command
    BY <1>2, <1>8, <1>10 DEF MsgType
  <1>12. PayloadOf(letter, m)' = w /\ Upto(3 * m + 2)' = q
    BY <1>1, <1>3, <1>4 DEF PayloadOf, Upto
  <1>13. CameTo(m, j)'
    BY <1>9, <1>12 DEF CameTo
  <1>14. Came(m)'
    <2>1. msg'.payload = ZeroTail(PayloadOf(letter, m), j)'
      BY <1>11, <1>12 DEF ZeroTail
    <2>2. j \in Nat
      OBVIOUS
    <2> QED BY <1>13, <2>1, <2>2 DEF Came
  <1> QED BY <1>1, <1>7, <1>11, <1>14

\* A payload received waits for its handler.
LEMMA ZeroesPayload ==
  ASSUME TypeInv, ZeroedBox, InPhase, ReceivePayload
  PROVE  ZeroedBox' /\ InPhase'
  <1>1. /\ at = "payload" /\ at' = (IF inv = NoInv THEN "accept" ELSE "item")
        /\ UNCHANGED << letter, inv, box >>
    BY DEF ReceivePayload
  <1>2. ZeroedBox'
    BY <1>1, ZeroedStays
  <1>3. InLetter => inv # NoInv
    BY NoMsgType DEF InLetter
  <1>4. CASE Fresh
    <2>1. 0 \in 0 .. Len(letter.items) /\ AtMessage(0)
      BY <1>4, PhaseMessages DEF Fresh
    <2>2. Came(0)' /\ msg'.command = NameOf(letter, 0)
      BY <2>1, PayloadCame
    <2> QED BY <1>1, <1>2, <1>4, <2>2 DEF InPhase, Fresh, AnnouncementIn, NameOf
  <1>5. CASE ItemComing
    <2>1. PICK m \in 1 .. Len(letter.items) : m = Len(box) + 1 /\ m \in 0 .. Len(letter.items)
      BY <1>5, PhaseMessages DEF ItemComing
    <2>2. AtMessage(m)
      BY <1>5, <2>1 DEF ItemComing
    <2>3. Came(m)' /\ msg'.command = NameOf(letter, m)
      BY <2>1, <2>2, PayloadCame
    <2>4. Came(Len(box) + 1)'
      BY <1>1, <2>1, <2>3
    <2>5. msg'.command = ItemName(letter.type)
      BY <2>3 DEF NameOf
    <2> QED BY <1>1, <1>2, <1>3, <1>5, <2>4, <2>5 DEF InPhase, ItemComing, ItemIn, InLetter, More
  <1>6. CASE Stray
    <2>1. msg \in MsgType
      BY DEF TypeInv
    <2>2. msg'.command = msg.command
      BY <2>1 DEF ReceivePayload, MsgType
    <2> QED BY <1>1, <1>2, <1>3, <1>6, <2>2 DEF InPhase, Stray, InLetter
  <1>7. Fresh \/ ItemComing \/ Stray
    BY <1>1 DEF InPhase, AnnouncementIn, RowIn, Waiting, ItemIn, Over, Ends
  <1> QED BY <1>4, <1>5, <1>6, <1>7

\* A prefix is one of whatever has the same bytes.
LEMMA PrefixAgrees ==
  ASSUME NEW s \in Seq(Byte), NEW a \in Seq(Byte), NEW b \in Seq(Byte), IsPrefix(s, a),
         Len(s) <= Len(b), \A i \in 1 .. Len(s) : a[i] = b[i]
  PROVE  IsPrefix(s, b)
  <1> DEFINE n == Len(s)
  <1>1. n \in Nat /\ n <= Len(a) /\ n <= Len(b) /\ SubSeq(s, 1, n) = SubSeq(a, 1, n)
    BY DEF IsPrefix
  <1>2. \A i \in 1 .. n : a[i] = b[i]
    OBVIOUS
  <1> HIDE DEF n
  <1>3. SubSeq(a, 1, n) = [i \in 1 .. n |-> a[i]] /\ SubSeq(b, 1, n) = [i \in 1 .. n |-> b[i]]
    BY <1>1
  <1>4. [i \in 1 .. n |-> a[i]] = [i \in 1 .. n |-> b[i]]
    BY <1>2
  <1>5. SubSeq(s, 1, n) = SubSeq(b, 1, n)
    BY <1>1, <1>3, <1>4
  <1> QED BY <1>1, <1>5 DEF IsPrefix, n

\* What comes behind the first j bytes of the payload of message m, at q in the
\* stream: the rest of it, and the name of the next message.
Behind(m, j) == From(PayloadOf(letter, m), j) \o Name[ItemName(letter.type)]
ComesShort(m, j, q) ==
  /\ j < Len(PayloadOf(letter, m)) /\ q = Upto(3 * m + 2) + j /\ q + CommandSize <= Len(Whole)
ReadsBehind(m, j, q) ==
  /\ Behind(m, j) \in Seq(Byte) /\ Len(Behind(m, j)) \in Nat /\ CommandSize <= Len(Behind(m, j))
  /\ \A i \in 1 .. CommandSize : Whole[q + i] = Behind(m, j)[i]

\* A command read there is read of them, as far as the stream goes.
LEMMA BehindPayload ==
  ASSUME letter \in Letters, NEW m \in 0 .. Len(letter.items), NEW j \in Nat, NEW q \in Nat,
         ComesShort(m, j, q)
  PROVE  ReadsBehind(m, j, q)
  <1> DEFINE w == PayloadOf(letter, m)
             f == From(w, j)
             name == Name[ItemName(letter.type)]
             rest == f \o name
             u == Upto(3 * m + 2)
             count == Len(letter.items)
             n == CommandSize
  <1>1. /\ w \in Seq(Byte) /\ Len(w) \in Nat \ {0} /\ u \in Nat /\ HasAt(Whole, u, w)
        /\ Upto(3 * m + 3) = u + Len(w)
    BY PayloadPlace
  <1>9. q = u + j /\ q + n <= Len(Whole) /\ j < Len(w)
    BY DEF ComesShort
  <1>2. name \in Seq(Byte) /\ Len(name) = CommandSize /\ CommandSize \in Nat
    BY SizesAre DEF ItemName
  <1>3. /\ f \in Seq(Byte) /\ Len(f) = Len(w) - j
        /\ \A i \in 1 .. Len(w) - j : f[i] = w[j + i]
    <2> HIDE DEF w
    <2>1. Len(w) \in Nat /\ j <= Len(w)
      BY <1>1, <1>9
    <2>2. f \in Seq(Byte) /\ \A i \in 1 .. Len(w) - j : f[i] = w[j + i]
      BY <1>1, FromType
    <2>3. Len(f) = Len(w) - j
      BY <1>1, <2>1, FromType
    <2> QED BY <2>2, <2>3
  <1>4. count \in Nat /\ m \in 0 .. count /\ Len(Sends) = 3 * (count + 1)
    BY LetterIs, SendsAre DEF Sends
  <1>5. Whole \in Seq(Byte) /\ Len(Whole) = Upto(Len(Sends))
    BY StreamIs
  <1>6. m < count => HasAt(Whole, u + Len(w), name)
    <2> SUFFICES ASSUME m < count PROVE HasAt(Whole, u + Len(w), name)
      OBVIOUS
    <2>1. PICK k \in 0 .. count : k = m + 1
      BY <1>4
    <2>2. 3 * k \in 0 .. Len(Sends) - 1 /\ Sends[3 * k + 1] = Name[NameOf(letter, k)]
      BY MessageSends
    <2>3. NameOf(letter, k) = ItemName(letter.type)
      BY <1>4, <2>1 DEF NameOf
    <2>4. HasAt(Whole, Upto(3 * k), Sends[3 * k + 1])
      BY <2>2, StreamIs
    <2>5. 3 * k = 3 * m + 3
      BY <1>4, <2>1
    <2> QED BY <1>1, <2>2, <2>3, <2>4, <2>5
  <1>7. m = count => Len(Whole) = u + Len(w)
    <2> SUFFICES ASSUME m = count PROVE Len(Whole) = u + Len(w)
      OBVIOUS
    <2>1. 3 * m + 3 = Len(Sends)
      <3>1. 3 * (count + 1) = 3 * count + 3
        BY <1>4
      <3> QED BY <1>4, <3>1
    <2> QED BY <1>1, <1>5, <2>1
  <1>8. Len(rest) = Len(f) + Len(name) /\ rest \in Seq(Byte)
        /\ \A i \in 1 .. Len(f) + Len(name) : rest[i] = IF i <= Len(f) THEN f[i] ELSE name[i - Len(f)]
    BY <1>2, <1>3, ConcatProperties
  <1> DEFINE lw == Len(w)
             lf == Len(f)
             ln == Len(name)
  <1> HIDE DEF w, f, name, rest, u, count, n
  <1>a. /\ lw \in Nat /\ lf \in Nat /\ ln \in Nat /\ n \in Nat /\ u \in Nat
        /\ lf = lw - j /\ n <= ln /\ j < lw /\ q = u + j
    <2>1. lw \in Nat /\ u \in Nat
      BY <1>1
    <2>2. lf = lw - j /\ j < lw /\ q = u + j
      BY <1>3, <1>9
    <2>3. ln = n /\ n \in Nat
      BY <1>2 DEF n
    <2> HIDE DEF lw, lf, ln
    <2> QED BY <2>1, <2>2, <2>3
  <1> HIDE DEF lw, lf, ln
  <1>10. Len(rest) \in Nat /\ n <= Len(rest)
    <2>1. Len(rest) = lf + ln
      BY <1>8 DEF lf, ln
    <2> QED BY <1>a, <2>1
  <1>11. ASSUME NEW i \in 1 .. n PROVE Whole[q + i] = rest[i]
    <2>1. i \in 1 .. Len(f) + Len(name)
      <3>1. i \in 1 .. lf + ln
        BY <1>a
      <3> QED BY <3>1 DEF lf, ln
    <2>2. CASE i <= Len(f)
      <3>1. j + i \in 1 .. Len(w) /\ u + (j + i) = q + i /\ i \in 1 .. Len(w) - j
        <4>1. j + i \in 1 .. lw /\ u + (j + i) = q + i /\ i \in 1 .. lw - j
          <5>1. i <= lf
            BY <2>2 DEF lf
          <5> QED BY <1>a, <5>1
        <4> QED BY <4>1 DEF lw
      <3>2. Whole[u + (j + i)] = w[j + i]
        BY <1>1, <3>1 DEF HasAt
      <3>3. rest[i] = f[i] /\ f[i] = w[j + i]
        BY <1>3, <1>8, <2>1, <2>2, <3>1
      <3> QED BY <3>1, <3>2, <3>3
    <2>3. CASE ~(i <= Len(f))
      <3>1. m < count
        <4>1. CASE m = count
          <5>1. q + n <= u + lw /\ ~(i <= lf)
            BY <1>7, <1>9, <2>3, <4>1 DEF lw, lf
          <5> QED BY <1>a, <5>1
        <4> QED BY <1>4, <4>1
      <3>2. HasAt(Whole, u + Len(w), name)
        BY <1>6, <3>1
      <3>3. /\ i - Len(f) \in 1 .. Len(name)
            /\ (u + Len(w)) + (i - Len(f)) = q + i
        <4>1. i - lf \in 1 .. ln /\ (u + lw) + (i - lf) = q + i
          <5>1. ~(i <= lf)
            BY <2>3 DEF lf
          <5> QED BY <1>a, <5>1
        <4> QED BY <4>1 DEF lw, lf, ln
      <3>4. Whole[(u + Len(w)) + (i - Len(f))] = name[i - Len(f)]
        BY <3>2, <3>3 DEF HasAt
      <3>5. rest[i] = name[i - Len(f)]
        BY <1>8, <2>1, <2>3
      <3> QED BY <3>3, <3>4, <3>5
    <2> QED BY <2>2, <2>3
  <1>12. rest = Behind(m, j)
    BY DEF rest, f, name, w, Behind
  <1> QED BY <1>8, <1>10, <1>11, <1>12 DEF n, ReadsBehind

\* A command that is read as a name begins with its text.
LEMMA ReadsAs ==
  ASSUME NEW c \in DOMAIN Name, NEW b, TextOf(b) = c
  PROVE  IsPrefix(Text(c), b)
  <1> DEFINE P(d) == IsPrefix(Text(d), b)
             same == {d \in DOMAIN Name : P(d)}
  <1>1. c = IF same = {} THEN "other" ELSE CHOOSE d \in same : TRUE
    BY DEF TextOf
  <1>2. c # "other"
    BY SizesAre
  <1>3. c \in same
    <2> HIDE DEF P
    <2> QED BY <1>1, <1>2
  <1> QED BY <1>3

\* What a short payload leaves behind is read as no command of the letter.
LEMMA LeftBehind ==
  ASSUME TypeInv, Plain, NEW m \in 0 .. Len(letter.items), NEW j \in Nat, CameTo(m, j),
         j < Len(PayloadOf(letter, m)), ReceiveCommand, cuts' = cuts
  PROVE  msg'.command # ItemName(letter.type)
  <1> DEFINE c == ItemName(letter.type)
             w == PayloadOf(letter, m)
             rest == From(w, j) \o Name[c]
  <1>1. at = "command" /\ at \in Reading /\ UNCHANGED << letter, sent, link >>
    BY DEF ReceiveCommand, Reading
  <1>2. letter \in Letters /\ c \in DOMAIN Name /\ CommandSize \in Nat \ {0}
    BY SizesAre DEF TypeInv, ItemName
  <1>3. PICK q \in Nat : q = Upto(3 * m + 2) + j
    <2>1. Upto(3 * m + 2) \in Nat
      BY <1>2, PayloadPlace
    <2> QED BY <2>1
  <1>4. FlowAt(q) /\ j \in 1 .. Len(w)
    BY <1>3 DEF CameTo
  <1>5. PICK k \in 0 .. CommandSize :
          /\ Receive(CommandSize, k)
          /\ \E junk \in [k + 1 .. CommandSize -> Byte] :
               msg' = [NoMsg EXCEPT !.command = TextOf(Received(CommandSize, k, junk))]
    BY DEF ReceiveCommand
  <1>6. k = CommandSize
    BY <1>1, <1>2, <1>5, NotShort
  <1>7. q + CommandSize <= Len(Whole) /\ \A i \in 1 .. CommandSize : wire[i] = Whole[q + i]
    BY <1>1, <1>2, <1>4, <1>5, <1>6, FlowTake
  <1>8. PICK junk : msg' = [NoMsg EXCEPT !.command = TextOf(Received(CommandSize, CommandSize, junk))]
    BY <1>5, <1>6
  <1> DEFINE b == Received(CommandSize, CommandSize, junk)
  <1>9. msg'.command = TextOf(b)
    BY <1>8 DEF NoMsg
  <1>10. /\ rest \in Seq(Byte) /\ Len(rest) \in Nat /\ CommandSize <= Len(rest)
         /\ \A i \in 1 .. CommandSize : Whole[q + i] = rest[i]
    <2>1. ComesShort(m, j, q)
      BY <1>3, <1>7 DEF ComesShort
    <2>2. ReadsBehind(m, j, q)
      BY <1>2, <2>1, BehindPayload
    <2>3. rest = Behind(m, j)
      BY DEF Behind
    <2> HIDE DEF rest
    <2> QED BY <2>2, <2>3 DEF ReadsBehind
  <1>11. ~IsPrefix(Text(c), rest)
    <2>1. j \in 1 .. Len(w) - 1
      <3>1. Len(w) \in Nat /\ j < Len(w)
        BY <1>2, PayloadPlace
      <3> QED BY <1>4, <3>1
    <2> QED BY <2>1, PlainIs DEF Plain
  <1> HIDE DEF rest
  <1>12. b \in Seq(Byte) /\ Len(b) = CommandSize /\ \A i \in 1 .. CommandSize : b[i] = rest[i]
    <2>1. b = [i \in 1 .. CommandSize |-> wire[i]]
      BY DEF Received
    <2>2. \A i \in 1 .. CommandSize : wire[i] = rest[i] /\ rest[i] \in Byte
      <3>1. \A i \in 1 .. CommandSize : i \in 1 .. Len(rest)
        BY <1>2, <1>10
      <3> QED BY <1>7, <1>10, <3>1
    <2> HIDE DEF b
    <2>3. b \in Seq(Byte) /\ Len(b) = CommandSize
      BY <1>2, <2>1, <2>2
    <2> QED BY <2>1, <2>2, <2>3
  <1> HIDE DEF b, c
  <1>13. IsPrefix(Text(c), b) => IsPrefix(Text(c), rest)
    <2>1. Text(c) \in Seq(Byte) /\ Len(Text(c)) \in 1 .. CommandSize
      BY <1>2, TextIs
    <2>2. Len(Text(c)) <= Len(rest)
      BY <1>2, <1>10, <2>1
    <2>3. \A i \in 1 .. Len(Text(c)) : b[i] = rest[i]
      BY <1>2, <1>12, <2>1
    <2> QED BY <1>10, <1>12, <2>1, <2>2, <2>3, PrefixAgrees
  <1>14. TextOf(b) # c
    BY <1>2, <1>11, <1>13, ReadsAs
  <1> QED BY <1>9, <1>14 DEF c

\* A command received is that of the next message, or belongs to no item.
LEMMA ZeroesCommand ==
  ASSUME TypeInv, Plain, ZeroedBox, InPhase, cuts' = cuts, ReceiveCommand
  PROVE  ZeroedBox' /\ InPhase'
  <1>1. /\ at = "command" /\ at' = "size" /\ at' \in Reading /\ at \in Reading
        /\ UNCHANGED << letter, sent, link, inv, box >>
    BY DEF ReceiveCommand, Reading
  <1>2. ZeroedBox'
    BY <1>1, ZeroedStays
  <1>3. CASE Fresh
    <2>1. 0 \in 0 .. Len(letter.items) /\ AtMessage(0)
      BY <1>3, PhaseMessages DEF Fresh
    <2>2. AtMessage(0)'
      BY <2>1, CommandTaken
    <2> QED BY <1>1, <1>2, <1>3, <2>2 DEF InPhase, Fresh
  <1>4. CASE Waiting
    <2>1. PICK m \in 0 .. Len(letter.items) : m = Len(box)
      BY PhaseMessages
    <2>2. PICK j \in Nat : CameTo(m, j)
      BY <1>4, <2>1 DEF Waiting
    <2> DEFINE w == PayloadOf(letter, m)
               count == Len(letter.items)
    <2>3. letter \in Letters /\ count \in Nat /\ m \in 0 .. count
      BY BoxLength
    <2>4. /\ Len(w) \in Nat \ {0} /\ Upto(3 * m + 2) \in Nat
          /\ Upto(3 * m + 3) = Upto(3 * m + 2) + Len(w) /\ j \in 1 .. Len(w)
      BY <2>2, <2>3, PayloadPlace DEF CameTo
    <2>5. CASE j < Len(w)
      <3>1. msg'.command # ItemName(letter.type)
        BY <2>2, <2>5, LeftBehind
      <3> QED BY <1>1, <1>2, <1>4, <3>1 DEF InPhase, Stray, Waiting, InLetter
    <2>6. CASE j = Len(w)
      <3>1. Flow(3 * m + 3)
        BY <2>2, <2>4, <2>6 DEF CameTo, Flow
      <3>2. CASE m < count
        <4>1. PICK k \in 0 .. Len(letter.items) : k = m + 1
          BY <2>3, <3>2
        <4>2. AtMessage(k)
          <5>1. Off = 0
            BY <1>1 DEF Off
          <5>2. 3 * k + Off = 3 * m + 3
            BY <2>3, <4>1, <5>1
          <5>3. Flow(3 * k + Off)
            BY <3>1, <5>2
          <5> QED BY <1>1, <5>3 DEF AtMessage
        <4>3. AtMessage(k)'
          BY <4>2, CommandTaken
        <4>4. AtMessage(Len(box) + 1)'
          BY <1>1, <2>1, <4>1, <4>3
        <4>5. More'
          BY <1>1, <2>1, <3>2 DEF More
        <4>6. ItemComing'
          BY <1>1, <1>4, <4>4, <4>5 DEF ItemComing, Waiting, InLetter
        <4> QED BY <1>2, <4>6 DEF InPhase
      <3>3. CASE m = count
        <4>1. 3 * m + 3 = Len(Sends)
          <5>1. Len(Sends) = 3 * (count + 1)
            BY <2>3, SendsAre DEF Sends
          <5>2. 3 * (count + 1) = 3 * count + 3
            BY <2>3
          <5> QED BY <3>3, <5>1, <5>2
        <4>2. Len(Whole) = Upto(3 * m + 3)
          BY <2>3, <4>1, StreamIs
        <4>3. PICK q \in Nat : q = Len(Whole)
          BY <2>4, <4>2
        <4>4. FlowAt(q)
          BY <3>1, <4>2, <4>3 DEF Flow
        <4>5. PICK k : Receive(CommandSize, k)
          BY DEF ReceiveCommand
        <4>6. CommandSize \in Nat \ {0}
          BY SizesAre
        <4>7. k \in 1 .. CommandSize /\ q + k <= Len(Whole)
          BY <1>1, <4>4, <4>5, <4>6, FlowTake
        <4> QED BY <4>3, <4>6, <4>7
      <3> QED BY <2>3, <3>2, <3>3
    <2> QED BY <2>4, <2>5, <2>6
  <1>5. Fresh \/ Waiting
    BY <1>1 DEF InPhase, AnnouncementIn, RowIn, ItemComing, ItemIn, Stray, Over, Ends
  <1> QED BY <1>3, <1>4, <1>5

\* Every step keeps the invariant.
LEMMA ZeroesInductive == TypeInv /\ ZeroesInv /\ [Next]_vars => ZeroesInv'
  <1> SUFFICES ASSUME TypeInv, ZeroesInv, [Next]_vars, OnlyPayloads', Plain'
               PROVE  ZeroedBox' /\ InPhase'
    BY DEF ZeroesInv
  <1>1. OnlyPayloads /\ (at \in Reading /\ at # "payload" => cuts' = cuts)
    BY OnlyPayloadsStay
  <1>2. Plain
    BY CutsStay DEF Plain
  <1>3. ZeroedBox /\ InPhase
    BY <1>1, <1>2 DEF ZeroesInv
  <1>4. CASE Send \/ Close \/ Break
    BY <1>3, <1>4, ZeroesSender
  <1>5. CASE ReceiveCommand
    <2>1. cuts' = cuts
      BY <1>1, <1>5 DEF ReceiveCommand, Reading
    <2> QED BY <1>2, <1>3, <1>5, <2>1, ZeroesCommand
  <1>6. CASE ReceiveSize
    <2>1. cuts' = cuts
      BY <1>1, <1>6 DEF ReceiveSize, Reading
    <2> QED BY <1>2, <1>3, <1>6, <2>1, ZeroesSize
  <1>7. CASE ReceivePayload
    BY <1>3, <1>7, ZeroesPayload
  <1>8. CASE ReceiveThrows \/ InvDone
    BY <1>3, <1>8, ZeroesEnds
  <1>9. CASE HandleAccept
    BY <1>2, <1>3, <1>9, ZeroesAccept
  <1>10. CASE NextRow
    BY <1>2, <1>3, <1>10, ZeroesNextRow
  <1>11. CASE HandleItem
    BY <1>2, <1>3, <1>11, ZeroesItem
  <1>12. CASE UNCHANGED vars
    BY <1>3, <1>12, ZeroesStutter
  <1> QED BY <1>4, <1>5, <1>6, <1>7, <1>8, <1>9, <1>10, <1>11, <1>12 DEF Next, Receiver

\* The receiver is in one of the phases always.
LEMMA ZeroesInvariant == Spec => [](TypeInv /\ ZeroesInv)
  BY TypeInit, TypeInductive, ZeroesInit, ZeroesInductive, PTL DEF Spec

\* Where only payloads came short, an item of a plain letter is the one sent, with
\* zeros from some byte on: payload(size) is all zeros (connection.cpp:13), and what
\* is left of the payload is read as a command that m_handle_inv aborts at
\* (server.cpp:201, 216), never as an item.
THEOREM ZeroesOnly == Spec => []ShortPayloadOnlyZeroes
  <1>1. ASSUME TypeInv, ZeroesInv PROVE ShortPayloadOnlyZeroes
    <2> SUFFICES ASSUME \A i \in DOMAIN cuts : cuts[i] = "payload", letter \in PlainLetters
                 PROVE  /\ Len(box) <= Len(letter.items)
                        /\ \A i \in DOMAIN box :
                             OnlyZeroed(ItemBytes(letter, box[i]), ItemBytes(letter, letter.items[i]))
      BY DEF ShortPayloadOnlyZeroes
    <2>1. ZeroedBox
      BY <1>1 DEF ZeroesInv, OnlyPayloads, Plain
    <2>2. DOMAIN box = 1 .. Len(box)
      BY <1>1, AppendIsSeq DEF TypeInv
    <2> QED BY <2>1, <2>2 DEF ZeroedBox
  <1> QED BY <1>1, ZeroesInvariant, PTL
=============================================================================
