-------------------------------- MODULE Codec --------------------------------
(***************************************************************************)
(* How transactions, blocks and announcements become bytes, and how they   *)
(* are read back.  Readers take no notice of how many bytes there are:     *)
(* what they read past the end is undefined, and here zero (At); a module  *)
(* that uses them asks where the reading ended (TxEnd, BlockEnd).          *)
(***************************************************************************)
EXTENDS Seqs, FiniteSets, SequencesExt

CONSTANTS
  Base,          \* values of a byte (256)
  IntSize,       \* bytes of a uint32_t (4)
  HashSize,      \* bytes of a hash, and of an address where one is read (32)
  KeySize,       \* bytes of a public key where one is read (279)
  SignatureSize, \* bytes of a signature where one is read (64)
  Spaces         \* the bytes istream's >> skips (9 .. 13 and 32)

Byte == 0 .. Base - 1

ASSUME CodecSizes ==
  /\ Base \in Nat \ {0, 1} /\ IntSize \in Nat \ {0} /\ HashSize \in Nat
  /\ IntSize <= HashSize /\ KeySize \in Nat /\ SignatureSize \in Nat
  /\ Spaces \subseteq Byte \ {0}

Zeros(n) == [i \in 1 .. n |-> 0]
At(data, i) == IF i <= Len(data) THEN data[i] ELSE 0
Cut(data, p, n) == [i \in 1 .. n |-> At(data, p + i)]

\* The values of i bytes.
Power[i \in Nat] == IF i = 0 THEN 1 ELSE Base * Power[i - 1]

\* converter32to8 and itobl: the low byte first, what does not fit is dropped.
Low(v) == v % Power[IntSize]
IntBytes(v) == [i \in 1 .. IntSize |-> (v \div Power[i - 1]) % Base]

\* converter8to32 at position p.
IntAt(data, p) ==
  LET low[i \in 0 .. IntSize] ==
        IF i = 0 THEN 0 ELSE low[i - 1] + Power[i - 1] * At(data, p + i)
  IN low[IntSize]

-----------------------------------------------------------------------------
(***************************************************************************)
(* Transactions.  An address is as long as somebody made it; it is read    *)
(* back as one of HashSize bytes, and so for the key and the signature.    *)
(***************************************************************************)
InputType == [block : Nat, txe : Nat, hash : Seq(Byte), tail : Nat]
TailType == [value : Nat, address : Seq(Byte)]
TxType ==
  [inputs : Seq(InputType), tails : Seq(TailType), pubKey : Seq(Byte), signature : Seq(Byte)]

InputBytes(i) == IntBytes(i.block) \o IntBytes(i.txe) \o i.hash \o IntBytes(i.tail)
TailBytes(t) == IntBytes(t.value) \o t.address

Each(op(_), s) == FlattenSeq([i \in DOMAIN s |-> op(s[i])])

TxeData(t) == Each(InputBytes, t.inputs) \o Each(TailBytes, t.tails) \o t.pubKey \o t.signature
TxBytes(t) == IntBytes(Len(t.inputs)) \o IntBytes(Len(t.tails)) \o TxeData(t)

InputAt(data, p) ==
  [block |-> IntAt(data, p), txe |-> IntAt(data, p + IntSize),
   hash |-> Cut(data, p + 2 * IntSize, HashSize),
   tail |-> IntAt(data, p + 2 * IntSize + HashSize)]

\* Mutant: the address read before the value.
TailAtSwapped(data, p) ==
  [address |-> Cut(data, p, HashSize), value |-> IntAt(data, p + HashSize)]
TailAt(data, p) ==
  [value |-> IntAt(data, p), address |-> Cut(data, p + IntSize, HashSize)]

TailsFrom(data, p) == p + 2 * IntSize + IntAt(data, p) * (3 * IntSize + HashSize)
KeyFrom(data, p) == TailsFrom(data, p) + IntAt(data, p + IntSize) * (IntSize + HashSize)
TxEnd(data, p) == KeyFrom(data, p) + KeySize + SignatureSize

TxAt(data, p) ==
  [inputs |-> [i \in 1 .. IntAt(data, p) |->
                 InputAt(data, p + 2 * IntSize + (i - 1) * (3 * IntSize + HashSize))],
   tails |-> [i \in 1 .. IntAt(data, p + IntSize) |->
                TailAt(data, TailsFrom(data, p) + (i - 1) * (IntSize + HashSize))],
   pubKey |-> Cut(data, KeyFrom(data, p), KeySize),
   signature |-> Cut(data, KeyFrom(data, p) + KeySize, SignatureSize)]

\* What fits: the sizes the reader expects, and the values the writer kept.
TxFramed(t) ==
  /\ \A i \in DOMAIN t.inputs : Len(t.inputs[i].hash) = HashSize
  /\ \A i \in DOMAIN t.tails : Len(t.tails[i].address) = HashSize
  /\ Len(t.pubKey) = KeySize /\ Len(t.signature) = SignatureSize

InputKept(i) ==
  [block |-> Low(i.block), txe |-> Low(i.txe), hash |-> i.hash, tail |-> Low(i.tail)]
TailKept(t) == [value |-> Low(t.value), address |-> t.address]
TxKept(t) ==
  [inputs |-> [i \in DOMAIN t.inputs |-> InputKept(t.inputs[i])],
   tails |-> [i \in DOMAIN t.tails |-> TailKept(t.tails[i])],
   pubKey |-> t.pubKey, signature |-> t.signature]

-----------------------------------------------------------------------------
(***************************************************************************)
(* Blocks: a header with a count, and then transactions.  All of them are  *)
(* written, as many as the count says are read.                            *)
(***************************************************************************)
BlockType ==
  [version : Nat, prevBlock : Seq(Byte), number : Nat, merkleRoot : Seq(Byte), bits : Nat,
   nonce : Nat, txsCount : Nat, txs : Seq(TxType)]

BlockData(b) ==
  IntBytes(b.version) \o b.prevBlock \o IntBytes(b.number) \o b.merkleRoot
    \o IntBytes(b.bits) \o IntBytes(b.nonce) \o IntBytes(b.txsCount)
BlockBytes(b) == BlockData(b) \o Each(TxBytes, b.txs)

CountFrom == 4 * IntSize + 2 * HashSize
TxsEnd(data, n) ==
  LET end[k \in Nat] == IF k = 0 THEN CountFrom + IntSize ELSE TxEnd(data, end[k - 1])
  IN end[n]
BlockEnd(data) == TxsEnd(data, IntAt(data, CountFrom))

BlockAt(data) ==
  [version |-> IntAt(data, 0), prevBlock |-> Cut(data, IntSize, HashSize),
   number |-> IntAt(data, IntSize + HashSize),
   merkleRoot |-> Cut(data, 2 * IntSize + HashSize, HashSize),
   bits |-> IntAt(data, 2 * IntSize + 2 * HashSize),
   nonce |-> IntAt(data, 3 * IntSize + 2 * HashSize),
   txsCount |-> IntAt(data, CountFrom),
   txs |-> [i \in 1 .. IntAt(data, CountFrom) |-> TxAt(data, TxsEnd(data, i - 1))]]

BlockFramed(b) ==
  /\ Len(b.prevBlock) = HashSize /\ Len(b.merkleRoot) = HashSize
  /\ b.txsCount = Len(b.txs)
  /\ \A i \in DOMAIN b.txs : TxFramed(b.txs[i])

BlockKept(b) ==
  [version |-> Low(b.version), prevBlock |-> b.prevBlock, number |-> Low(b.number),
   merkleRoot |-> b.merkleRoot, bits |-> Low(b.bits), nonce |-> Low(b.nonce),
   txsCount |-> Low(b.txsCount), txs |-> [i \in DOMAIN b.txs |-> TxKept(b.txs[i])]]

-----------------------------------------------------------------------------
(***************************************************************************)
(* An announcement: a number of rows, each with a type and a "hash" that   *)
(* holds how many transactions or blocks follow.                           *)
(***************************************************************************)
MsgTx == 1
MsgBlock == 2
\* Mutant: the + 1 of server.cpp:179 in every announcement.
HashFrom32OneMore(v) == IntBytes(v + 1) \o Zeros(HashSize - IntSize)
HashFrom32(v) == IntBytes(v) \o Zeros(HashSize - IntSize)
InvBytes(type, amount) == IntBytes(1) \o IntBytes(type) \o HashFrom32(amount)

\* The hash of a row is read with >>: the bytes it skips, and where it ends.
Unspaced(s) == Without(s, [i \in DOMAIN s |-> s[i] \in Spaces])
HashEnd(s) ==
  LET short == {p \in 0 .. Len(s) : Len(Unspaced(SubSeq(s, 1, p))) < HashSize}
  IN IF Cardinality(short) <= Len(s) THEN Cardinality(short) ELSE Len(s)
=============================================================================
