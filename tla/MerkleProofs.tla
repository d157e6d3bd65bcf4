---------------------------- MODULE MerkleProofs -----------------------------
(***************************************************************************)
(* Theorems about Merkle: for every block size and every transaction, the  *)
(* loop has the outcome Node gives it.                                     *)
(***************************************************************************)
EXTENDS Merkle, SeqLemmas

-----------------------------------------------------------------------------
(***************************************************************************)
(* The inductive invariant.  A block of one transaction keeps its one      *)
(* hash.  For two or more the first round of the for loop assigns the      *)
(* still empty tempHashes, ends the loop with it, and no later round finds *)
(* anything to pair: the size is never one.                                *)
(***************************************************************************)
Refused == Len(txs) \notin MerkleSizes

NotBegun == pc = "start" /\ root = Zero32

One ==
  /\ Len(txs) = 1 /\ hashes = << Sha(txs[1]) >>
  /\ \/ pc = "while" /\ root = Zero32
     \/ pc = "done" /\ root = Sha(txs[1])

\* The hashes of all transactions, before the for loop touches them.
Whole == Len(hashes) = Len(txs) /\ (pc = "for" => i = 0)

Several ==
  /\ Len(txs) \in MerkleSizes \ {1}
  /\ pc \in {"while", "for"} /\ root = Zero32
  /\ pc = "for" => tempHashes = << >> \/ hashes = << >>
  /\ Whole \/ (hashes = << >> /\ (pc = "for" => i \in Nat))

IInv ==
  /\ IsSeq(txs)
  /\ NotBegun \/ (Refused /\ pc = "done" /\ root = Zero32) \/ One \/ Several

-----------------------------------------------------------------------------
LEMMA InitInv == Init => IInv
  <1> SUFFICES ASSUME Init PROVE IInv
    OBVIOUS
  <1>1. PICK n \in 0 .. MaxTxs : txs \in [1 .. n -> Txs]
    BY DEF Init
  <1>2. n \in Nat
    BY <1>1, MaxTxsAssumption
  <1>3. txs \in Seq(Txs)
    BY <1>1, <1>2
  <1>4. IsSeq(txs)
    BY <1>3, IsSeqIntro
  <1> QED BY <1>4 DEF Init, IInv, NotBegun

LEMMA StartStep == IInv /\ Start => IInv'
  <1> SUFFICES ASSUME IInv, Start PROVE IInv'
    OBVIOUS
  <1>1. IsSeq(txs) /\ txs' = txs /\ NotBegun
    BY DEF IInv, Start, One, Several
  <1>2. DOMAIN txs = 1 .. Len(txs) /\ Len(txs) \in Nat
    BY <1>1 DEF IsSeq
  <1>3. CASE Refused
    BY <1>1, <1>3 DEF Start, Refused, NotBegun, IInv, IsSeq
  <1>4. CASE ~Refused
    <2> DEFINE h == [n \in DOMAIN txs |-> Sha(txs[n])]
    <2>1. /\ hashes' = h /\ pc' = "while"
          /\ UNCHANGED << txs, tempHashes, i, root >>
      BY <1>4 DEF Start, Refused
    <2>2. h \in Seq({Sha(txs[n]) : n \in DOMAIN txs}) /\ Len(h) = Len(txs)
      BY <1>2
    <2>3. CASE Len(txs) = 1
      <3>1. h = << Sha(txs[1]) >>
        BY <1>2, <2>3
      <3> QED BY <1>1, <2>1, <2>3, <3>1 DEF IInv, One, NotBegun, IsSeq
    <2>4. CASE Len(txs) # 1
      <3> HIDE DEF h
      <3>1. Len(txs') \in MerkleSizes \ {1}
        BY <1>1, <1>4, <2>4 DEF Refused
      <3>2. Len(hashes') = Len(txs')
        BY <1>1, <2>1, <2>2
      <3>3. Several'
        BY <1>1, <2>1, <3>1, <3>2 DEF Several, Whole, NotBegun
      <3> QED BY <1>1, <3>3 DEF IInv, IsSeq
    <2> QED BY <2>3, <2>4
  <1> QED BY <1>3, <1>4

LEMMA WhileStep == IInv /\ While => IInv'
  <1> SUFFICES ASSUME IInv, While PROVE IInv'
    OBVIOUS
  <1>1. /\ IsSeq(txs) /\ pc = "while" /\ UNCHANGED << txs, hashes >>
        /\ One \/ Several
    BY DEF IInv, While, NotBegun
  <1>2. CASE One
    <2>1. pc' = "done" /\ root' = Sha(txs[1])
      BY <1>2 DEF While, One
    <2> QED BY <1>1, <1>2, <2>1 DEF IInv, One, IsSeq
  <1>3. CASE Several
    <2>1. Len(hashes) # 1
      <3>1. Len(<< >>) = 0
        OBVIOUS
      <3>2. CASE Whole
        BY <1>3, <3>2 DEF Several, Whole
      <3>3. CASE hashes = << >>
        BY <3>1, <3>3
      <3> QED BY <1>3, <3>2, <3>3 DEF Several
    <2>2. pc' = "for" /\ tempHashes' = << >> /\ i' = 0 /\ root' = root
      BY <2>1 DEF While
    <2>3. IsSeq(txs') /\ hashes' = hashes /\ txs' = txs /\ pc' = "for"
      BY <1>1 , <2>1 DEF While
    <2>4. Whole' \/ (hashes' = << >> /\ i' \in Nat)
      BY <1>3, <2>2, <2>3 DEF Several, Whole
    <2>5. Several'
      BY <1>3, <2>2, <2>3, <2>4 DEF Several
    <2> QED BY <2>3, <2>5 DEF IInv
  <1> QED BY <1>1, <1>2, <1>3

LEMMA ForStep == IInv /\ For => IInv'
  <1> SUFFICES ASSUME IInv, For PROVE IInv'
    OBVIOUS
  <1>1. IsSeq(txs) /\ pc = "for" /\ UNCHANGED << txs, root >> /\ Several
    BY DEF IInv, For, NotBegun, One
  <1>2. CASE Whole /\ tempHashes = << >>
    <2>1. i = 0 /\ Len(hashes) > 0
      BY <1>1, <1>2 DEF Several, Whole, MerkleSizes
    <2>2. Paired = << >>
      BY <1>2, <2>1 DEF Paired
    <2>3. hashes' = << >> /\ tempHashes' = << >> /\ i' = 1 /\ pc' = "for"
      BY <1>1, <2>1, <2>2 DEF For
    <2> QED BY <1>1, <2>3 DEF IInv, Several, IsSeq
  <1>3. CASE hashes = << >> /\ i \in Nat
    <2>1. ~(i < Len(hashes))
      BY <1>3
    <2>2. pc' = "while" /\ UNCHANGED << hashes, tempHashes, i >>
      BY <1>1, <2>1 DEF For
    <2> QED BY <1>1, <1>3, <2>2 DEF IInv, Several, IsSeq
  <1> QED BY <1>1, <1>2, <1>3 DEF Several, Whole

LEMMA Inductive == IInv /\ [Next]_vars => IInv'
  <1> SUFFICES ASSUME IInv, [Next]_vars PROVE IInv'
    OBVIOUS
  <1>1. CASE UNCHANGED vars
    BY <1>1 DEF vars, IInv, NotBegun, Refused, One, Several, Whole, IsSeq
  <1>2. CASE Done
    BY <1>1, <1>2 DEF Done
  <1> QED BY <1>1, <1>2, StartStep, WhileStep, ForStep DEF Next, Step

LEMMA Invariant == Spec => []IInv
  BY InitInv, Inductive, PTL DEF Spec

\* Whatever the number of transactions and whatever they hash to, the loop
\* ends with the hash of the only transaction, refuses a size other than 1, 2,
\* 4 and 8, and does not end for 2, 4 and 8: what Coin gives Node
\* (Blockchain::validateMerkleRoot, Block::setMerkleRoot).
THEOREM MerkleOutcome == Spec => []EndsAsNodeAssumes
  <1>1. IInv => EndsAsNodeAssumes
    BY DEF IInv, NotBegun, Refused, One, Several, EndsAsNodeAssumes, MerkleSpins,
           MerkleRoot, MerkleSizes
  <1> QED BY <1>1, Invariant, PTL
=============================================================================
