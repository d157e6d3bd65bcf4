-------------------------------- MODULE Coin --------------------------------
(***************************************************************************)
(* The data of the coin and the pure functions of Blockchain, Block and    *)
(* Transaction: what a block is hashed over, when a block links to the     *)
(* chain, when a transaction may be in first place, when two transactions  *)
(* compare equal.  Everything stateful is in Node.                         *)
(*                                                                         *)
(* Byte strings are abstracted to values: SHA-256 is the injective wrapper *)
(* Sha, a public key is any value but a tuple, an address is Sha(key).     *)
(* C++ indices (block number, transaction number, tail number) keep their  *)
(* zero base, the sequences they index are one-based.                      *)
(***************************************************************************)
EXTENDS Seqs, FiniteSets

\* SHA_256().process(x): no two inputs of a run collide.
Sha(x) == <<"sha256", x>>

\* secure_vector<uint8_t>(32, 0): the default prevBlock and merkleRoot, and
\* the address the node itself pays its customized blocks to.
Zero32 == <<"zero">>

\* Blockchain::bits, the only difficulty this node accepts.
Bits == 1

\* The reward a first transaction must pay (HARDCODED in the code).
Reward == 100

Output == [blockNumber : Nat, txeNumber : Nat]

\* One vector element of Transaction::availibleTxes.
AddedOutput == [output : Output, usedTails : Seq(BOOLEAN)]

\* A tail reference: what Input::getInfo returns.
TailRef == [output : Output, tailNum : Nat]

\* A transaction, whatever its keys, addresses and signature are.
IsTransaction(t) ==
  /\ t.inputs \in Seq(TailRef)
  /\ IsSeq(t.tails)
  /\ \A j \in DOMAIN t.tails : t.tails[j].intValue \in Nat

\* A block as Block::scanBroadcastedData leaves it: txsCount = txs.size().
IsBlock(b) ==
  /\ b.bits \in Nat
  /\ b.currentNumber \in Nat
  /\ IsSeq(b.txs)
  /\ \A i \in DOMAIN b.txs : IsTransaction(b.txs[i])

\* Block::getBlockData: what the hash of a block is taken over.
BlockData(b) == << b.prevBlock, b.currentNumber, b.merkleRoot, b.bits >>

\* Mutant: operator== that looks at the tails only.
SameTails(s, t) == Len(s.tails) = Len(t.tails)

\* Transaction::operator==: tails[i] is compared with tails[i] itself, so of
\* the tails only their number counts.
TxEqual(s, t) ==
  /\ s.inputs = t.inputs
  /\ Len(s.tails) = Len(t.tails)
  /\ s.pubKey = t.pubKey
  /\ s.signature = t.signature

\* Blockchain::validateFirstTxn.
ValidFirstTxn(t) ==
  /\ Len(t.inputs) = 0
  /\ Len(t.tails) = 1
  /\ t.tails[1].intValue = Reward

\* The sizes validateMerkleRoot and setMerkleRoot let through.
MerkleSizes == {1, 2, 4, 8}

\* The pairwise hashing loop assigns `hashes = tempHashes` inside its own for
\* loop: any size above one collapses to an empty vector, and the while loop
\* waits for a size of one for ever.
MerkleSpins(txs) == Len(txs) \in MerkleSizes \ {1}

\* The root of a block of one transaction is the hash of that transaction.
MerkleRoot(txs) == Sha(txs[1])

\* The early returns of validateBlock that come before the merkle root:
\* difficulty, number, hash of the last block.
Extends(b, chain) ==
  /\ b.bits = Bits
  /\ b.currentNumber = Len(chain)
  /\ b.currentNumber # 0 => b.prevBlock = Sha(BlockData(chain[Len(chain)]))

\* A block the whole of validateBlock accepts on top of chain.
Acceptable(b, chain) ==
  /\ Extends(b, chain)
  /\ Len(b.txs) = 1
  /\ b.merkleRoot = MerkleRoot(b.txs)
  /\ ValidFirstTxn(b.txs[1])

\* Block::addFirstTxe, with the key and signature of a default Transaction.
FirstTxe(address) ==
  [inputs |-> << >>, tails |-> << [intValue |-> Reward, address |-> address] >>,
   pubKey |-> "nokey", signature |-> "nosig"]

\* One round of Blockchain::customize: a block paid to address on top of
\* chain; the prevBlock of a default Block stays on the first one.
CustomBlock(address, chain) ==
  LET txs == << FirstTxe(address) >>
  IN [bits |-> Bits, currentNumber |-> Len(chain),
      prevBlock |-> IF Len(chain) = 0 THEN Zero32
                                      ELSE Sha(BlockData(chain[Len(chain)])),
      merkleRoot |-> MerkleRoot(txs), txs |-> txs]

\* Mutant: the entry names the next block.
NextBlockOutputs(b) ==
  [i \in DOMAIN b.txs |->
     [output |-> [blockNumber |-> b.currentNumber + 1, txeNumber |-> i - 1],
      usedTails |-> [j \in DOMAIN b.txs[i].tails |-> FALSE]]]

\* Blockchain::setAvailibleTxes: one unused entry per transaction of b.
NewOutputs(b) ==
  [i \in DOMAIN b.txs |->
     [output |-> [blockNumber |-> b.currentNumber, txeNumber |-> i - 1],
      usedTails |-> [j \in DOMAIN b.txs[i].tails |-> FALSE]]]

\* Mutant: the test inverted.
NoneUsed(entry) == \A j \in DOMAIN entry.usedTails : ~entry.usedTails[j]

\* The test clearAvailibleTxes erases an entry on.
AllUsed(entry) == \A j \in DOMAIN entry.usedTails : entry.usedTails[j]

\* Is the referenced transaction in the chain, or would blockChain[...] read
\* past the end of a vector?
InChain(out, chain) ==
  /\ out.blockNumber < Len(chain)
  /\ out.txeNumber < Len(chain[out.blockNumber + 1].txs)

\* blockChain[out.blockNumber].txs[out.txeNumber].tails[n]
TailAt(out, n, chain) ==
  chain[out.blockNumber + 1].txs[out.txeNumber + 1].tails[n + 1]
=============================================================================
