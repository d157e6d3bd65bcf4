------------------------------- MODULE MCNode -------------------------------
(***************************************************************************)
(* Instances of Node for TLC: a few blocks and transactions of every kind  *)
(* the code tells apart.                                                   *)
(***************************************************************************)
EXTENDS Node

Key == "alice"

Coinbase(value, address) ==
  [inputs |-> << >>, tails |-> << [intValue |-> value, address |-> address] >>,
   pubKey |-> "nokey", signature |-> "nosig"]

BlockOf(number, prev, txs) ==
  [bits |-> Bits, currentNumber |-> number, prevBlock |-> prev,
   merkleRoot |-> MerkleRoot(txs), txs |-> txs]

Pay == << Coinbase(Reward, Sha(Key)) >>

\* Three linked blocks that pay alice, ...
B0 == BlockOf(0, Zero32, Pay)
B1 == BlockOf(1, Sha(BlockData(B0)), Pay)
B2 == BlockOf(2, Sha(BlockData(B1)), Pay)
\* ... a first transaction that pays too much, a wrong root, and two transactions.
BadReward == BlockOf(0, Zero32, << Coinbase(Reward + 1, Sha(Key)) >>)
BadRoot == [B0 EXCEPT !.merkleRoot = Zero32]
TwoTxs == [B0 EXCEPT !.txs = Pay \o Pay]

Ref(n) == [output |-> [blockNumber |-> n, txeNumber |-> 0], tailNum |-> 0]

Tx(inputs, value, signature) ==
  [inputs |-> inputs, tails |-> << [intValue |-> value, address |-> Zero32] >>,
   pubKey |-> Key, signature |-> signature]

Spend0  == Tx(<< Ref(0) >>, 60, "ok")
Spend01 == Tx(<< Ref(0), Ref(1) >>, 200, "ok")
Greedy1 == Tx(<< Ref(1) >>, 101, "ok")
Forged  == Tx(<< Ref(0) >>, 60, "bad")
NoKey   == Tx(<< Ref(0) >>, 60, "throws")
NoInput == Tx(<< >>, 0, "ok")
\* operator== takes this one for the first transaction of a block.
Reward1 == Coinbase(Reward, Zero32)

MCVerifier(t) == IF t.signature = "nosig" THEN "throws" ELSE t.signature
MCLucky(data) == data[2] % 2 = 1
KindsOfBlocks == {B0, B1, BadReward, BadRoot, TwoTxs}
KindsOfTxs == {Spend0, Spend01, Greedy1, NoInput, Forged, NoKey, Reward1}
ThreeBlocks == {B0, B1, B2}
SpendTxs == {Spend0, Spend01}
LiveBlocks == {B0, BadRoot, TwoTxs}
LiveTxs == {Spend0}
=============================================================================
