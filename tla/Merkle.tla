------------------------------- MODULE Merkle -------------------------------
(***************************************************************************)
(* The pairwise hashing loop that Blockchain::validateMerkleRoot and       *)
(* Block::setMerkleRoot share, one assignment of `hashes` at a time.  Node *)
(* uses its outcome (Coin's MerkleSizes, MerkleSpins and MerkleRoot); this *)
(* module shows that the outcome is the loop's.                            *)
(***************************************************************************)
EXTENDS Coin

CONSTANTS Txs,    \* transactions of a block
          MaxTxs  \* bound: block sizes tried

ASSUME MaxTxsAssumption == MaxTxs \in Nat

VARIABLES txs,        \* block.txs
          pc,         \* "start", "while", "for", "done"
          hashes, tempHashes,
          i,          \* the index of the for loop, from 0
          root        \* what the function ends with: hashes[0], or Zero32

vars == << txs, pc, hashes, tempHashes, i, root >>

Init ==
  /\ \E n \in 0 .. MaxTxs : txs \in [1 .. n -> Txs]
  /\ pc = "start" /\ hashes = << >> /\ tempHashes = << >> /\ i = 0
  /\ root = Zero32

\* Mutant: no size test.
StartAnySize ==
  /\ pc = "start"
  /\ pc' = "while" /\ hashes' = [n \in DOMAIN txs |-> Sha(txs[n])]
  /\ UNCHANGED << txs, tempHashes, i, root >>

\* The size test, and the hashes of the transactions.
Start ==
  /\ pc = "start"
  /\ IF Len(txs) \in MerkleSizes
       THEN /\ pc' = "while"
            /\ hashes' = [n \in DOMAIN txs |-> Sha(txs[n])]
       ELSE pc' = "done" /\ UNCHANGED hashes
  /\ UNCHANGED << txs, tempHashes, i, root >>

\* while (hashes.size() != 1)
While ==
  /\ pc = "while"
  /\ IF Len(hashes) = 1
       THEN pc' = "done" /\ root' = hashes[1] /\ UNCHANGED << tempHashes, i >>
       ELSE pc' = "for" /\ tempHashes' = << >> /\ i' = 0 /\ UNCHANGED root
  /\ UNCHANGED << txs, hashes >>

Paired == IF i % 2 = 1
            THEN Append(tempHashes, Sha(<< hashes[i], hashes[i + 1] >>))
            ELSE tempHashes

\* Mutant: the assignment where it belongs, behind the for loop.
ForAssignsLast ==
  /\ pc = "for"
  /\ IF i < Len(hashes)
       THEN tempHashes' = Paired /\ i' = i + 1 /\ UNCHANGED << pc, hashes >>
       ELSE pc' = "while" /\ hashes' = tempHashes /\ UNCHANGED << tempHashes, i >>
  /\ UNCHANGED << txs, root >>

\* The for loop; hashes = tempHashes is its last statement.
For ==
  /\ pc = "for"
  /\ IF i < Len(hashes)
       THEN tempHashes' = Paired /\ hashes' = Paired /\ i' = i + 1 /\ UNCHANGED pc
       ELSE pc' = "while" /\ UNCHANGED << hashes, tempHashes, i >>
  /\ UNCHANGED << txs, root >>

Done == pc = "done" /\ UNCHANGED vars

Step == Start \/ While \/ For
Next == Step \/ Done

Spec == Init /\ [][Next]_vars
FairSpec == Spec /\ WF_vars(Step)

-----------------------------------------------------------------------------
\* The loop ends exactly as Node assumes: with a root for one transaction
\* only, the hash of that transaction, and with a refusal for sizes other
\* than 1, 2, 4 and 8.
EndsAsNodeAssumes ==
  pc = "done" => /\ ~MerkleSpins(txs)
                 /\ root = IF Len(txs) = 1 THEN MerkleRoot(txs) ELSE Zero32

\* Where Node does not let validateMerkleRoot spin, it returns.
ReturnsUnlessItSpins == ~MerkleSpins(txs) ~> pc = "done"

\* block.cpp allows "8 txs in a block maximum", and the size test lets 2, 4
\* and 8 through: the root of such a block is computed.
RootIsComputed == Len(txs) \in MerkleSizes ~> pc = "done"
=============================================================================
