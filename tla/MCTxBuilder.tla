---------------------------- MODULE MCTxBuilder ----------------------------
(***************************************************************************)
(* TxBuilder for TLC: two inputs, two tails, one key pair.                 *)
(***************************************************************************)
EXTENDS TxBuilder

Input(n) == [output |-> [blockNumber |-> n, txeNumber |-> 0], tailNum |-> 0]
TwoInputs == {Input(0), Input(1)}
TwoTails == {[intValue |-> v, address |-> Zero32] : v \in {1, 2}}
OneKey == {"alice"}
=============================================================================
