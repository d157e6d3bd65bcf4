-------------------------------- MODULE MCWire --------------------------------
(***************************************************************************)
(* Wire for TLC: bytes are digits to the base 6, a number has two of them, *)
(* a hash three, a key and a signature one.  A byte of 3 is white space.   *)
(***************************************************************************)
EXTENDS Wire

Names == [inv |-> << 1, 0, 0 >>, tx |-> << 2, 5, 0 >>, block |-> << 4, 5, 0 >>]
White == {3}

Coin(address, value) == [value |-> value, address |-> address]
Tx(inputs, tails) ==
  [inputs |-> inputs, tails |-> tails, pubKey |-> << 4 >>, signature |-> << 5 >>]
Block(count, txs) ==
  [version |-> 1, prevBlock |-> << 5, 3, 1 >>, number |-> 9, merkleRoot |-> << 0, 2, 4 >>,
   bits |-> 1, nonce |-> 40, txsCount |-> count, txs |-> txs]

Mine == << 1, 2, 3 >>
One == << [block |-> 1, txe |-> 8, hash |-> << 4, 0, 5 >>, tail |-> 2] >>

MyLetters ==
  {[type |-> MsgTx, items |-> << Tx(One, << Coin(Mine, 100) >>) >>],
   [type |-> MsgTx, items |-> << Tx(One, << Coin(<< >>, 100) >>) >>],
   [type |-> MsgBlock, items |-> << Block(1, << Tx(<< >>, << Coin(Mine, 100) >>) >>) >>],
   [type |-> MsgBlock, items |-> << Block(0, << >>), Block(1, << Tx(<< >>, << >>) >>) >>],
   [type |-> MsgBlock, items |-> << Block(0, << >>), Block(0, << >>), Block(0, << >>) >>]}
===============================================================================
