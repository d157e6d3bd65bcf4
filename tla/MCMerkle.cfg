SPECIFICATION FairSpec
CONSTANTS
  Txs <- TwoKinds
  MaxTxs = 9
INVARIANT EndsAsNodeAssumes
PROPERTY ReturnsUnlessItSpins
