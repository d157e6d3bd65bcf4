SPECIFICATION FairSpec
CONSTANTS
  Txs <- TwoKinds
  MaxTxs = 2
PROPERTY RootIsComputed
