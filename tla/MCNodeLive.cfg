SPECIFICATION FairSpec
CONSTANTS
  Blocks <- LiveBlocks
  Txs <- LiveTxs
  Verifier <- MCVerifier
  Lucky <- MCLucky
  PoolThreshold = 1
  CustomizeCount = 2
  MaxBlocks = 2
  MaxPool = 1
  MaxLeaks = 1
  MaxOutbox = 1
PROPERTIES
  StopReturns
  AddBlockReturns
