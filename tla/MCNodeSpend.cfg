SPECIFICATION Spec
CONSTANTS
  Blocks <- ThreeBlocks
  Txs <- SpendTxs
  Verifier <- MCVerifier
  Lucky <- MCLucky
  PoolThreshold = 2
  CustomizeCount = 4
  MaxBlocks = 3
  MaxPool = 2
  MaxLeaks = 1
  MaxOutbox = 1
INVARIANTS
  OutputsMatchChain
  DanglingOnlyWhilePending
