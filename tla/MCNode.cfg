SPECIFICATION Spec
CONSTANTS
  Blocks <- KindsOfBlocks
  Txs <- KindsOfTxs
  Verifier <- MCVerifier
  Lucky <- MCLucky
  PoolThreshold = 2
  CustomizeCount = 2
  MaxBlocks = 2
  MaxPool = 2
  MaxLeaks = 2
  MaxOutbox = 1
INVARIANTS
  TypeOK
  LocksHeld
  OneMiner
  ChainSound
PROPERTIES
  LeakFreezesChain
  SpendsStayInPool
  ChainLogSpec
