SPECIFICATION Spec
CONSTANTS
  Key <- MyKey
  Payees <- TwoPayees
  Amounts <- OneAmount
  Loose <- Bytes
  MaxBlocks = 2
  MaxSum = 200
  MaxShared = 2
  MaxTyped = 2
  MaxCommands = 7
INVARIANTS
  TypeOK
  SumWithinEarned
  RefusesOnlyPenniless
  SharedIsWhatWasTyped
  SharedNamesChain
  SharedIsVoid
CHECK_DEADLOCK FALSE
