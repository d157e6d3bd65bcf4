SPECIFICATION FairSpec
CONSTANTS
  Base = 6
  IntSize = 2
  HashSize = 3
  KeySize = 1
  SignatureSize = 1
  Spaces <- White
  CommandSize = 3
  Name <- Names
  Memory = 32
  Letters <- MyLetters
  MaxCuts = 1
INVARIANTS
  TypeOK
  ShortPayloadOnlyZeroes
  FailsOnlyForCause
PROPERTIES
  DeliverySpec
  Arrives
CHECK_DEADLOCK FALSE
