SPECIFICATION Spec
CONSTANTS
  Nodes = {a, b}
  Hub = a
  Hosts <- MutualHosts
  CustomizeCount = 1
  MaxStarts = 3
  MaxCrashes = 1
  MaxMined = 1
INVARIANTS
  TypeOK
  AssertsHold
  NeverBothWait
PROPERTIES
  SyncNeverRefused
  DiesOnlyAfterAKill
SYMMETRY Renamings
CHECK_DEADLOCK FALSE
