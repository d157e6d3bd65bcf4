SPECIFICATION FairSpec
CONSTANTS
  Nodes = {a, b}
  Hub = a
  Hosts <- MutualHosts
  CustomizeCount = 7
  MaxStarts = 3
  MaxCrashes = 1
  MaxMined = 0
PROPERTIES
  HandshakesEnd
CHECK_DEADLOCK FALSE
