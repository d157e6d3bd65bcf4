SPECIFICATION Spec
CONSTANTS
  Nodes = {hub, a, b}
  Hub = hub
  Hosts <- StarHosts
  CustomizeCount = 7
  MaxStarts = 3
  MaxCrashes = 0
  MaxMined = 0
INVARIANTS
  NeverStuck
  PeersMutual
CHECK_DEADLOCK FALSE
