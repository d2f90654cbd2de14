SPECIFICATION FairSpec
CONSTANTS
  Device <- Devices
  Message <- Messages
  Targets <- Routing
  Globbed <- OverlappingFiles
  MaxFiles = 2
  NoFile = NoFile
  MaxFaults = 1
INVARIANTS
  SpoolInv
  HandoverIsSafe
  ReadOnce
PROPERTIES
  Arrives
