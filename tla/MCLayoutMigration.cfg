CONSTANTS
  Cluster = {"app", "dev", "dev-eu"}
  Moves <- MCMoves
  Optional <- MCOptional
  WithInfrastructure = {"dev", "dev-eu"}
  OtherDevice <- OnOtherDevice
  MaxTheirs = 1
  MaxFaults = 3
SPECIFICATION LayoutSpec
INVARIANTS
  LayoutTypeOK
  SuccessIsComplete
PROPERTIES
  NothingLost
  TheirsAreKept
CHECK_DEADLOCK FALSE
