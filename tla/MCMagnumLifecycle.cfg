CONSTANTS
  Steps <- MCSteps
  NeverSkip = {}
  Lifecycle = {}
  Completion = {}
  Apply = "opentofu-apply"
  MaxFaults = 2
  Id = {"c1", "c2"}
SPECIFICATION FairSpec
INVARIANTS
  TypeOK
  OneCluster
  NoOrphan
PROPERTY DestroyEnds
