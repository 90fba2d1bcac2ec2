CONSTANTS
  Process = {p1, p2}
  Nobody = Nobody
  File = {f1, f2, f3}
  NoFile = NoFile
  Breaks = FALSE
  Expiry = FALSE
SPECIFICATION LockSpec
INVARIANT MutualExclusion
