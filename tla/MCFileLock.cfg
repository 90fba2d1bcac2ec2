CONSTANTS
  Process = {p1, p2}
  Nobody = Nobody
  File = {f1, f2, f3}
  NoFile = NoFile
  Breaks = TRUE
  Expiry = TRUE
SPECIFICATION FairLockSpec
INVARIANTS
  LockTypeOK
  FileNamesHolder
PROPERTY CommandEnds
