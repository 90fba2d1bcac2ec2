CONSTANTS
  Cluster = {c1}
  Fingerprint = {k1, k2}
  NoKey = NoKey
  Origin = {NoKey}
  Process = {p1, p2}
  Nobody = Nobody
  Batch <- MCBatch
SPECIFICATION Spec
INVARIANTS
  TypeOK
  UniqueFingerprints
  PrimariesActive
  OnePrimary
PROPERTY AtomicTransactions
