CONSTANTS
  File = {"app", "readme", "custom"}
  Global = {"readme"}
  Seed = {"custom"}
  Content = {"a", "b"}
  User = {"u"}
  MaxFaults = 1
  MaxEdits = 1
SPECIFICATION Spec
INVARIANTS
  TypeOK
  UserWorkKept
PROPERTY AtomicPromotion
CHECK_DEADLOCK FALSE
