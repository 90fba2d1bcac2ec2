SPECIFICATION FairSpec
CONSTANTS
  a = a
  b = b
  p1 = p1
  p2 = p2
  nobody = nobody
  Nobody = nobody
  Process <- MCProcess
  Path <- MCPath
  Plans <- MCPlans
  Filters <- MCFilters
  KeyFound = {p1}
  Prefix <- Distinct
  Faults = {"check", "write", "readback", "remove", "state", "restore",
            "crash", "edit", "race", "rotate"}
  MaxFaults = 1
  MaxId = 5
INVARIANTS TypeOK OwnedExactly SuccessIsTrue
PROPERTIES TheirsAreKept FilterRespected Converges
