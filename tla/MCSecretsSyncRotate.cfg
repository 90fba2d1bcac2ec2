SPECIFICATION FairSpec
CONSTANTS
  a = a
  b = b
  p1 = p1
  p2 = p2
  nobody = nobody
  Nobody = nobody
  Process <- MCProcess
  Path <- MCPath
  Plans <- MCPlans
  Filters <- MCFilters
  KeyFound = {p1, p2}
  Prefix <- Distinct
  Faults = {"rotate"}
  MaxFaults = 1
  MaxId = 5
PROPERTY DeployedMatchConfig
