CONSTANTS
  c1 = c1
  k1 = k1
  k2 = k2
  k3 = k3
  k4 = k4
  r1 = r1
  r2 = r2
  m1 = m1
  m2 = m2
  o1 = o1
  o2 = o2
  Cluster = {c1}
  TheCluster = c1
  Fingerprint = {k1, k2, k3, k4}
  NoKey = NoKey
  Origin = {NoKey, k1, k2, k3, k4}
  Operator = {o1, o2}
  Rule = {r1}
  Manifest = {m1}
  RuleOf <- MCOneRuleOf
  RuleKeys <- MCOneRuleKeys
  Primary0 = k1
  UserKeys = {k1, k2}
  KeysFile = {k1}
  InitKey = k1
  KeyManagerWired = TRUE
  Envs = {"slot"}
  MaxFaults = 0
  Begins <- MCRotateEmergency
  Faults = {}
SPECIFICATION Spec
SYMMETRY NewKeys
INVARIANT OneRotation
PROPERTY NeverReinstated
