---------------------------- MODULE MCKeyLifecycle ----------------------------
(* KeyLifecycle on the four fingerprints k1..k4: k1 starts as the primary  *)
(* and is in every rule, k2 belongs to a second user.                      *)
EXTENDS KeyLifecycle, TLC

CONSTANTS c1, k1, k2, k3, k4, r1, r2, m1, m2, o1, o2

MCRuleOf   == (m1 :> r1) @@ (m2 :> r2)
MCRuleKeys == (r1 :> {k1, k2}) @@ (r2 :> {k1})

MCOneRuleOf   == (m1 :> r1)
MCOneRuleKeys == (r1 :> {k1, k2})

MCBegins ==
  [p \in Operator |-> {"rotate", "complete", "revoke", "emergency", "reconcile", "set-primary"}]
MCRotateEmergency == (o1 :> {"rotate", "complete"}) @@ (o2 :> {"emergency"})

NewKeys   == Permutations({k3, k4})

(* Bound: after a write was cut off there is one new key in all, and none  *)
(* when it was .sops.yaml and the process died in it or another fault      *)
(* happens.                                                                *)
FewKeysAfterACut ==
  torn # {} => Cardinality(reg) <= IF "config" \in torn /\ faults # {} THEN 2 ELSE 3
===============================================================================
