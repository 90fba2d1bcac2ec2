---------------------------- MODULE MCSecretsSync -----------------------------
(* Two services, two operators, and a configuration that changes.          *)
EXTENDS SecretsSync

CONSTANTS a, b, p1, p2, nobody

MCPath    == {a, b}
MCProcess == {p1, p2}

(* The first configuration has both manifests, the second changes one and  *)
(* drops the other.                                                        *)
Both == (a :> "v1") @@ (b :> "v1")
OnlyA == a :> "v2"

MCPlans   == <<Both, OnlyA>>
MCFilters == {MCPath, {a}}

Distinct == [v \in {"v1", "v2"} |-> v]
===============================================================================
