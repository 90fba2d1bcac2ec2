----------------------------- MODULE PromotionSpec -----------------------------
(***************************************************************************)
(* What the promotion of a generated tree promises                         *)
(* (internal/gitops/tree_promotion.go, ownership.go): one atomic step that *)
(* puts every planned file in its place, takes the stale ones away and     *)
(* records what it owns, or no step at all.  It takes a file only when the *)
(* file is missing, as recorded, already as planned, or kept in a backup.  *)
(*                                                                         *)
(* The promise is void for a file that somebody edits while a promotion is *)
(* under way, or that a crash or a failed restore leaves behind; such a    *)
(* file is Unsure until a promotion has taken it again.                    *)
(***************************************************************************)
CONSTANTS File, Seed, Content, User, Missing, NoRecord, Unsure

VARIABLES
  tree,              (* what is at each path                               *)
  owned,             (* what the ledgers say of it                         *)
  kept               (* the backups, pairs of a path and its content       *)

avars == <<tree, owned, kept>>

Fresh == [f \in File |-> NoRecord]

AInit == owned = Fresh /\ kept = {}

May(f) ==
  \/ tree[f] \in {Missing, Unsure, owned[f], tree'[f]}
  \/ <<f, tree[f]>> \in kept'

Promote ==
  /\ kept \subseteq kept'
  /\ \E planned \in SUBSET (File \ Seed) :
     \E stale \in SUBSET ((File \ Seed) \ planned), seeded \in SUBSET Seed :
       /\ \A f \in planned :
            May(f) /\ tree'[f] \in Content /\ owned'[f] = tree'[f]
       /\ \A f \in stale :
            /\ owned[f] # NoRecord /\ tree[f] \in {Missing, Unsure, owned[f]}
            /\ tree'[f] = Missing /\ owned'[f] = NoRecord
       /\ \A f \in seeded : tree[f] \in {Missing, Unsure} /\ tree'[f] \in Content
       /\ \A f \in File \ (planned \union stale \union seeded) : tree'[f] = tree[f]
       /\ \A f \in File \ (planned \union stale) : owned'[f] = owned[f]

Edit ==
  /\ \E f \in File, v \in User \union {Missing} : tree' = [tree EXCEPT ![f] = v]
  /\ UNCHANGED <<owned, kept>>

Void ==
  /\ kept \subseteq kept'
  /\ \E F \in SUBSET File :
       /\ tree'  = [f \in File |-> IF f \in F THEN Unsure ELSE tree[f]]
       /\ owned' = [f \in File |-> IF f \in F THEN Unsure ELSE owned[f]]

ANext == Promote \/ Edit \/ Void

ASpec == AInit /\ [][ANext]_avars
================================================================================
