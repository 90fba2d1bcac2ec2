---------------------------- MODULE KeyRegistrySpec ----------------------------
(***************************************************************************)
(* What the key registry promises its callers: every mutation is one       *)
(* atomic transaction on the whole registry.  The callers may send any     *)
(* request the interface accepts (KeyRegistry in                           *)
(* internal/secrets/interfaces.go).                                        *)
(***************************************************************************)
EXTENDS KeyRegistryOps

CONSTANT Batch    (* the batches of updates a caller may send *)

ASSUME BatchesAreUpdates == Batch \subseteq SUBSET Update

VARIABLE reg

(* The public key files a rebuild may find: the file is named after the    *)
(* cluster, in one directory per type, so there is one per cluster and     *)
(* type.                                                                   *)
KeyFiles ==
  {F \in SUBSET [cluster : Cluster, type : KeyType, fp : Fingerprint] :
     \A f, g \in F : SameGroup(f, g) => f = g}

Transaction(before, after) ==
  \/ \E e \in Entry : after \in RegisterKey(before, e)
  \/ \E c \in Cluster, t \in KeyType, fp \in Fingerprint :
       after \in SetPrimaryKey(before, c, t, fp)
  \/ \E old \in Fingerprint, e \in Entry, archiveOld \in BOOLEAN :
       after \in replacePrimary(before, old, e, archiveOld)
  \/ \E c \in Cluster, t \in KeyType, s \in Status :
       after \in UpdateKeyStatus(before, c, t, s)
  \/ \E u \in Update : after \in UpdateKey(before, u)
  \/ \E batch \in Batch : after \in UpdateKeys(before, batch)
  \/ \E files \in KeyFiles : after \in RebuildFromFiles(files)

RInit == reg = {}
RNext == Transaction(reg, reg')
RSpec == RInit /\ [][RNext]_reg

-----------------------------------------------------------------------------
(* Every entry the registry holds is well formed.                          *)
WellFormed(r) == r \subseteq Entry

(* A fingerprint names one entry of its cluster and type, whatever the     *)
(* status: rotation, revocation and selection look entries up by it and    *)
(* stop at the first match.                                                *)
UniqueFingerprintsIn(r) == \A x, y \in r : SameKey(x, y) => x = y

(* Rotation replaces "the" primary and refuses to choose between two, and  *)
(* a retired key must not keep the role.                                   *)
PrimariesActiveIn(r) == \A x \in r : x.primary => IsActive(x)

OnePrimaryIn(r) ==
  \A x, y \in r : SameGroup(x, y) /\ IsPrimary(x) /\ IsPrimary(y) => x = y

RegistryInv(r) ==
  /\ WellFormed(r)
  /\ UniqueFingerprintsIn(r)
  /\ PrimariesActiveIn(r)
  /\ OnePrimaryIn(r)
===============================================================================
