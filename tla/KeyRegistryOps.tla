---------------------------- MODULE KeyRegistryOps ----------------------------
(***************************************************************************)
(* The contents of the key registry (internal/secrets/registry.go) and the *)
(* mutations its transactions apply to them.                               *)
(*                                                                         *)
(* A registry is a set of entries.  A mutation is described by the set of  *)
(* registries it may save: the set is empty when the transaction is        *)
(* refused, in which case the file on disk is left as it was.              *)
(***************************************************************************)
CONSTANTS
  Cluster,       (* cluster names                                          *)
  Fingerprint,   (* key fingerprints; for an Age key this is the recipient *)
  NoKey,         (* the empty fingerprint                                  *)
  Origin         (* what the rotated_from field may hold                   *)

ASSUME NoKeyIsNoFingerprint == NoKey \notin Fingerprint

ASSUME OriginsAreKeys == NoKey \in Origin /\ Origin \subseteq Fingerprint \cup {NoKey}

KeyType == {"age", "ssh"}
Status  == {"active", "archived", "revoked"}

Entry == [cluster : Cluster, type : KeyType, fp : Fingerprint, status : Status,
          primary : BOOLEAN, from : Origin]

(* An update carries "" or NoKey in the fields it does not mention.        *)
Update == [cluster : Cluster, type : KeyType, fp : Fingerprint,
           status : Status \cup {""}, primary : BOOLEAN, from : Origin]

InGroup(e, c, t) == e.cluster = c /\ e.type = t
SameGroup(a, b)  == InGroup(a, b.cluster, b.type)
SameKey(a, b)    == SameGroup(a, b) /\ a.fp = b.fp

IsActive(e)      == e.status = "active"
IsPrimary(e)     == IsActive(e) /\ e.primary

ActiveAge(reg) == {e.fp : e \in {x \in reg : x.type = "age" /\ IsActive(x)}}

(* saveRegistry encrypts to the active Age keys of the registry it is      *)
(* about to write, and refuses to write one that nobody could decrypt.     *)
Savable(reg) == \E e \in reg : e.type = "age" /\ IsActive(e)

-----------------------------------------------------------------------------
(* The transactions.                                                       *)

(* Defect: only an active entry counts as a duplicate.                     *)
RegisterKeyOverInactive(reg, e) ==
  {r \in {reg \cup {e}} :
     /\ \A x \in reg : IsActive(x) => ~SameKey(x, e)
     /\ e.primary => /\ IsActive(e)
                     /\ \A x \in reg : SameGroup(x, e) => ~IsPrimary(x)
     /\ Savable(r)}

RegisterKey(reg, e) ==
  {r \in {reg \cup {e}} :
     /\ \A x \in reg : ~SameKey(x, e)
     /\ e.primary => /\ IsActive(e)
                     /\ \A x \in reg : SameGroup(x, e) => ~IsPrimary(x)
     /\ Savable(r)}

(* Defect: the new primary is marked and the previous one is left marked.  *)
CrownedBesideOthers(reg, c, t, fp) ==
  {IF InGroup(x, c, t) /\ x.fp = fp THEN [x EXCEPT !.primary = TRUE] ELSE x : x \in reg}

Crowned(reg, c, t, fp) ==
  {IF InGroup(x, c, t) THEN [x EXCEPT !.primary = (x.fp = fp)] ELSE x : x \in reg}

SetPrimaryKey(reg, c, t, fp) ==
  {r \in {Crowned(reg, c, t, fp)} :
     /\ \E x \in reg : InGroup(x, c, t) /\ x.fp = fp /\ IsActive(x)
     /\ r = reg \/ Savable(r)}

(* Every member of the group loses the primary role; the predecessor is    *)
(* archived when the replacement is immediate (SSH keys).                  *)
Demoted(reg, e, old, archiveOld) ==
  {IF SameGroup(x, e)
   THEN [x EXCEPT !.primary = FALSE,
                  !.status  = IF archiveOld /\ x.fp = old THEN "archived" ELSE @]
   ELSE x : x \in reg}

replacePrimary(reg, old, e, archiveOld) ==
  {r \in {Demoted(reg, e, old, archiveOld) \cup {[e EXCEPT !.primary = TRUE]}} :
     /\ \A x \in reg : ~SameKey(x, e)
     /\ \E x \in reg : SameGroup(x, e) /\ x.fp = old /\ IsPrimary(x)
     /\ IsActive(e)
     /\ Savable(r)}

(* Defect: a key that stops being active keeps its primary flag.           *)
UpdateKeyStatusKeepsFlag(reg, c, t, status) ==
  LET active == {x \in reg : InGroup(x, c, t) /\ IsActive(x)}
  IN  {r \in {(reg \ {x}) \cup {[x EXCEPT !.status = status]} : x \in active} :
         /\ \A x, y \in active : x = y
         /\ Savable(r)}

(* The form without a fingerprint acts only on the sole active key of its  *)
(* group.                                                                  *)
UpdateKeyStatus(reg, c, t, status) ==
  LET active == {x \in reg : InGroup(x, c, t) /\ IsActive(x)}
  IN  {r \in {(reg \ {x}) \cup {[x EXCEPT !.status = status,
                                         !.primary = @ /\ status = "active"]}
              : x \in active} :
         /\ \A x, y \in active : x = y
         /\ Savable(r)}

(* Defect: a field the update does not mention is blanked.                 *)
mergeKeyEntryBlanking(x, u) ==
  [x EXCEPT !.status = u.status, !.from = u.from, !.primary = u.primary]

mergeKeyEntry(x, u) ==
  [x EXCEPT !.status  = IF u.status = "" THEN @ ELSE u.status,
            !.from    = IF u.from = NoKey THEN @ ELSE u.from,
            !.primary = u.primary]

UpdateKey(reg, u) ==
  {r \in {(reg \ {x}) \cup {mergeKeyEntry(x, u)} : x \in {y \in reg : SameKey(y, u)}} :
     /\ \A x \in r : SameKey(x, u) /\ x.primary =>
          /\ IsActive(x)
          /\ \A y \in r : SameGroup(x, y) /\ IsPrimary(y) => SameKey(x, y)
     /\ Savable(r)}

(* A batch is applied in memory as a whole and saved once.                 *)
Merged(reg, batch) ==
  {x \in reg : \A u \in batch : ~SameKey(x, u)}
    \cup {mergeKeyEntry(p[1], p[2]) : p \in {q \in reg \X batch : SameKey(q[1], q[2])}}

UpdateKeys(reg, batch) ==
  {r \in {Merged(reg, batch)} :
     /\ \A u \in batch : \E x \in reg : SameKey(x, u)
     /\ \A u, v \in batch : SameKey(u, v) => u = v
     /\ \A x \in r : (\E u \in batch : SameKey(x, u)) /\ x.primary => IsActive(x)
     /\ \A x, y \in r : SameGroup(x, y) /\ IsPrimary(x) /\ IsPrimary(y) => SameKey(x, y)
     /\ Savable(r)}

(* A rebuild forgets the registry and starts again from the public key     *)
(* files it can read, one per cluster and type.                            *)
RebuildFromFiles(files) ==
  {r \in {{[cluster |-> f.cluster, type |-> f.type, fp |-> f.fp,
            status |-> "active", primary |-> FALSE, from |-> NoKey] : f \in files}} :
     Savable(r)}
===============================================================================
