--------------------------- MODULE KeyRegistryProofs ---------------------------
(***************************************************************************)
(* Proofs about KeyRegistry, for every set of clusters, fingerprints and   *)
(* processes.  The invariants of the contents are preserved by each        *)
(* transaction on its own (first part); the lock makes the copy a process  *)
(* loaded equal to the file until it saves (second part), so every save is *)
(* a transaction on the registry as it is.                                 *)
(***************************************************************************)
EXTENDS KeyRegistry, TLAPS

-----------------------------------------------------------------------------
(* RegisterKey keeps a registry sound.                                     *)
LEMMA RegisterKeySound ==
  ASSUME NEW r, RegistryInv(r), NEW e \in Entry, NEW s \in RegisterKey(r, e)
  PROVE  RegistryInv(s)
<1>1. /\ s = r \cup {e}
      /\ \A x \in r : ~SameKey(x, e)
      /\ e.primary => /\ IsActive(e)
                      /\ \A x \in r : SameGroup(x, e) => ~IsPrimary(x)
      /\ Savable(s)
  BY DEF RegisterKey
<1>2. WellFormed(s)
  BY <1>1 DEF RegistryInv, WellFormed
<1>3. UniqueFingerprintsIn(s)
  BY <1>1 DEF RegistryInv, UniqueFingerprintsIn, SameKey, SameGroup, InGroup
<1>4. PrimariesActiveIn(s)
  BY <1>1 DEF RegistryInv, PrimariesActiveIn
<1>5. OnePrimaryIn(s)
  BY <1>1 DEF RegistryInv, OnePrimaryIn, SameGroup, InGroup, IsPrimary
<1>6. QED
  BY <1>1, <1>2, <1>3, <1>4, <1>5 DEF RegistryInv

(* SetPrimaryKey keeps a registry sound: the fingerprint it crowns is the  *)
(* only one of its group, so the crown goes to one entry, an active one.   *)
LEMMA SetPrimaryKeySound ==
  ASSUME NEW r, RegistryInv(r), NEW c \in Cluster, NEW t \in KeyType,
         NEW fp \in Fingerprint, NEW s \in SetPrimaryKey(r, c, t, fp)
  PROVE  RegistryInv(s)
<1>1. /\ s = Crowned(r, c, t, fp)
      /\ s = r \/ Savable(s)
  BY DEF SetPrimaryKey
<1>2. PICK k \in r : InGroup(k, c, t) /\ k.fp = fp /\ IsActive(k)
  BY DEF SetPrimaryKey
<1> DEFINE After(x) == IF InGroup(x, c, t) THEN [x EXCEPT !.primary = (x.fp = fp)] ELSE x
<1>3. s = {After(x) : x \in r}
  BY <1>1 DEF Crowned
<1>4. r \subseteq Entry
  BY DEF RegistryInv, WellFormed
<1>5. \A x \in r : /\ After(x) \in Entry
                   /\ After(x).cluster = x.cluster
                   /\ After(x).type = x.type
                   /\ After(x).fp = x.fp
                   /\ After(x).status = x.status
                   /\ InGroup(x, c, t) => (After(x).primary <=> x.fp = fp)
                   /\ ~InGroup(x, c, t) => After(x) = x
  BY <1>4 DEF Entry
<1> HIDE DEF After
<1>6. WellFormed(s)
  BY <1>3, <1>5 DEF WellFormed
<1>7. UniqueFingerprintsIn(s)
  BY <1>3, <1>5 DEF RegistryInv, UniqueFingerprintsIn, SameKey, SameGroup, InGroup
<1>8. PrimariesActiveIn(s)
  <2> SUFFICES ASSUME NEW x \in r, After(x).primary
               PROVE  x.status = "active"
    BY <1>3, <1>5 DEF PrimariesActiveIn, IsActive
  <2>1. CASE InGroup(x, c, t)
    <3>1. x = k
      BY <1>2, <1>5, <2>1 DEF RegistryInv, UniqueFingerprintsIn, SameKey, SameGroup, InGroup
    <3> QED
      BY <3>1, <1>2 DEF IsActive
  <2>2. CASE ~InGroup(x, c, t)
    BY <2>2, <1>5 DEF RegistryInv, PrimariesActiveIn, IsActive
  <2> QED
    BY <2>1, <2>2
<1>9. OnePrimaryIn(s)
  <2> SUFFICES ASSUME NEW x \in r, NEW y \in r,
                      SameGroup(x, y), After(x).primary, After(y).primary,
                      IsActive(x), IsActive(y)
               PROVE  x = y
    BY <1>3, <1>5 DEF OnePrimaryIn, SameGroup, InGroup, IsPrimary, IsActive
  <2>1. CASE InGroup(x, c, t)
    BY <2>1, <1>5 DEF RegistryInv, UniqueFingerprintsIn, SameKey, SameGroup, InGroup
  <2>2. CASE ~InGroup(x, c, t)
    BY <2>2, <1>5 DEF RegistryInv, OnePrimaryIn, IsPrimary, SameGroup, InGroup
  <2> QED
    BY <2>1, <2>2
<1> QED
  BY <1>6, <1>7, <1>8, <1>9 DEF RegistryInv

(* replacePrimary keeps a registry sound: the successor is new to its      *)
(* group, and every other member of the group has lost the role.           *)
LEMMA replacePrimarySound ==
  ASSUME NEW r, RegistryInv(r), NEW old \in Fingerprint, NEW e \in Entry,
         NEW archiveOld \in BOOLEAN, NEW s \in replacePrimary(r, old, e, archiveOld)
  PROVE  RegistryInv(s)
<1> DEFINE new      == [e EXCEPT !.primary = TRUE]
           After(x) == IF SameGroup(x, e)
                       THEN [x EXCEPT !.primary = FALSE,
                                      !.status  = IF archiveOld /\ x.fp = old
                                                  THEN "archived" ELSE @]
                       ELSE x
<1>1. /\ s = {After(x) : x \in r} \cup {new}
      /\ \A x \in r : ~SameKey(x, e)
      /\ IsActive(e)
      /\ Savable(s)
  BY DEF replacePrimary, Demoted
<1>2. r \subseteq Entry
  BY DEF RegistryInv, WellFormed
<1>3. \A x \in r : /\ After(x) \in Entry
                   /\ After(x).cluster = x.cluster
                   /\ After(x).type = x.type
                   /\ After(x).fp = x.fp
                   /\ SameGroup(x, e) => ~After(x).primary
                   /\ ~SameGroup(x, e) => After(x) = x
  BY <1>2 DEF Entry, Status
<1>4. /\ new \in Entry
      /\ new.cluster = e.cluster
      /\ new.type = e.type
      /\ new.fp = e.fp
      /\ new.primary
      /\ IsActive(new)
  BY <1>1 DEF Entry, IsActive
<1> HIDE DEF After, new
<1>5. WellFormed(s)
  BY <1>1, <1>3, <1>4 DEF WellFormed
<1>6. UniqueFingerprintsIn(s)
  BY <1>1, <1>3, <1>4 DEF RegistryInv, UniqueFingerprintsIn, SameKey, SameGroup, InGroup
<1>7. PrimariesActiveIn(s)
  BY <1>1, <1>3, <1>4 DEF RegistryInv, PrimariesActiveIn
<1>8. OnePrimaryIn(s)
  <2>1. ASSUME NEW x \in r, NEW y \in r, SameGroup(After(x), After(y)),
               IsPrimary(After(x)), IsPrimary(After(y))
        PROVE  After(x) = After(y)
    BY <2>1, <1>3 DEF RegistryInv, OnePrimaryIn, SameGroup, InGroup, IsPrimary
  <2>2. ASSUME NEW x \in r, SameGroup(After(x), new) \/ SameGroup(new, After(x)),
               IsPrimary(After(x))
        PROVE  FALSE
    BY <2>2, <1>3, <1>4 DEF SameGroup, InGroup, IsPrimary
  <2> QED
    BY <1>1, <2>1, <2>2 DEF OnePrimaryIn
<1> QED
  BY <1>1, <1>5, <1>6, <1>7, <1>8 DEF RegistryInv

(* UpdateKeyStatus keeps a registry sound: the flag goes with the status.  *)
LEMMA UpdateKeyStatusSound ==
  ASSUME NEW r, RegistryInv(r), NEW c \in Cluster, NEW t \in KeyType,
         NEW status \in Status, NEW s \in UpdateKeyStatus(r, c, t, status)
  PROVE  RegistryInv(s)
<1> DEFINE After(x) == [x EXCEPT !.status = status, !.primary = @ /\ status = "active"]
<1>1. PICK k \in r : /\ InGroup(k, c, t) /\ IsActive(k)
                     /\ s = (r \ {k}) \cup {After(k)}
                     /\ Savable(s)
  BY DEF UpdateKeyStatus
<1>2. r \subseteq Entry
  BY DEF RegistryInv, WellFormed
<1>3. /\ After(k) \in Entry
      /\ After(k).cluster = k.cluster
      /\ After(k).type = k.type
      /\ After(k).fp = k.fp
      /\ After(k).status = status
      /\ After(k).primary => k.primary /\ status = "active"
  BY <1>1, <1>2 DEF Entry
<1> HIDE DEF After
<1>4. WellFormed(s)
  BY <1>1, <1>2, <1>3 DEF WellFormed
<1>5. UniqueFingerprintsIn(s)
  BY <1>1, <1>3 DEF RegistryInv, UniqueFingerprintsIn, SameKey, SameGroup, InGroup
<1>6. PrimariesActiveIn(s)
  BY <1>1, <1>3 DEF RegistryInv, PrimariesActiveIn, IsActive
<1>7. OnePrimaryIn(s)
  BY <1>1, <1>3 DEF RegistryInv, OnePrimaryIn, IsPrimary, IsActive, SameGroup, InGroup
<1> QED
  BY <1>1, <1>4, <1>5, <1>6, <1>7 DEF RegistryInv

(* A merge leaves the identity of an entry alone and takes the flag of the *)
(* update.                                                                 *)
LEMMA MergeKeepsIdentity ==
  ASSUME NEW x \in Entry, NEW u \in Update
  PROVE  /\ mergeKeyEntry(x, u) \in Entry
         /\ mergeKeyEntry(x, u).cluster = x.cluster
         /\ mergeKeyEntry(x, u).type = x.type
         /\ mergeKeyEntry(x, u).fp = x.fp
         /\ mergeKeyEntry(x, u).primary <=> u.primary
BY DEF mergeKeyEntry, Entry, Update

(* UpdateKey keeps a registry sound: it checks the merged entry against    *)
(* the rest of its group before it saves.                                  *)
LEMMA UpdateKeySound ==
  ASSUME NEW r, RegistryInv(r), NEW u \in Update, NEW s \in UpdateKey(r, u)
  PROVE  RegistryInv(s)
<1> DEFINE m(x) == mergeKeyEntry(x, u)
<1>1. PICK k \in r : SameKey(k, u) /\ s = (r \ {k}) \cup {m(k)}
  BY DEF UpdateKey
<1>2. /\ \A x \in s : SameKey(x, u) /\ x.primary =>
            /\ IsActive(x)
            /\ \A y \in s : SameGroup(x, y) /\ IsPrimary(y) => SameKey(x, y)
      /\ Savable(s)
  BY DEF UpdateKey
<1>3. r \subseteq Entry
  BY DEF RegistryInv, WellFormed
<1>4. /\ m(k) \in Entry
      /\ m(k).cluster = k.cluster
      /\ m(k).type = k.type
      /\ m(k).fp = k.fp
  BY <1>1, <1>3, MergeKeepsIdentity
<1>5. SameKey(m(k), u) /\ SameKey(m(k), k)
  BY <1>1, <1>4 DEF SameKey, SameGroup, InGroup
<1> HIDE DEF m
<1>6. WellFormed(s)
  BY <1>1, <1>3, <1>4 DEF WellFormed
<1>7. UniqueFingerprintsIn(s)
  BY <1>1, <1>4 DEF RegistryInv, UniqueFingerprintsIn, SameKey, SameGroup, InGroup
<1>8. PrimariesActiveIn(s)
  BY <1>1, <1>2, <1>5 DEF RegistryInv, PrimariesActiveIn
<1>9. OnePrimaryIn(s)
  <2>1. ASSUME NEW y \in s, IsPrimary(m(k)), IsPrimary(y),
               SameGroup(m(k), y) \/ SameGroup(y, m(k))
        PROVE  y = m(k)
    <3>1. SameKey(m(k), y)
      BY <2>1, <1>1, <1>2, <1>5 DEF SameGroup, InGroup, IsPrimary
    <3> QED
      BY <3>1, <1>1, <1>7 DEF UniqueFingerprintsIn
  <2>2. ASSUME NEW x \in r, NEW y \in r, SameGroup(x, y), IsPrimary(x), IsPrimary(y)
        PROVE  x = y
    BY <2>2 DEF RegistryInv, OnePrimaryIn
  <2> QED
    BY <1>1, <2>1, <2>2 DEF OnePrimaryIn
<1> QED
  BY <1>2, <1>6, <1>7, <1>8, <1>9 DEF RegistryInv

(* UpdateKeys keeps a registry sound: the checks are made on the result of *)
(* the whole batch.                                                        *)
LEMMA UpdateKeysSound ==
  ASSUME NEW r, RegistryInv(r), NEW batch \in SUBSET Update,
         NEW s \in UpdateKeys(r, batch)
  PROVE  RegistryInv(s)
<1>1. /\ s = Merged(r, batch)
      /\ \A u, v \in batch : SameKey(u, v) => u = v
      /\ \A x \in s : (\E u \in batch : SameKey(x, u)) /\ x.primary => IsActive(x)
      /\ \A x, y \in s : SameGroup(x, y) /\ IsPrimary(x) /\ IsPrimary(y) => SameKey(x, y)
      /\ Savable(s)
  BY DEF UpdateKeys
<1>2. r \subseteq Entry
  BY DEF RegistryInv, WellFormed
<1>3. ASSUME NEW x \in s
      PROVE  \/ x \in r /\ \A u \in batch : ~SameKey(x, u)
             \/ \E y \in r, u \in batch : /\ SameKey(y, u)
                                          /\ x = mergeKeyEntry(y, u)
                                          /\ SameKey(x, u) /\ SameKey(x, y)
                                          /\ x \in Entry
  <2>1. CASE x \in r /\ \A u \in batch : ~SameKey(x, u)
    BY <2>1
  <2>2. CASE \E p \in r \X batch : SameKey(p[1], p[2]) /\ x = mergeKeyEntry(p[1], p[2])
    <3>1. PICK y \in r, u \in batch : SameKey(y, u) /\ x = mergeKeyEntry(y, u)
      BY <2>2
    <3>2. /\ x \in Entry
          /\ x.cluster = y.cluster
          /\ x.type = y.type
          /\ x.fp = y.fp
      BY <3>1, <1>2, MergeKeepsIdentity
    <3>3. SameKey(x, u) /\ SameKey(x, y)
      BY <3>1, <3>2 DEF SameKey, SameGroup, InGroup
    <3> QED
      BY <3>1, <3>2, <3>3
  <2> QED
    BY <1>1, <2>1, <2>2 DEF Merged
<1>4. WellFormed(s)
  BY <1>2, <1>3 DEF WellFormed
<1>5. UniqueFingerprintsIn(s)
  <2> SUFFICES ASSUME NEW x \in s, NEW y \in s, SameKey(x, y)
               PROVE  x = y
    BY DEF UniqueFingerprintsIn
  <2>1. CASE x \in r /\ \A u \in batch : ~SameKey(x, u)
    <3>1. y \in r
      BY <2>1, <1>3 DEF SameKey, SameGroup, InGroup
    <3> QED
      BY <2>1, <3>1 DEF RegistryInv, UniqueFingerprintsIn
  <2>2. CASE \E z \in r, u \in batch : /\ SameKey(z, u)
                                       /\ x = mergeKeyEntry(z, u)
                                       /\ SameKey(x, u) /\ SameKey(x, z)
    <3>1. PICK z \in r, u \in batch : /\ SameKey(z, u)
                                      /\ x = mergeKeyEntry(z, u)
                                      /\ SameKey(x, u) /\ SameKey(x, z)
      BY <2>2
    <3>2. SameKey(y, u)
      BY <3>1 DEF SameKey, SameGroup, InGroup
    <3>3. PICK w \in r, v \in batch : /\ SameKey(w, v)
                                      /\ y = mergeKeyEntry(w, v)
                                      /\ SameKey(y, v) /\ SameKey(y, w)
      BY <3>2, <1>3
    <3>4. u = v
      BY <1>1, <3>2, <3>3 DEF SameKey, SameGroup, InGroup
    <3>5. z = w
      BY <3>1, <3>3 DEF RegistryInv, UniqueFingerprintsIn, SameKey, SameGroup, InGroup
    <3> QED
      BY <3>1, <3>3, <3>4, <3>5
  <2> QED
    BY <1>3, <2>1, <2>2
<1>6. PrimariesActiveIn(s)
  BY <1>1, <1>3 DEF RegistryInv, PrimariesActiveIn
<1>7. OnePrimaryIn(s)
  BY <1>1, <1>5 DEF OnePrimaryIn, UniqueFingerprintsIn
<1> QED
  BY <1>1, <1>4, <1>5, <1>6, <1>7 DEF RegistryInv

(* A rebuild yields a sound registry whatever files it finds.              *)
LEMMA RebuildFromFilesSound ==
  ASSUME NEW files \in KeyFiles, NEW s \in RebuildFromFiles(files)
  PROVE  RegistryInv(s)
<1> DEFINE Rebuilt(f) == [cluster |-> f.cluster, type |-> f.type, fp |-> f.fp,
                          status |-> "active", primary |-> FALSE, from |-> NoKey]
<1>1. s = {Rebuilt(f) : f \in files} /\ Savable(s)
  BY DEF RebuildFromFiles
<1>2. /\ files \subseteq [cluster : Cluster, type : KeyType, fp : Fingerprint]
      /\ \A f, g \in files : SameGroup(f, g) => f = g
  BY DEF KeyFiles
<1>3. \A f \in files : /\ Rebuilt(f) \in Entry
                       /\ Rebuilt(f).cluster = f.cluster
                       /\ Rebuilt(f).type = f.type
                       /\ ~Rebuilt(f).primary
  BY <1>2, OriginsAreKeys DEF Entry, Status
<1> HIDE DEF Rebuilt
<1>4. WellFormed(s)
  BY <1>1, <1>3 DEF WellFormed
<1>5. UniqueFingerprintsIn(s)
  BY <1>1, <1>2, <1>3 DEF UniqueFingerprintsIn, SameKey, SameGroup, InGroup
<1>6. PrimariesActiveIn(s) /\ OnePrimaryIn(s)
  BY <1>1, <1>3 DEF PrimariesActiveIn, OnePrimaryIn, IsPrimary
<1> QED
  BY <1>1, <1>4, <1>5, <1>6 DEF RegistryInv

(* Whatever a caller asks for, a transaction on a sound registry saves a   *)
(* sound registry.                                                         *)
LEMMA TransactionSound ==
  ASSUME NEW r, RegistryInv(r), NEW s, Transaction(r, s)
  PROVE  RegistryInv(s)
<1>1. CASE \E e \in Entry : s \in RegisterKey(r, e)
  BY <1>1, RegisterKeySound
<1>2. CASE \E c \in Cluster, t \in KeyType, fp \in Fingerprint : s \in SetPrimaryKey(r, c, t, fp)
  BY <1>2, SetPrimaryKeySound
<1>3. CASE \E old \in Fingerprint, e \in Entry, archiveOld \in BOOLEAN :
             s \in replacePrimary(r, old, e, archiveOld)
  BY <1>3, replacePrimarySound
<1>4. CASE \E c \in Cluster, t \in KeyType, st \in Status : s \in UpdateKeyStatus(r, c, t, st)
  BY <1>4, UpdateKeyStatusSound
<1>5. CASE \E u \in Update : s \in UpdateKey(r, u)
  BY <1>5, UpdateKeySound
<1>6. CASE \E batch \in Batch : s \in UpdateKeys(r, batch)
  BY <1>6, UpdateKeysSound, BatchesAreUpdates
<1>7. CASE \E files \in KeyFiles : s \in RebuildFromFiles(files)
  BY <1>7, RebuildFromFilesSound
<1> QED
  BY <1>1, <1>2, <1>3, <1>4, <1>5, <1>6, <1>7 DEF Transaction

-----------------------------------------------------------------------------
(* The inductive invariant.  Mutual exclusion is not enough for atomicity: *)
(* the copy of the process that holds the lock has to be the file itself   *)
(* up to the moment it saves.                                              *)
HolderHasLock ==
  \A p \in Process : pc[p] \in {"locked", "loaded", "closing"} => lockHolder = p

FreshCopy == \A p \in Process : pc[p] = "loaded" => data[p] = reg

IInv == TypeOK /\ RegistryInv(reg) /\ HolderHasLock /\ FreshCopy

(* The empty registry no process has touched is sound.                     *)
LEMMA InitIInv == Init => IInv
<1> SUFFICES ASSUME Init PROVE IInv
  OBVIOUS
<1>1. TypeOK
  BY DEF Init, RInit, TypeOK, WellFormed, Phase
<1>2. RegistryInv(reg)
  BY DEF Init, RInit, RegistryInv, WellFormed, UniqueFingerprintsIn, PrimariesActiveIn,
         OnePrimaryIn
<1>3. HolderHasLock /\ FreshCopy
  BY DEF Init, HolderHasLock, FreshCopy
<1> QED
  BY <1>1, <1>2, <1>3 DEF IInv

(* Every save is a transaction on the registry as it is on the disk.       *)
LEMMA SaveIsTransaction ==
  ASSUME IInv, NEW p \in Process, saveRegistry(p)
  PROVE  Transaction(reg, reg')
BY DEF IInv, FreshCopy, saveRegistry

(* Every step keeps the inductive invariant.                               *)
LEMMA NextIInv == IInv /\ [Next]_vars => IInv'
<1> SUFFICES ASSUME IInv, [Next]_vars PROVE IInv'
  OBVIOUS
<1> USE NobodyIsNoProcess
<1>1. ASSUME NEW p \in Process, Begin(p)
      PROVE  IInv'
  BY <1>1 DEF IInv, Begin, TypeOK, Phase, HolderHasLock, FreshCopy
<1>2. ASSUME NEW p \in Process, acquireRegistryLock(p)
      PROVE  IInv'
  BY <1>2 DEF IInv, acquireRegistryLock, TypeOK, Phase, HolderHasLock, FreshCopy
<1>3. ASSUME NEW p \in Process, GiveUp(p)
      PROVE  IInv'
  BY <1>3 DEF IInv, GiveUp, TypeOK, Phase, HolderHasLock, FreshCopy
<1>4. ASSUME NEW p \in Process, loadRegistry(p)
      PROVE  IInv'
  BY <1>4 DEF IInv, loadRegistry, TypeOK, WellFormed, Phase, HolderHasLock, FreshCopy
<1>5. ASSUME NEW p \in Process, saveRegistry(p)
      PROVE  IInv'
  <2>1. RegistryInv(reg')
    BY <1>5, SaveIsTransaction, TransactionSound DEF IInv
  <2>2. TypeOK'
    BY <1>5, <2>1 DEF IInv, saveRegistry, TypeOK, RegistryInv, WellFormed, Phase
  <2>3. HolderHasLock'
    BY <1>5 DEF IInv, saveRegistry, TypeOK, HolderHasLock
  <2>4. FreshCopy'
    (* Nobody else holds the lock, so nobody else has a copy to outdate.   *)
    BY <1>5 DEF IInv, saveRegistry, TypeOK, HolderHasLock, FreshCopy
  <2> QED
    BY <2>1, <2>2, <2>3, <2>4 DEF IInv
<1>6. ASSUME NEW p \in Process, Refuse(p)
      PROVE  IInv'
  BY <1>6 DEF IInv, Refuse, TypeOK, Phase, HolderHasLock, FreshCopy
<1>7. ASSUME NEW p \in Process, releaseRegistryLock(p)
      PROVE  IInv'
  BY <1>7 DEF IInv, releaseRegistryLock, TypeOK, Phase, HolderHasLock, FreshCopy
<1>8. ASSUME NEW p \in Process, Crash(p)
      PROVE  IInv'
  BY <1>8 DEF IInv, Crash, TypeOK, Phase, HolderHasLock, FreshCopy
<1>9. CASE UNCHANGED vars
  BY <1>9 DEF IInv, vars, TypeOK, HolderHasLock, FreshCopy
<1> QED
  BY <1>1, <1>2, <1>3, <1>4, <1>5, <1>6, <1>7, <1>8, <1>9 DEF Next

(* Every reachable state satisfies the inductive invariant.                *)
THEOREM Inductive == Spec => []IInv
BY InitIInv, NextIInv, PTL DEF Spec

(* The registry on disk and the state of every process always have their   *)
(* types: no transaction writes a malformed entry.                         *)
THEOREM TypeCorrect == Spec => []TypeOK
<1>1. IInv => TypeOK
  BY DEF IInv
<1> QED
  BY <1>1, Inductive, PTL

(* A cluster never has two entries of one type for the same fingerprint.   *)
THEOREM FingerprintsUnique == Spec => []UniqueFingerprints
<1>1. IInv => UniqueFingerprints
  BY DEF IInv, RegistryInv, UniqueFingerprints
<1> QED
  BY <1>1, Inductive, PTL

(* A key that is archived or revoked never carries the primary flag.       *)
THEOREM PrimariesAreActive == Spec => []PrimariesActive
<1>1. IInv => PrimariesActive
  BY DEF IInv, RegistryInv, PrimariesActive
<1> QED
  BY <1>1, Inductive, PTL

(* A cluster never has two active primary keys of one type.                *)
THEOREM PrimaryIsUnique == Spec => []OnePrimary
<1>1. IInv => OnePrimary
  BY DEF IInv, RegistryInv, OnePrimary
<1> QED
  BY <1>1, Inductive, PTL

(* The locked load-change-rename cycles of any number of processes, with   *)
(* failures and crashes at any step, implement atomic transactions.        *)
THEOREM Atomic == Spec => AtomicTransactions
<1>1. Init => RInit
  BY DEF Init
<1>2. IInv /\ [Next]_vars => [RNext]_reg
  <2> SUFFICES ASSUME IInv, [Next]_vars PROVE RNext \/ UNCHANGED reg
    OBVIOUS
  <2>1. ASSUME NEW p \in Process, saveRegistry(p)
        PROVE  RNext
    BY <2>1, SaveIsTransaction DEF RNext
  <2>2. ASSUME NEW p \in Process,
               \/ Begin(p) \/ acquireRegistryLock(p) \/ GiveUp(p) \/ loadRegistry(p)
               \/ Refuse(p) \/ releaseRegistryLock(p) \/ Crash(p)
        PROVE  UNCHANGED reg
    BY <2>2 DEF Begin, acquireRegistryLock, GiveUp, loadRegistry, Refuse,
                releaseRegistryLock, Crash
  <2>3. CASE UNCHANGED vars
    BY <2>3 DEF vars
  <2> QED
    BY <2>1, <2>2, <2>3 DEF Next
<1> QED
  BY <1>1, <1>2, Inductive, PTL DEF Spec, AtomicTransactions, RSpec
===============================================================================
