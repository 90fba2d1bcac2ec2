------------------------------ MODULE KeyRegistry ------------------------------
(***************************************************************************)
(* The registry file and the processes that change it.  A mutation takes   *)
(* an exclusive lock on the file next to the registry, loads the registry, *)
(* changes the copy and renames the encrypted copy over the file; any of   *)
(* its steps may fail, its caller may give up waiting for the lock, and    *)
(* the process may die, in which case the operating system drops the lock. *)
(***************************************************************************)
EXTENDS KeyRegistrySpec

CONSTANTS
  Process,       (* CLI processes that mutate the registry *)
  Nobody

ASSUME NobodyIsNoProcess == Nobody \notin Process

VARIABLES
  lockHolder,    (* who holds the lock on key-registry.yaml.lock *)
  pc,            (* where each process is in its transaction     *)
  data           (* the copy of the registry each process loaded *)

vars == <<reg, lockHolder, pc, data>>

Phase == {"idle", "waiting", "locked", "loaded", "closing"}

Init ==
  /\ RInit
  /\ lockHolder = Nobody
  /\ pc = [p \in Process |-> "idle"]
  /\ data = [p \in Process |-> {}]

Begin(p) ==
  /\ pc[p] = "idle"
  /\ pc' = [pc EXCEPT ![p] = "waiting"]
  /\ UNCHANGED <<reg, lockHolder, data>>

(* Defect: the lock is taken whether or not another process holds it.      *)
acquireRegistryLockShared(p) ==
  /\ pc[p] = "waiting"
  /\ lockHolder' = p
  /\ pc' = [pc EXCEPT ![p] = "locked"]
  /\ UNCHANGED <<reg, data>>

acquireRegistryLock(p) ==
  /\ pc[p] = "waiting"
  /\ lockHolder = Nobody
  /\ lockHolder' = p
  /\ pc' = [pc EXCEPT ![p] = "locked"]
  /\ UNCHANGED <<reg, data>>

(* The caller's context ends while the lock is polled.                     *)
GiveUp(p) ==
  /\ pc[p] = "waiting"
  /\ pc' = [pc EXCEPT ![p] = "idle"]
  /\ UNCHANGED <<reg, lockHolder, data>>

loadRegistry(p) ==
  /\ pc[p] = "locked"
  /\ data' = [data EXCEPT ![p] = reg]
  /\ pc' = [pc EXCEPT ![p] = "loaded"]
  /\ UNCHANGED <<reg, lockHolder>>

saveRegistry(p) ==
  /\ pc[p] = "loaded"
  /\ Transaction(data[p], reg')
  /\ pc' = [pc EXCEPT ![p] = "closing"]
  /\ data' = [data EXCEPT ![p] = {}]
  /\ UNCHANGED lockHolder

(* The load fails, the request is refused, or a step before the rename of  *)
(* the save fails.                                                         *)
Refuse(p) ==
  /\ pc[p] \in {"locked", "loaded"}
  /\ pc' = [pc EXCEPT ![p] = "closing"]
  /\ data' = [data EXCEPT ![p] = {}]
  /\ UNCHANGED <<reg, lockHolder>>

releaseRegistryLock(p) ==
  /\ pc[p] = "closing"
  /\ lockHolder' = Nobody
  /\ pc' = [pc EXCEPT ![p] = "idle"]
  /\ UNCHANGED <<reg, data>>

Crash(p) ==
  /\ pc[p] # "idle"
  /\ lockHolder' = IF lockHolder = p THEN Nobody ELSE lockHolder
  /\ pc' = [pc EXCEPT ![p] = "idle"]
  /\ data' = [data EXCEPT ![p] = {}]
  /\ UNCHANGED reg

Next ==
  \E p \in Process :
    \/ Begin(p)
    \/ acquireRegistryLock(p)
    \/ GiveUp(p)
    \/ loadRegistry(p)
    \/ saveRegistry(p)
    \/ Refuse(p)
    \/ releaseRegistryLock(p)
    \/ Crash(p)

Spec == Init /\ [][Next]_vars

-----------------------------------------------------------------------------
(* Type invariant: the registry holds well-formed entries only, and the    *)
(* bookkeeping of the processes has its type.                              *)
TypeOK ==
  /\ WellFormed(reg)
  /\ lockHolder \in Process \cup {Nobody}
  /\ pc \in [Process -> Phase]
  /\ data \in [Process -> SUBSET Entry]

(* No sequence of registrations, rotations, revocations, updates and       *)
(* rebuilds by several processes leaves two entries for one fingerprint.   *)
UniqueFingerprints == UniqueFingerprintsIn(reg)

(* An archived or revoked key never carries the primary flag.              *)
PrimariesActive == PrimariesActiveIn(reg)

(* At most one active key of a cluster and type is primary.                *)
OnePrimary == OnePrimaryIn(reg)

(* No update is lost: what several processes do to the file, one locked    *)
(* load, change and rename at a time, is a sequence of atomic transactions *)
(* on the registry.                                                        *)
AtomicTransactions == RSpec
===============================================================================
