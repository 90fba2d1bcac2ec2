----------------------------- MODULE TreePromotion -----------------------------
(***************************************************************************)
(* The promotion of a generated tree into the GitOps repository            *)
(* (internal/gitops/tree_promotion.go, ownership.go, copy.go), while       *)
(* people edit the repository.                                             *)
(*                                                                         *)
(* It plans from the ownership ledgers and a scan of the tree, records the *)
(* preimage of every path it will change, and applies the plan one path at *)
(* a time: look at the path again, then write, delete or back up.  After   *)
(* an error it restores in reverse order.  The two ledgers are paths like  *)
(* the others and are written last.                                        *)
(*                                                                         *)
(* A content stands for the bytes and the mode of a file.  Secrets, the    *)
(* deploy-managed files and empty directories are left out; a rename is    *)
(* the write and the delete it consists of.                                *)
(***************************************************************************)
EXTENDS Naturals, Sequences, SequencesExt

CONSTANTS
  File,              (* the paths in the scopes of the promotion           *)
  Global,            (* those that belong to all clusters                  *)
  Seed,              (* those in custom directories                        *)
  Content,           (* what the generator writes                          *)
  User,              (* what people write                                  *)
  MaxFaults,         (* bound: failures and crashes                        *)
  MaxEdits           (* bound: edits by people                             *)

VARIABLES
  disk,              (* what is at each path                               *)
  kept,              (* the backups                                        *)
  p,                 (* the promotion in progress                          *)
  faults, edits,
  mine,              (* history: what people wrote last at each path       *)
  exposed,           (* history: paths edited in a window, see InWindow    *)
  unrestored,        (* history: paths that a rollback could not restore   *)
  void               (* history: paths that PromotionSpec calls Unsure     *)

history == <<mine, exposed, unrestored, void>>
vars    == <<disk, kept, p, faults, edits, mine, exposed, unrestored, void>>

Missing  == "missing"
NoRecord == "no record"
Unsure   == "unsure"
Nothing  == "nothing"

Ledger    == {"cluster ledger", "global ledger"}

ASSUME PromotionConstants ==
  /\ IsFiniteSet(File) /\ File \intersect Ledger = {}
  /\ Global \subseteq File /\ Seed \subseteq File /\ Global \intersect Seed = {}
  /\ Content # {} /\ Content \intersect User = {}
  /\ {Missing, NoRecord, Unsure, Nothing, "boot"} \intersect (Content \union User) = {}
  /\ MaxFaults \in Nat /\ MaxEdits \in Nat

Path      == File \union Ledger
Generated == File \ Seed
LedgerOf(f) == IF f \in Global THEN "global ledger" ELSE "cluster ledger"

(* A ledger that is not there yet.                                         *)
Boot == [f \in Generated |-> "boot"]

Idle == [pc |-> "idle"]
Op(kind, on) == [kind |-> kind, on |-> on]

Init ==
  /\ disk = [x \in Path |-> IF x \in Ledger THEN Boot ELSE Missing]
  /\ kept = {} /\ p = Idle
  /\ faults = 0 /\ edits = 0
  /\ mine = [f \in File |-> Nothing]
  /\ exposed = {} /\ unrestored = {} /\ void = {}

Fault == faults < MaxFaults /\ faults' = faults + 1

-----------------------------------------------------------------------------
(* GenerateClusterTree: a stage is rendered, for some configuration.       *)
GenerateClusterTree(planned, adopt, prune) ==
  /\ p = Idle
  /\ \E staged \in [planned -> Content] :
       p' = [pc |-> "plan", staged |-> staged, adopt |-> adopt, prune |-> prune]
  /\ UNCHANGED <<disk, kept, faults, edits, history>>

-----------------------------------------------------------------------------
(* planRepositoryPromotion.                                                *)

Planned  == DOMAIN p.staged
Known(f) == LET r == disk[LedgerOf(f)][f] IN IF r = "boot" THEN NoRecord ELSE r

Adopts(f) ==
  /\ f \in Planned /\ Known(f) = NoRecord
  /\ disk[f] \notin {Missing, p.staged[f]}
  /\ p.adopt \/ (f \in Global /\ disk["global ledger"] = Boot)

Acceptable(f) ==
  \/ disk[f] = Missing
  \/ Known(f) # NoRecord /\ disk[f] = Known(f)
  \/ Known(f) = NoRecord /\ f \in Planned /\ (disk[f] = p.staged[f] \/ Adopts(f))

Pruned  == IF p.prune THEN {f \in Generated \ Planned : Known(f) # NoRecord} ELSE {}
Deletes == {f \in Pruned : disk[f] # Missing}
Writes  == {f \in Planned : disk[f] # p.staged[f]}
Seeds   == {f \in Seed : disk[f] = Missing}

(* Defect: the ledger records what the scan found.                         *)
NewLedgerOfDisk(l) ==
  [f \in Generated |->
     IF LedgerOf(f) # l \/ f \in Pruned THEN NoRecord
     ELSE IF f \in Planned THEN disk[f] ELSE Known(f)]

NewLedger(l) ==
  [f \in Generated |->
     IF LedgerOf(f) # l \/ f \in Pruned THEN NoRecord
     ELSE IF f \in Planned THEN p.staged[f] ELSE Known(f)]

All(kind, S) == SetToSeq({Op(kind, f) : f \in S})

(* Defect: the backups come after the writes.                              *)
OperationsBackupLast ==
  All("delete", Deletes)
  \o All("write", Writes)
  \o All("backup", {f \in Planned : Adopts(f)})
  \o All("write", Seeds)
  \o <<Op("ledger", "cluster ledger"), Op("ledger", "global ledger")>>

Operations ==
  All("delete", Deletes)
  \o All("backup", {f \in Planned : Adopts(f)})
  \o All("write", Writes)
  \o All("write", Seeds)
  \o <<Op("ledger", "cluster ledger"), Op("ledger", "global ledger")>>

SeedContent == CHOOSE c \in Content : TRUE

Target ==
  [x \in Path |->
     CASE x \in Ledger -> NewLedger(x)
       [] x \in Seed -> IF x \in Seeds THEN SeedContent ELSE disk[x]
       [] x \in Planned -> p.staged[x]
       [] x \in Deletes -> Missing
       [] OTHER -> disk[x]]

Plan ==
  /\ p.pc = "plan"
  /\ p' = IF \A f \in Generated : Acceptable(f)
          THEN [pc |-> "preimages", seen |-> disk, to |-> Target, ops |-> Operations,
                planned |-> Planned, pruned |-> Pruned]
          ELSE Idle
  /\ UNCHANGED <<disk, kept, faults, edits, history>>

(* The preimage of a path that the scan found is what the scan read; that  *)
(* of a path it did not find is read only now.                             *)
TakePreimages ==
  /\ p.pc = "preimages"
  /\ p' = [pc |-> "verify", k |-> 1, ops |-> p.ops, to |-> p.to,
           planned |-> p.planned, pruned |-> p.pruned, seen |-> p.seen, kept |-> kept,
           pre |-> [x \in Path |-> IF x \in File /\ p.seen[x] # Missing
                                   THEN p.seen[x] ELSE disk[x]]]
  /\ UNCHANGED <<disk, kept, faults, edits, history>>

-----------------------------------------------------------------------------
(* applyGeneratedTreePlan.                                                 *)

Now      == p.ops[p.k]
GoTo(pc) == [p EXCEPT !.pc = pc]

(* Roll back the first n operations.                                       *)
Undo(n) == IF n = 0 THEN Idle ELSE [p EXCEPT !.pc = "undo", !.k = n]

(* verify and capture; a backup has a path of its own and no preimage.     *)
Verify ==
  /\ p.pc = "verify"
  /\ p' = IF Now.kind = "backup" \/ disk[Now.on] = p.pre[Now.on]
          THEN GoTo("operate") ELSE Undo(p.k - 1)
  /\ UNCHANGED <<disk, kept, faults, edits, history>>

Done(f) == disk'[f] = p.to[f] /\ f \notin (exposed \union unrestored)

(* The operation; the last one makes the promotion visible.                *)
Operate ==
  /\ p.pc = "operate"
  /\ IF Now.kind = "backup"
     THEN kept' = kept \union {<<Now.on, p.pre[Now.on]>>} /\ UNCHANGED disk
     ELSE disk' = [disk EXCEPT ![Now.on] = p.to[Now.on]] /\ UNCHANGED kept
  /\ IF p.k < Len(p.ops)
     THEN p' = [p EXCEPT !.pc = "verify", !.k = @ + 1] /\ UNCHANGED void
     ELSE p' = Idle /\ void' = void \ {f \in p.planned \union p.pruned : Done(f)}
  /\ UNCHANGED <<faults, edits, mine, exposed, unrestored>>

(* The operation fails, or the second look finds the path changed.         *)
OperateFails ==
  /\ p.pc = "operate"
  /\ \/ Fault
     \/ Now.kind # "backup" /\ disk[Now.on] # p.pre[Now.on] /\ UNCHANGED faults
  /\ p' = Undo(p.k)
  /\ UNCHANGED <<disk, kept, edits, history>>

(* The backup of this promotion; those of earlier ones have other paths.   *)
Backup == {<<Now.on, p.pre[Now.on]>>} \ p.kept

(* Defect: a path that was not there before stays as it is.               *)
RollbackKeepingAdded ==
  /\ p.pc = "undo"
  /\ IF Now.kind = "backup"
     THEN kept' = kept \ Backup /\ UNCHANGED disk
     ELSE /\ disk' = IF Now.on \in File /\ p.pre[Now.on] = Missing THEN disk
                     ELSE [disk EXCEPT ![Now.on] = p.pre[Now.on]]
          /\ UNCHANGED kept
  /\ p' = Undo(p.k - 1)
  /\ UNCHANGED <<faults, edits, history>>

(* It restores what it captured, whatever the path has become since.       *)
Rollback ==
  /\ p.pc = "undo"
  /\ IF Now.kind = "backup"
     THEN kept' = kept \ Backup /\ UNCHANGED disk
     ELSE disk' = [disk EXCEPT ![Now.on] = p.pre[Now.on]] /\ UNCHANGED kept
  /\ p' = Undo(p.k - 1)
  /\ UNCHANGED <<faults, edits, history>>

-----------------------------------------------------------------------------
(* What callers see of a promotion in progress: nothing, until its last    *)
(* operation.                                                              *)

Captured ==
  IF p.pc \in {"verify", "operate", "undo"}
  THEN SubSeq(p.ops, 1, IF p.pc = "verify" THEN p.k - 1 ELSE p.k) ELSE <<>>

Touched ==
  {Captured[j].on : j \in {i \in DOMAIN Captured : Captured[i].kind # "backup"}}

ViewOf(x)  == IF x \in Touched THEN p.pre[x] ELSE disk[x]
Recorded(l, f) == IF l[f] = "boot" THEN NoRecord ELSE l[f]

tree  == [f \in File |-> IF f \in void THEN Unsure ELSE ViewOf(f)]
owned == [f \in File |->
            CASE f \in void -> Unsure
              [] f \in Seed \ void -> NoRecord
              [] OTHER -> Recorded(ViewOf(LedgerOf(f)), f)]
InBackup == IF p.pc \in {"verify", "operate", "undo"} THEN p.kept ELSE kept

Promise == INSTANCE PromotionSpec WITH kept <- InBackup

(* The paths that differ from the view, when the promotion lets go of S.   *)
Left(S) ==
  {f \in File :
     \/ f \in S /\ disk[f] # ViewOf(f)
     \/ /\ f \notin Seed /\ LedgerOf(f) \in S
        /\ Recorded(disk[LedgerOf(f)], f) # Recorded(ViewOf(LedgerOf(f)), f)}

(* A restore fails, and the rollback goes on; or the process dies.         *)
RestoreFails ==
  /\ p.pc = "undo" /\ Fault
  /\ unrestored' = unrestored \union (IF Now.kind = "write" THEN {Now.on} ELSE {})
  /\ void' = IF Now.kind = "backup" THEN void ELSE void \union Left({Now.on})
  /\ p' = Undo(p.k - 1)
  /\ UNCHANGED <<disk, kept, edits, mine, exposed>>

Crash ==
  /\ p # Idle /\ Fault
  /\ p' = Idle
  /\ void' = void \union Left(Path)
  /\ UNCHANGED <<disk, kept, edits, mine, exposed, unrestored>>

-----------------------------------------------------------------------------
(* Somebody edits, adds or removes a file.                                 *)

(* Where the promotion may lose an edit: at a path that the scan did not   *)
(* find, before its preimage is read; and at a path it has captured, until *)
(* it is over.  The write replaces what changes after the second look, and *)
(* a rollback puts back what was captured, over an edit that the second    *)
(* look has noticed and over one made after the write.                     *)
InWindow(f) ==
  \/ p.pc = "preimages" /\ p.seen[f] = Missing
  \/ f \in Touched

EditFile(f, v) ==
  /\ edits < MaxEdits /\ edits' = edits + 1
  /\ v # disk[f]
  /\ disk' = [disk EXCEPT ![f] = v]
  /\ mine' = [mine EXCEPT ![f] = IF v = Missing THEN Nothing ELSE v]
  /\ exposed' = IF InWindow(f) THEN exposed \union {f} ELSE exposed
  /\ void' = IF p.pc \in {"idle", "plan"} THEN void ELSE void \union {f}
  /\ UNCHANGED <<kept, p, faults, unrestored>>

Promotion ==
  \/ \E planned \in SUBSET Generated, adopt, prune \in BOOLEAN :
       GenerateClusterTree(planned, adopt, prune)
  \/ Plan \/ TakePreimages \/ Verify \/ Operate \/ OperateFails
  \/ Rollback \/ RestoreFails \/ Crash

Next ==
  \/ Promotion
  \/ \E f \in File, v \in User \union {Missing} : EditFile(f, v)

Spec == Init /\ [][Next]_vars

-----------------------------------------------------------------------------
(* Type invariant; the ledgers speak of generated contents only.           *)
TypeOK ==
  /\ \A f \in File : disk[f] \in Content \union User \union {Missing}
  /\ \A l \in Ledger, f \in Generated : disk[l][f] \in Content \union {NoRecord, "boot"}
  /\ kept \subseteq File \X (Content \union User)
  /\ p.pc \in {"idle", "plan", "preimages", "verify", "operate", "undo"}
  /\ p.pc \in {"verify", "operate", "undo"} => p.k \in 1..Len(p.ops)

Survives(f) == disk[f] = mine[f] \/ <<f, mine[f]>> \in kept

(* What people wrote is still there or in a backup, whatever promotions do *)
(* to the tree and wherever they fail or die, unless the edit fell into    *)
(* one of the windows or the file could not be restored.                   *)
UserWorkKept ==
  \A f \in File :
    mine[f] # Nothing => Survives(f) \/ f \in exposed \union unrestored

(* Promotion is atomic (PromotionSpec): an error leaves every path and     *)
(* both ledgers as they were, success leaves all of them as planned.       *)
AtomicPromotion == Promise!ASpec
================================================================================
