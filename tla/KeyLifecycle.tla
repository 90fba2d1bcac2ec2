----------------------------- MODULE KeyLifecycle -----------------------------
(***************************************************************************)
(* The life of the Age keys of one cluster (internal/secrets: rotation.go, *)
(* revocation.go, reconcile.go, rollback.go, sops_yaml.go).                *)
(*                                                                         *)
(* Three pieces of state have to agree: the registry, the recipients the   *)
(* creation rules of .sops.yaml name, and the recipients each manifest is  *)
(* really encrypted to.  An operation rewrites the rules, re-encrypts the  *)
(* manifests one by one by the rule on disk, and commits in the registry;  *)
(* it holds copies of the files in memory and writes them back when a step *)
(* fails.  Nothing locks the files, so operators may interleave, and a     *)
(* crash loses the copies.  .sops.yaml and what is written back are        *)
(* written in place: a write that fails or dies in the middle leaves a     *)
(* part of the file.                                                       *)
(***************************************************************************)
EXTENDS KeyRegistryOps, Naturals, FiniteSets

CONSTANTS
  TheCluster,
  Operator,          (* processes of the CLI                                *)
  Rule,              (* creation rules of .sops.yaml                        *)
  Manifest,          (* encrypted manifests of the overlay                  *)
  RuleOf,            (* the rule that matches each manifest                 *)
  RuleKeys,          (* the recipients each rule starts with                *)
  Primary0,          (* the key that starts as primary                      *)
  UserKeys,          (* the keys registered for one user                    *)
  KeysFile,          (* private keys in ~/.config/sops/age/keys.txt         *)
  InitKey,           (* the private key cluster init wrote                  *)
  KeyManagerWired,   (* the SOPS manager was given a key manager            *)
  Begins,            (* the operations each operator may start              *)
  Envs,              (* what SOPS_AGE_KEY_FILE may name: "init", "slot"     *)
  Faults,            (* the faults that leave the files in disagreement     *)
  MaxFaults          (* bound: faults in one behaviour, each kind once      *)

ASSUME LifecycleConstants ==
  /\ TheCluster \in Cluster
  /\ RuleOf \in [Manifest -> Rule]
  /\ RuleKeys \in [Rule -> (SUBSET Fingerprint) \ {{}}]
  /\ \E r \in Rule : Primary0 \in RuleKeys[r]
  /\ Fingerprint \subseteq Origin
  /\ "config" \notin Manifest
  /\ KeyManagerWired \in BOOLEAN
  /\ Begins \in [Operator -> SUBSET {"rotate", "complete", "revoke", "emergency",
                                     "reconcile", "set-primary"}]
  /\ Envs \subseteq {"init", "slot"}
  /\ MaxFaults \in Nat
  /\ Faults \subseteq {"skip", "crash", "restore", "cut", "edit", "race", "pull"}

VARIABLES
  reg,               (* the key registry                                    *)
  sops,              (* .sops.yaml: the recipients of each creation rule    *)
  manifest,          (* the recipients each manifest is encrypted to        *)
  slot,              (* the private key in ~/.config/sops/age/<cluster>.txt *)
  op,                (* the operation each operator is in                   *)
  tried,             (* history: initial keys an operation set out to retire*)
  gone,              (* history: keys whose retirement was reported         *)
  torn,              (* history: files of which a write was ever cut off    *)
  faults             (* history: the faults that have happened              *)

files == <<sops, manifest, torn>>
past  == <<tried, gone, faults>>
vars  == <<reg, sops, manifest, torn, slot, op, tried, gone, faults>>

(* What an operation holds in memory.                                      *)
Idle ==
  [pc     |-> "idle",
   kind   |-> "none",
   env    |-> "init",     (* the key file SOPS_AGE_KEY_FILE names         *)
   want   |-> {},         (* the fingerprints the operator asked for      *)
   out    |-> {},         (* the entries to retire, as they were read     *)
   new    |-> NoKey,      (* the successor                                *)
   keys   |-> {},         (* the entries reconcile listed                 *)
   todo   |-> {},         (* what is left of the current loop             *)
   draft  |-> <<>>,       (* the rewritten .sops.yaml                     *)
   saved  |-> <<>>,       (* rollback copy of .sops.yaml                  *)
   copies |-> <<>>,       (* rollback copies of the manifests             *)
   failed |-> FALSE]      (* some manifest could not be re-encrypted      *)

Recipients(rules) == UNION {rules[r] : r \in DOMAIN rules}
FpsOf(entries)    == {e.fp : e \in entries}

(* The private keys SOPS finds for an operator.                            *)
HeldWith(env) == KeysFile \cup (IF env = "slot" THEN {slot} ELSE {InitKey})
Held(p)       == HeldWith(op[p].env)

(* The registry is encrypted to the active keys it holds.                  *)
Readable(p) == ActiveAge(reg) \cap Held(p) # {}

(* A key nothing mentions.                                                 *)
Fresh ==
  Fingerprint \ (FpsOf(reg) \cup Recipients(sops) \cup Recipients(manifest)
                   \cup KeysFile \cup {slot, InitKey}
                   \cup UNION {{op[p].new} \cup Recipients(op[p].draft)
                                 \cup Recipients(op[p].saved)
                                 \cup Recipients(op[p].copies) : p \in Operator})

AgeEntry(k, from, primary) ==
  [cluster |-> TheCluster, type |-> "age", fp |-> k, status |-> "active",
   primary |-> primary, from |-> from]

Init ==
  /\ reg = {AgeEntry(k, NoKey, k = Primary0) : k \in Recipients(RuleKeys)}
  /\ sops = RuleKeys
  /\ manifest = [m \in Manifest |-> RuleKeys[RuleOf[m]]]
  /\ slot = NoKey
  /\ op = [p \in Operator |-> Idle]
  /\ tried = {} /\ gone = {} /\ torn = {} /\ faults = {}

-----------------------------------------------------------------------------
(* Steps of the operations.                                                *)

At(p, pc)   == op[p].pc = pc
Fault(kind) ==
  /\ kind \in Faults \ faults
  /\ faults' = faults \cup {kind}
  /\ Cardinality(faults') <= MaxFaults

Becomes(p, o) == op' = [op EXCEPT ![p] = o]
Goto(p, pc)   == Becomes(p, [op[p] EXCEPT !.pc = pc])
Finish(p)     == Becomes(p, Idle)

(* Writes every copy back, in any order.                                   *)
StartUndo(p) ==
  Becomes(p, [op[p] EXCEPT !.pc = "undo", !.todo = DOMAIN op[p].copies \cup {"config"}])

FirstStep(kind) ==
  CASE kind \in {"rotate", "emergency", "complete"} -> "primary"
    [] kind = "revoke"    -> "list"
    [] kind = "reconcile" -> "compare"

Begin(p) ==
  /\ At(p, "idle")
  /\ \E kind \in Begins[p] \ {"set-primary"}, env \in Envs :
       \E want \in CASE kind = "revoke"    -> {{k} : k \in FpsOf(reg)} \cup {UserKeys}
                     [] kind = "emergency" -> {{k} : k \in FpsOf(reg)}
                     [] OTHER              -> {{}} :
         Becomes(p, [op[p] EXCEPT !.pc = FirstStep(kind), !.kind = kind,
                                  !.env = env, !.want = want])
  /\ UNCHANGED <<reg, files, slot, past>>

(* A precondition does not hold, or a read fails before anything changed.  *)
Refuse(p) ==
  /\ op[p].pc \in {"primary", "status", "generate", "list", "preflight", "backup",
                   "compare", "listing", "importing", "selecting"}
  /\ Finish(p)
  /\ UNCHANGED <<reg, files, slot, past>>

(* An active successor that names an active predecessor is a rotation in   *)
(* progress; among several the primary decides.                            *)
Successors ==
  {s \in reg : IsActive(s) /\ \E x \in reg : IsActive(x) /\ x.fp = s.from}

GetPrimaryKey(p) ==
  /\ At(p, "primary")
  /\ Readable(p)
  /\ \E e \in reg :
       /\ IsPrimary(e)
       /\ Becomes(p, [op[p] EXCEPT !.pc = "status", !.out = {e}])
  /\ UNCHANGED <<reg, files, slot, past>>

(* Defect: a rotation starts while another is in progress.                 *)
GetRotationStatusUnchecked(p) ==
  /\ At(p, "status")
  /\ Readable(p)
  /\ IF op[p].kind = "complete"
     THEN \E s, old \in Successors \X reg :
            /\ IsActive(old[2]) /\ old[2].fp = s[1].from
            /\ Becomes(p, [op[p] EXCEPT !.pc = "backup", !.out = {old[2]}, !.new = s[1].fp])
            /\ tried' = tried \cup ({old[2].fp} \cap Recipients(RuleKeys))
     ELSE Goto(p, "generate") /\ UNCHANGED tried
  /\ UNCHANGED <<reg, files, slot, gone, faults>>

GetRotationStatus(p) ==
  /\ At(p, "status")
  /\ Readable(p)
  /\ IF op[p].kind = "complete"
     THEN \E s, old \in reg :
            /\ s \in Successors
            /\ Cardinality(Successors) > 1 =>
                 {x \in Successors : IsPrimary(x)} = {s}
            /\ IsActive(old) /\ old.fp = s.from
            /\ Becomes(p, [op[p] EXCEPT !.pc = "backup", !.out = {old}, !.new = s.fp])
            /\ tried' = tried \cup ({old.fp} \cap Recipients(RuleKeys))
     ELSE /\ Successors = {}
          /\ Goto(p, "generate")
          /\ UNCHANGED tried
  /\ UNCHANGED <<reg, files, slot, gone, faults>>

(* The new private key takes the place of whatever the slot held, and the  *)
(* process decrypts with it from here on.                                  *)
generateAgeKey(p) ==
  /\ At(p, "generate")
  /\ IF KeyManagerWired
     THEN \E k \in Fresh :
            /\ slot' = k
            /\ Becomes(p, [op[p] EXCEPT !.pc = "backup", !.new = k, !.env = "slot"])
     ELSE Goto(p, "panicked") /\ UNCHANGED slot
  /\ UNCHANGED <<reg, files, past>>

(* A revocation works on the entries it lists here until it commits.       *)
ListKeys(p) ==
  /\ At(p, "list")
  /\ Readable(p)
  /\ LET out == {e \in reg : IsActive(e) /\ e.fp \in op[p].want}
     IN  /\ out # {}
         /\ ActiveAge(reg) \ FpsOf(out) # {}
         /\ Becomes(p, [op[p] EXCEPT !.pc = "preflight", !.out = out])
         /\ tried' = tried \cup (FpsOf(out) \cap Recipients(RuleKeys))
  /\ UNCHANGED <<reg, files, slot, gone, faults>>

(* Defect: recipients the registry does not know are tolerated.            *)
checkRegistryDriftTolerant(p) ==
  /\ At(p, "preflight")
  /\ Readable(p)
  /\ op[p].kind = "revoke" => \A e \in op[p].out : ~e.primary
  /\ Goto(p, "backup")
  /\ UNCHANGED <<reg, files, slot, past>>

checkRegistryDrift(p) ==
  /\ At(p, "preflight")
  /\ Readable(p)
  /\ Recipients(sops) \subseteq ActiveAge(reg)
  /\ op[p].kind = "revoke" => \A e \in op[p].out : ~e.primary
  /\ Goto(p, "backup")
  /\ UNCHANGED <<reg, files, slot, past>>

BackupConfig(p) ==
  /\ At(p, "backup")
  /\ Becomes(p, [op[p] EXCEPT !.pc = "copy", !.saved = sops, !.todo = Manifest])
  /\ UNCHANGED <<reg, files, slot, past>>

WithCopy(copies, m) ==
  [n \in DOMAIN copies \cup {m} |-> IF n = m THEN manifest[m] ELSE copies[n]]

BackupManifest(p) ==
  /\ At(p, "copy")
  /\ IF op[p].todo = {}
     THEN Goto(p, "edit")
     ELSE \E m \in op[p].todo :
            Becomes(p, [op[p] EXCEPT !.copies = WithCopy(@, m), !.todo = @ \ {m}])
  /\ UNCHANGED <<reg, files, slot, past>>

(* Defect: completing a rotation leaves the successor as the only          *)
(* recipient of the rule.                                                  *)
RewrittenAlone(p, rs) ==
  LET olds == FpsOf(op[p].out) \cap rs
  IN  IF op[p].kind = "complete" /\ olds # {} THEN {op[p].new}
      ELSE (rs \ (IF op[p].kind \in {"rotate", "emergency"} THEN {} ELSE olds))
             \cup (IF olds # {} /\ op[p].new # NoKey THEN {op[p].new} ELSE {})

(* Defect: the successor is added even when the operation has none, which  *)
(* writes an empty recipient.                                              *)
RewrittenWithBlank(p, rs) ==
  LET olds == FpsOf(op[p].out) \cap rs
  IN  (rs \ (IF op[p].kind \in {"rotate", "emergency"} THEN {} ELSE olds))
        \cup (IF olds # {} THEN {op[p].new} ELSE {})

(* A successor joins the rules that name its predecessor and no others; a  *)
(* rotation keeps the predecessor, every other operation drops what it     *)
(* retires.                                                                *)
Rewritten(p, rs) ==
  LET olds    == FpsOf(op[p].out) \cap rs
      dropped == IF op[p].kind \in {"rotate", "emergency"} THEN {} ELSE olds
  IN  (rs \ dropped) \cup (IF olds # {} /\ op[p].new # NoKey THEN {op[p].new} ELSE {})

(* A rule must not lose its last recipient; one that a cut-off write left  *)
(* without any, or took away, is passed over.                              *)
ReadConfig(p) ==
  /\ At(p, "edit")
  /\ op[p].kind = "complete" => Readable(p)
  /\ LET draft == [r \in Rule |-> Rewritten(p, sops[r])]
     IN  /\ \A r \in Rule : sops[r] # {} => draft[r] # {}
         /\ Becomes(p, [op[p] EXCEPT !.pc = "write", !.draft = draft])
  /\ UNCHANGED <<reg, files, slot, past>>

WriteConfig(p) ==
  /\ At(p, "write")
  /\ sops' = op[p].draft
  /\ Becomes(p, [op[p] EXCEPT !.pc = "recipients", !.draft = <<>>])
  /\ UNCHANGED <<reg, manifest, torn, slot, past>>

(* What is left of the rules when a write of the file is cut off: one rule *)
(* is cut through at most, the others are whole or gone.                   *)
CutOff(rules) ==
  {left \in [Rule -> SUBSET Recipients(rules)] :
     \E r \in Rule : /\ left[r] \subseteq rules[r]
                     /\ \A q \in Rule \ {r} : left[q] \in {{}, rules[q]}}

(* The write fails halfway, and the copies are written back, or the        *)
(* process dies in it.                                                     *)
WriteCutOff(p) ==
  /\ At(p, "write")
  /\ "cut" \in Faults
  /\ sops' \in CutOff(op[p].draft)
  /\ torn' = torn \cup {"config"}
  /\ \/ StartUndo(p) /\ UNCHANGED faults
     \/ Finish(p) /\ Fault("cut")
  /\ UNCHANGED <<reg, manifest, slot, tried, gone>>

(* A rotation lists the active recipients although the rules, not the      *)
(* list, decide who gets the manifests: the registry has to be readable.   *)
activeRecipientSet(p) ==
  /\ At(p, "recipients")
  /\ op[p].kind # "revoke" /\ op[p].kind # "distrust" => Readable(p)
  /\ Becomes(p, [op[p] EXCEPT !.pc = "reencrypt", !.todo = Manifest])
  /\ UNCHANGED <<reg, files, slot, past>>

(* A file could not be backed up, rewritten or listed: write the copies    *)
(* back.                                                                   *)
EditFails(p) ==
  /\ op[p].pc \in {"copy", "edit", "write", "recipients"}
  /\ StartUndo(p)
  /\ UNCHANGED <<reg, files, slot, past>>

(* One manifest of the loop: re-encrypted by the rule on disk, if that     *)
(* names anybody, failed and remembered, or passed over because it could   *)
(* not be read or does not look encrypted, being a part of a file.         *)
ReencryptManifest(p) ==
  /\ At(p, "reencrypt")
  /\ \E m \in op[p].todo :
       \/ /\ manifest[m] \cap Held(p) # {} /\ sops[RuleOf[m]] # {}
          /\ manifest' = [manifest EXCEPT ![m] = sops[RuleOf[m]]]
          /\ Becomes(p, [op[p] EXCEPT !.todo = @ \ {m}])
          /\ UNCHANGED faults
       \/ /\ Becomes(p, [op[p] EXCEPT !.todo = @ \ {m}, !.failed = TRUE])
          /\ UNCHANGED <<manifest, faults>>
       \/ /\ IF manifest[m] = {} THEN UNCHANGED faults ELSE Fault("skip")
          /\ Becomes(p, [op[p] EXCEPT !.todo = @ \ {m}])
          /\ UNCHANGED manifest
  /\ UNCHANGED <<reg, sops, torn, slot, tried, gone>>

(* Defect: completing a rotation writes the predecessor as it was read and *)
(* leaves its status to a later step.                                      *)
RequestedDemoting(p) ==
  CASE op[p].kind \in {"rotate", "emergency"} ->
         UNION {replacePrimary(reg, e.fp, AgeEntry(op[p].new, e.fp, TRUE), FALSE)
                  : e \in op[p].out}
    [] op[p].kind = "complete" ->
         UNION {UpdateKey(reg, [e EXCEPT !.primary = FALSE]) : e \in op[p].out}
    [] op[p].kind \in {"revoke", "distrust"} ->
         UpdateKeys(reg, {[e EXCEPT !.status = "revoked", !.primary = FALSE]
                            : e \in op[p].out})

(* What the operation asks of the registry, from the entries it read.      *)
Requested(p) ==
  CASE op[p].kind \in {"rotate", "emergency"} ->
         UNION {replacePrimary(reg, e.fp, AgeEntry(op[p].new, e.fp, TRUE), FALSE)
                  : e \in op[p].out}
    [] op[p].kind = "complete" ->
         UNION {UpdateKey(reg, [e EXCEPT !.status = "archived", !.primary = FALSE])
                  : e \in op[p].out}
    [] op[p].kind \in {"revoke", "distrust"} ->
         UpdateKeys(reg, {[e EXCEPT !.status = "revoked", !.primary = FALSE]
                            : e \in op[p].out})

(* Defect: manifests that failed do not stop the commit.                   *)
CommitRegardless(p) ==
  /\ At(p, "reencrypt") /\ op[p].todo = {}
  /\ Readable(p)
  /\ reg' \in Requested(p)
  /\ IF op[p].kind = "emergency"
     THEN Becomes(p, [Idle EXCEPT !.pc = "list", !.kind = "distrust",
                                   !.env = op[p].env, !.want = op[p].want])
     ELSE Finish(p)
  /\ gone' = gone \cup IF op[p].kind \in {"rotate", "emergency"} THEN {}
                       ELSE FpsOf(op[p].out)
  /\ UNCHANGED <<files, slot, tried, faults>>

(* The registry accepts the change, the copies are dropped and success is  *)
(* reported.  An emergency goes on to revoke.                              *)
Commit(p) ==
  /\ At(p, "reencrypt") /\ op[p].todo = {} /\ ~op[p].failed
  /\ Readable(p)
  /\ reg' \in Requested(p)
  /\ IF op[p].kind = "emergency"
     THEN Becomes(p, [Idle EXCEPT !.pc = "list", !.kind = "distrust",
                                   !.env = op[p].env, !.want = op[p].want])
     ELSE Finish(p)
  /\ gone' = gone \cup IF op[p].kind \in {"rotate", "emergency"} THEN {}
                       ELSE FpsOf(op[p].out)
  /\ UNCHANGED <<files, slot, tried, faults>>

(* A manifest failed, or the registry refused.                             *)
CommitFails(p) ==
  /\ At(p, "reencrypt") /\ op[p].todo = {}
  /\ StartUndo(p)
  /\ UNCHANGED <<reg, files, slot, past>>

(* Defect: the rollback leaves .sops.yaml as the operation rewrote it.     *)
RollbackManifestsOnly(p) ==
  /\ At(p, "undo")
  /\ IF op[p].todo = {}
     THEN Finish(p) /\ UNCHANGED <<files, faults>>
     ELSE \E f \in op[p].todo :
            /\ Becomes(p, [op[p] EXCEPT !.todo = @ \ {f}])
            /\ manifest' = IF f = "config" THEN manifest
                           ELSE [manifest EXCEPT ![f] = op[p].copies[f]]
            /\ UNCHANGED <<sops, torn, faults>>
  /\ UNCHANGED <<reg, slot, tried, gone>>

(* Each copy is written back or, if the file cannot be opened, left; the   *)
(* others go on.                                                           *)
Rollback(p) ==
  /\ At(p, "undo")
  /\ IF op[p].todo = {}
     THEN Finish(p) /\ UNCHANGED <<files, faults>>
     ELSE \E f \in op[p].todo :
            /\ Becomes(p, [op[p] EXCEPT !.todo = @ \ {f}])
            /\ \/ /\ sops' = IF f = "config" THEN op[p].saved ELSE sops
                  /\ manifest' = IF f = "config" THEN manifest
                                 ELSE [manifest EXCEPT ![f] = op[p].copies[f]]
                  /\ UNCHANGED <<torn, faults>>
               \/ /\ Fault("restore")
                  /\ UNCHANGED files
  /\ UNCHANGED <<reg, slot, tried, gone>>

(* A copy is written back in part: the disk is full, and the others are    *)
(* tried, or the process dies in it.  Nobody decrypts a part of a manifest.*)
RestoreCutOff(p) ==
  /\ At(p, "undo")
  /\ Fault("cut")
  /\ \E f \in op[p].todo :
       /\ \/ f = "config" /\ sops' \in CutOff(op[p].saved) /\ UNCHANGED manifest
          \/ f # "config" /\ manifest' = [manifest EXCEPT ![f] = {}] /\ UNCHANGED sops
       /\ torn' = torn \cup {f}
       /\ Finish(p) \/ Becomes(p, [op[p] EXCEPT !.todo = @ \ {f}])
  /\ UNCHANGED <<reg, slot, tried, gone>>

(* The process dies between two writes and its copies with it.             *)
Crash(p) ==
  /\ "crash" \in Faults
  /\ op[p].pc \notin {"idle", "panicked"}
  /\ Finish(p)
  /\ IF op[p].pc \in {"recipients", "reencrypt", "undo"}
     THEN Fault("crash")
     ELSE UNCHANGED faults
  /\ UNCHANGED <<reg, files, slot, tried, gone>>

-----------------------------------------------------------------------------
(* Reconciliation imports the recipients the registry does not know, one   *)
(* transaction each, and crowns a sole active key.                         *)

ReconcileCompare(p) ==
  /\ At(p, "compare")
  /\ Becomes(p, [op[p] EXCEPT !.pc = "listing", !.todo = Recipients(sops)])
  /\ UNCHANGED <<reg, files, slot, past>>

ReconcileList(p) ==
  /\ At(p, "listing")
  /\ Readable(p)
  /\ LET unknown == op[p].todo \ ActiveAge(reg)
     IN  Becomes(p, [op[p] EXCEPT !.pc = IF unknown = {} THEN "selecting" ELSE "importing",
                                  !.todo = unknown, !.keys = reg])
  /\ UNCHANGED <<reg, files, slot, past>>

ReconcileImport(p) ==
  /\ At(p, "importing")
  /\ Readable(p)
  /\ IF op[p].todo = {}
     THEN /\ Becomes(p, [op[p] EXCEPT !.pc = "selecting", !.keys = reg])
          /\ UNCHANGED reg
     ELSE \E k \in op[p].todo :
            /\ reg' \in RegisterKey(reg, AgeEntry(k, NoKey, FALSE))
            /\ Becomes(p, [op[p] EXCEPT !.todo = @ \ {k}])
  /\ UNCHANGED <<files, slot, past>>

ReconcileSelect(p) ==
  /\ At(p, "selecting")
  /\ LET active == {e \in op[p].keys : IsActive(e)}
     IN  IF Cardinality(active) = 1 /\ \A e \in active : ~e.primary
         THEN Readable(p) /\ \E e \in active : reg' \in SetPrimaryKey(reg, TheCluster, "age", e.fp)
         ELSE UNCHANGED reg
  /\ Finish(p)
  /\ UNCHANGED <<files, slot, past>>

(* The set-primary command is one transaction.                             *)
SetPrimary(p) ==
  /\ At(p, "idle") /\ "set-primary" \in Begins[p]
  /\ \E env \in Envs : ActiveAge(reg) \cap HeldWith(env) # {}
  /\ \E k \in FpsOf(reg) : reg' \in SetPrimaryKey(reg, TheCluster, "age", k)
  /\ UNCHANGED <<files, slot, op, past>>

(* Somebody adds a recipient to a rule by hand between two commands or     *)
(* while one runs, or a pull between two commands brings back one that was *)
(* retired.                                                                *)
AllIdle == \A p \in Operator : At(p, "idle")

EditConfig ==
  /\ \E r \in Rule :
       \/ /\ Fault(IF AllIdle THEN "edit" ELSE "race")
          /\ \E k \in Fresh : sops' = [sops EXCEPT ![r] = @ \cup {k}]
       \/ /\ AllIdle
          /\ Fault("pull")
          /\ \E k \in gone \ sops[r] : sops' = [sops EXCEPT ![r] = @ \cup {k}]
  /\ UNCHANGED <<reg, manifest, torn, slot, op, tried, gone>>

Step(p) ==
  \/ Begin(p) \/ Refuse(p)
  \/ GetPrimaryKey(p) \/ GetRotationStatus(p) \/ generateAgeKey(p)
  \/ ListKeys(p) \/ checkRegistryDrift(p)
  \/ BackupConfig(p) \/ BackupManifest(p)
  \/ ReadConfig(p) \/ WriteConfig(p) \/ WriteCutOff(p)
  \/ activeRecipientSet(p) \/ EditFails(p)
  \/ ReencryptManifest(p) \/ Commit(p) \/ CommitFails(p)
  \/ Rollback(p) \/ RestoreCutOff(p) \/ Crash(p)
  \/ ReconcileCompare(p) \/ ReconcileList(p) \/ ReconcileImport(p) \/ ReconcileSelect(p)
  \/ SetPrimary(p)

Next == EditConfig \/ \E p \in Operator : Step(p)

Spec == Init /\ [][Next]_vars

-----------------------------------------------------------------------------
RuleSets == [Rule -> SUBSET Fingerprint]

(* Type invariant.                                                         *)
TypeOK ==
  /\ reg \subseteq Entry
  /\ sops \in RuleSets
  /\ manifest \in [Manifest -> SUBSET Fingerprint]
  /\ slot \in Fingerprint \cup {NoKey}
  /\ DOMAIN op = Operator
  /\ \A p \in Operator :
       /\ op[p].out \cup op[p].keys \subseteq Entry
       /\ op[p].new \in Fingerprint \cup {NoKey}
       /\ op[p].todo \subseteq Fingerprint \cup Manifest \cup {"config"}
       /\ op[p].draft \in RuleSets \cup {<<>>}
       /\ op[p].saved \in RuleSets \cup {<<>>}
       /\ DOMAIN op[p].copies \subseteq Manifest
       /\ Recipients(op[p].copies) \subseteq Fingerprint
  /\ gone \cup tried \subseteq Fingerprint
  /\ torn \subseteq Manifest \cup {"config"}
  /\ faults \subseteq Faults

(* A key whose revocation was reported, or that a completed rotation       *)
(* replaced, is in no rule afterwards and decrypts no manifest, whatever   *)
(* later operations do, fail at or roll back; only a manifest that was     *)
(* passed over because it could not be read may still be encrypted to it,  *)
(* unless a pull brings it back.                                           *)
RetiredStaysOut ==
  "pull" \notin faults =>
  /\ \A r \in Rule : sops[r] \cap gone = {}
  /\ "skip" \notin faults => \A m \in Manifest : manifest[m] \cap gone = {}

(* Nobody is locked out: at every moment, in the middle of an operation    *)
(* and after a crash between two writes, every rule and every manifest has *)
(* a recipient that is an active key of the registry.  An edit of the      *)
(* rules that races a revocation escapes its drift check.  A write that is *)
(* cut off leaves a manifest to nobody, and once it is .sops.yaml, nothing *)
(* is promised: operations go by the rules that are left.                  *)
NoLockout ==
  "config" \notin torn =>
    /\ "race" \notin faults => \A r \in Rule : sops[r] \cap ActiveAge(reg) # {}
    /\ faults \cap {"skip", "race"} = {} =>
         \A m \in Manifest \ torn : manifest[m] \cap ActiveAge(reg) # {}

(* An operation completes fully or leaves no partial change, also when its *)
(* write of .sops.yaml is cut off: between operations the manifests follow *)
(* their rules and the rules name active keys and nobody else, as long as  *)
(* no crash, failed restore, unreadable manifest or hand edit got in       *)
(* between.                                                                *)
AllOrNothing ==
  faults = {} /\ AllIdle =>
    /\ \A r \in Rule : sops[r] # {} /\ sops[r] \subseteq ActiveAge(reg)
    /\ \A m \in Manifest : manifest[m] = sops[RuleOf[m]]

(* A recipient nobody set out to retire keeps its access: no rotation,     *)
(* revocation, rollback or crash between two writes takes it from a rule   *)
(* or a manifest.  A write back that is cut off takes the one manifest,    *)
(* and once .sops.yaml was cut off, nothing is promised.                   *)
Bystanders ==
  "config" \notin torn =>
    /\ \A r \in Rule : RuleKeys[r] \ tried \subseteq sops[r]
    /\ \A m \in Manifest \ torn : RuleKeys[RuleOf[m]] \ tried \subseteq manifest[m]

(* At most one rotation is in progress, so its status never has to choose  *)
(* between chains.  Crowning a key by hand or by reconciling breaks this,  *)
(* so it is checked of rotations, completions and emergencies only.        *)
OneRotation == Cardinality(Successors) <= 1

(* A key that was archived or revoked is never active again, and its entry *)
(* is never dropped, so it cannot be registered as if it were new.         *)
NeverReinstated ==
  [][\A x \in reg : ~IsActive(x) =>
       /\ \E y \in reg' : SameKey(x, y)
       /\ \A y \in reg' : SameKey(x, y) => ~IsActive(y)]_reg
===============================================================================
