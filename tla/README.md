# Verification of opencenter-cli

TLA+ modules for the parts of `opencenter` that keep state other commands rely
on: the registry of encryption keys and their life, the synchronization of
secrets into a GitOps repository, the promotion of a generated tree into it, the
deployment of a cluster step by step, also as a Magnum cluster, the migration of
an old directory layout, the lock that keeps two commands off one cluster, and
the circuit breaker in front of a remote service. The modules are checked with
TLC on small instances; every safety property of them, and both refinements, are
proved with TLAPS for all instances, four of the properties under a hypothesis
that the code needs (section 6).

Paths below are relative to the repository's `src/`.

## 1. The system

`opencenter` is a command line program. Nothing of it runs between commands:
everything it knows is in files, and whatever interleaves is several processes
(operators, CI jobs), goroutines inside one command, and people or `git` who
change the same files.

| Part | State | Operations | Hard because |
|---|---|---|---|
| Key registry (`internal/secrets/registry.go`) | `key-registry.yaml`, encrypted to the keys it lists; `.lock` next to it | register, set primary, replace primary, update one or many, rebuild | read-modify-rename by several processes, crash at any point, flags that must stay unique |
| Age key lifecycle (`rotation.go`, `revocation.go`, `reconcile.go`, `rollback.go`) | registry, creation rules of `.sops.yaml`, recipients of every manifest, private key files | rotate, complete, revoke by user or fingerprint, emergency, reconcile, set-primary | three pieces of state that must agree, no lock over the files, rollback copies in memory only |
| Secrets sync (`manager.go`, `internal/secretartifacts`) | one manifest per service, `.opencenter-secret-artifacts.json` with the hash of each, a lock file | sync (filter, force), validate | several files and a state file that cannot be replaced together, rollback journal, other writers |
| Cluster lock (`internal/resilience/lock_manager.go`, `cmd/cluster.go`) | a lock file with owner and expiry, its flock | inspect, break, acquire with timeout, release, destroy | name, inode, lock and text of a file are four things |
| Circuit breaker (`circuit_breaker.go`) | state, counters, half-open slots | call, reset | results arrive in a later state than the one that admitted the call |
| Cluster deploy and destroy (`internal/cluster/bootstrap_service.go`, `bootstrap_provider_infra.go`, `kubespray_lifecycle.go`, `destroy_service.go`) | the state file with the status of each step, now and where version 1 kept it; the infrastructure | deploy (resume, restart, one step, from a step), destroy | crash between a step and the record of it, state written by an older version |
| Magnum provider (`magnum_bootstrap_provider.go`, `magnum_destroy_provider.go`, `internal/cloud/magnum`) | the identity file, the remote cluster, the kubeconfig | create, wait, export, delete | answers get lost, new clusters are listed late, a create must not be repeated |
| Generated tree promotion (`internal/gitops/tree_promotion.go`, `ownership.go`) | the tree of generated files, two ledgers of hashes, backups | plan, apply, roll back | files change in between, several files and ledgers cannot be replaced together |
| Layout migration (`cmd/cluster_migrate_layout.go`) | a legacy directory and the three zones it moves to | migrate, with or without `--force` | stops at the first error, nothing is moved back, started again |
| Retry handler, Barbican client (`internal/barbican`) | the remote secret store | put = describe, delete, create | retries and breaker around steps that are not atomic |
| GitOps pipeline, SSH rotation, configuration, rendering, encryption wrappers, the other cloud providers, validation, commands | – | – | see `PROJECT.json`, "components" |

How they interact. The lifecycle commands call the registry one transaction at
a time and the sops wrapper one file at a time. Key operations re-encrypt the
manifests that sync owns, without touching sync's state file or its lock. Sync
encrypts for the key the configuration names, not by the creation rules the
lifecycle maintains. Deploy and destroy run under the cluster lock, so they do
not overlap each other; the secrets commands, `cluster generate` (which promotes)
and `migrate-layout` do not take it. Deploy runs a provider's steps through one
engine, whichever provider it is. The Barbican client nests breaker and retries.

What makes each part correct: no lost update and unique primaries (registry);
nobody locked out, retired keys out and staying out, all or nothing
(lifecycle); manifests equal to the configuration, nobody else's file touched,
no file left that no sync will own (sync); one holder, named truthfully, and
no wait for ever (lock); no slot lost, opens on a streak, recovers (breaker);
what is recorded as done is done, steps in order, resuming gets to the end
(deploy); one cluster, never out of reach (Magnum); all of the plan or nothing,
the user's work kept (promotion); nothing lost, nothing overwritten (migration).

`PROJECT.json`, "hazards", lists where each of these could go wrong.

## 2. Modules

| Module | Models | Kind |
|---|---|---|
| `KeyRegistryOps` | each mutation of the registry, as the set of registries it may leave (empty when it is refused) | operators |
| `KeyRegistrySpec` | what the registry promises: atomic transactions | abstract specification |
| `KeyRegistry` | lock, load, change, rename, unlock, by several processes | detailed specification; refines `KeyRegistrySpec` |
| `KeyRegistryProofs` | its theorems | proofs |
| `KeyLifecycle`, `KeyLifecycleProofs` | every lifecycle command, on `KeyRegistryOps` | specification, proofs |
| `SecretsSync`, `SecretsSyncProofs` | `SyncSecrets` and the verdict of `ValidateSecrets` | specification, proofs |
| `FileLock` | `AcquireLockWithPrompt` over the file backend | specification |
| `CircuitBreaker` | `beforeCall`, `afterCall`, `Reset` | specification |
| `StepEngine` | the engine of deploy: load, migrate, skip, mark, run, record, remove | specification, extended by the next two |
| `StepEngineProofs` | what every step of the engine preserves | proofs (lemmas) |
| `Deployment` | the OpenTofu and Kubespray steps, and destroy | specification |
| `DeploymentProofs` | its theorems | proofs |
| `MagnumLifecycle` | the Magnum steps, destroy, and the remote service | specification |
| `MagnumLifecycleProofs` | its theorems | proofs |
| `PromotionSpec` | what a promotion promises: one atomic step | abstract specification |
| `TreePromotion`, `TreePromotionProofs` | plan, preimages, apply and roll back, one path at a time | detailed specification; refines `PromotionSpec`; proofs |
| `LayoutMigration` | `cluster migrate-layout` | specification |
| `StandaloneProofs` | the theorems of `FileLock`, `CircuitBreaker` and `LayoutMigration`, which build on no other module | proofs |
| `MC...` | constants for TLC | instances |

Definitions keep the names of the functions they model; `PROJECT.json`, "map",
gives the lines of each. An operator whose comment starts with "Defect:" is the
function before it with a plausible mistake; nothing uses it but the mutation
runs, which show that a property can fail.

### KeyRegistry

`reg` is the set of entries on disk. A process goes `idle`, `waiting`,
`locked`, `loaded`, `closing`. `saveRegistry` is one step, since the code writes
a temporary file and renames it; failure before the rename is `Refuse`, death is
`Crash`, which also drops the lock as the kernel does. `verifyReachablePrivateKey`
and every other check that may refuse a request is covered by `Refuse`, which is
always enabled. Updates with an empty fingerprint are left out: no command sends
them. `UpdateKeyStatus` and `RebuildFromFiles` are modelled although no command
calls them. That a registry without an active Age key is not saved is a guard
(`Savable`), not a property.

### KeyLifecycle

State: `reg`, `sops` (recipients of each creation rule), `manifest` (recipients
each manifest is really encrypted to), `slot` (the one key file that generation
overwrites), and per operator what its command holds in memory, rollback copies
included. `.sops.yaml` is read in one step and written in a later one, as the
code does, and manifests are re-encrypted one per step. `tried`, `gone`, `torn`
and `faults` are history, read only by properties. Faults, each at most once and
`MaxFaults` in a behaviour: a manifest that is passed over (`skip`), a crash
with changes on disk (`crash`), a copy that cannot be restored because its file
cannot be opened (`restore`), a write in place that is cut off (`cut`), an edit
of the rules between (`edit`) or during (`race`) commands, and a pull that brings
a retired recipient back (`pull`, between commands only). Any step may fail as
well (`Refuse`, `EditFails`, `CommitFails`, the failing case of `WriteCutOff`);
those failures are not counted, since the code is meant to recover from them.

`.sops.yaml` and everything a rollback restores is written with `os.WriteFile`,
which truncates the file first (`rotation.go:814`, `revocation.go:750`,
`rollback.go:102`). `WriteCutOff` and `RestoreCutOff` are these writes when the
disk is full or the process dies in them, and `torn` names the files of which a
write was ever cut off. What is left of the rules is any subset of the rules, of
which one may be cut through (`CutOff`); of a manifest, nothing that anybody
decrypts. The code goes on with both. A rule file of which a part still parses
is what the next command rewrites, and each manifest is re-encrypted by the rule
that is left for it, or fails when none is. A manifest without its `sops:` and
`mac:` lines counts as not encrypted and is passed over in silence
(`rotation.go:934`). Re-encryption itself is one step: it renames a temporary
file into place (`sops_yaml.go:129`).

Merged or left out: the drift check reads the rules and lists the registry in
one step; `CompleteRotation` reads the status twice, the model once; dry runs,
the audit log and SSH keys are left out; the registry holds one cluster. New keys carry no user, so
`--user` never selects a successor (`UserKeys` is constant). `KeyManagerWired`
says whether the SOPS manager was built with a key manager. The command builds
it without, so a rotation panics before it changes anything (section 5); the
runs assume it is wired, because the rest of the protocol is reachable only
then.

### SecretsSync

State: `file` (content of each manifest: a hash, the value it holds, who wrote
it), `owner` (the state file), `lock`, `version` (which of the configurations in
`Plans` is current), and `run`, what each sync has in memory. Every encryption
yields a new hash, taken from those nothing refers to any more; `MaxId` bounds
them, and five are enough for the contents one path has at a time. The
configuration is read in `Begin`, before the lock; then one step per artifact
for the check, the write, and the read back; one per pruned file; one for the
state file; one per undone mutation. `made` is the code's `successful`,
`journal` its journal, `undo` the journal of the prune or what is left to undo.

A manifest that cannot be decrypted for the comparison counts as changed; one
whose private key cannot be located is left as it is, unless the sync is forced,
and the sync reports success (`manager.go:1641`). `KeyFound` is the set of the
operators for whom it is located: `cluster init` does not put the key where the
comparison looks, so both kinds exist. Faults: a
manifest that cannot be inspected, written, read back, removed or restored, a
state file that cannot be written, a crash, an edit between (`edit`) or during
(`race`) syncs, a re-encryption by a key operation between syncs (`rotate`).
Legacy state files and symbolic links are left out, and `validate --fix` is a
forced sync that `Begin` includes (the code ignores the errors of that sync).
`ValidateSecrets` reads only, so it is an operator: what the command calls valid
in the current state. A state file that cannot be loaded ends the sync.

### FileLock

Four things the code relies on separately: the `name` in the directory, the
`flock` of each file, the `owner` its text gives, and each command's descriptor.
A file whose text has not been written reads as expired at the zero time, which
is what `Expired` says. Each command uses a lock manager of its own, as the
commands do, so the in-process map is not modelled, nor is the Redis backend.
Nothing calls `Refresh`, so a lock may lapse while it is held (`Expiry`).

### CircuitBreaker

The counters of the code plus the calls in progress: those admitted while closed
(`calls`) and while half-open (`probes`). A call ends in any later state. The
mutex makes `beforeCall` and `afterCall` atomic. `streak` is history.

### StepEngine, Deployment

`disk` is the state file at its two places, `cmd` the command in progress: its
copy of the state, the step it is at, and whether the record counts (`ignore`:
it does not after `--restart`, `--step` or `--from-step`). `Deploy` chooses the
steps, `Engine` does one thing of `provisionInfrastructure` or
`executeBootstrapSteps` at a time, and between `MarkRunning` and `StepReturned`
the extending module acts on the world. `saveBootstrapState` writes in place, so
a failing write may leave a torn file, which no later command can load. One
command runs at a time, under the cluster lock.

`Deployment` keeps the set of steps whose effect exists (`done`), and whether
the outputs exist that apply writes since version 2 (`contract`). `Needs` says
which effects a step builds on; a step without them fails, one with them
succeeds or fails. `Init` has every deployment that version 1 may have left, by
its steps (version 1 deployed Kubernetes inside apply) or by an early build of
the Kubespray steps. `lost` is history: effects that destroy took away although a
state file still records them. The steps after the kubeconfig (Flux, secrets)
repeat what the modelled ones do; the preflight step, which is recorded and
skipped like any other, changes nothing and is left out. `opentofu-init` is the
step that always runs (`NeverSkip`).

### MagnumLifecycle

`remote` is what became of each cluster the service may create; a cluster that
is `hidden` was accepted and is not listed yet. `identity` is the identity file,
written by rename, so never torn. `at` and `reply` are where the step in progress
is, `des` the destroy in progress. What precedes a request, the request and
the record of its answer are separate, and the process may die or the step fail
between any two. A lookup by name finds a cluster when exactly one is listed.
Polling loops (`WaitVisible`, `WaitReady`, `WaitDeleted`) are one step that waits
for its condition, with the timeout as a failure. Somebody may delete the cluster
in the console. The bound `Id` acts as the service's quota.

### PromotionSpec, TreePromotion

A content stands for the bytes and the mode of a file. `disk` maps every path to
its content, the two ledgers included; `p` is the promotion in progress, first
the stage and the options, then the plan (`ops`, `pre`, `to`), one operation at a
time. `GenerateClusterTree` plans once for the preflight and again for the
promotion; nothing is kept of the first plan, so the model plans once, at the
second. `File` holds a path of the cluster, one of the global scope and one in a
custom directory, which is written only when missing (`Seed`).

`PromotionSpec` is the promise: one step that puts all planned files in place,
removes the stale ones and updates the records, and that takes only what is
missing, recorded, as planned or backed up. The refinement mapping shows a
promotion in progress as not begun (`tree`, `owned` and `InBackup` read the
preimage of every path that was captured) until its last operation. A path that
is edited during a promotion, or that a crash or a failed restore leaves
different, is `Unsure` in the abstraction until a promotion has taken it again:
the code promises nothing about it.

### LayoutMigration

`src` and `dst` say for each file whether it is absent, partly there, whole, or
(`theirs`) something else in the zone. `Moves` lists every possible move in the
order of its source path, which is the order the code sorts by; the plan of a
command is the set of moves whose source is present and which belong to a cluster
the command finds, and `k` is the one it is at. A rename is one step; a copy is
two, and a removal across devices may stop half way. A rerun plans from what the
last one left. Somebody may put a file into a zone at any moment
(`SomebodyWrites`); `late` is history, the places filled since the running
migration looked at its destinations.

## 3. Runs

| Run | Instance | Shows |
|---|---|---|
| `key_registry` | 2 processes, 1 cluster, 2 fingerprints, both key types, batches of up to two updates | invariants of the registry; refinement of atomic transactions |
| `lifecycle_seq` | 1 operator, all commands, rules `r1` {k1,k2} and `r2` {k1}, 2 manifests, 2 new keys, 1 fault, cut-off writes | `RetiredStaysOut`, `NoLockout`, `AllOrNothing`, `Bystanders` |
| `lifecycle_conc` | 2 operators: rotate and complete against emergency, nobody reconciles or sets a primary; 1 rule, 1 manifest, no fault | `OneRotation`, `NeverReinstated` under every interleaving |
| `file_lock` | 2 commands, 3 files, breaks and expiry | `FileNamesHolder`, `CommandEnds` |
| `breaker` | thresholds 3 and 2, one probe, 4 calls in progress | `SlotsAreReturned`, `OpensOnStreak`, `Recovers` |
| `secrets_sync` | 2 operators, one with the private key where the comparison looks and one without, 2 manifests, 2 configurations (the second changes one manifest and drops the other), filters all or one, 1 fault and a failed restore | `OwnedExactly`, `SuccessIsTrue`, `TheirsAreKept`, `FilterRespected`, `Converges` |
| `deployment` | 5 steps of OpenStack with Kubespray, fresh or from version 1 at any point, destroy at any time, 2 failures or crashes | `RecordedIsDone`, `OrderRespected`, `Completes` |
| `magnum` | 3 steps, 2 clusters the service could create, 2 failures, crashes or foreign deletions | `OneCluster`, `NoOrphan`, `DestroyEnds` |
| `tree_promotion` | 3 files (cluster, global, seed), 2 generated contents, 1 edit, 1 failure or crash | `UserWorkKept`, `AtomicPromotion` |
| `layout_migration` | 3 clusters, 9 moves, 2 of them across devices, at most one destination in use at a time, from the start or later, 3 failures or crashes | `SuccessIsComplete`, `NothingLost`, `TheirsAreKept` |
| `file_lock_race`, `sync_rotation` | see section 5 | disagreements |

Why the bounds are enough for the question. Two processes are the least that
can race, and every shared file is written by whole-file replacement, so a third
adds orders and no new kind of overlap. Two rules that share one key are the
least with a key whose removal leaves one rule populated and another empty. Two
fresh keys allow a rotation on top of a completed one; the two are symmetric.
After a cut-off write the instance follows one new key in all, and none when it
was `.sops.yaml` and the process died in it or another fault happens
(`FewKeysAfterACut`): which keys are left makes most of the states, and what the
properties still promise then is about each file by itself. `lifecycle_seq` has
2,240,673 distinct states, `secrets_sync` 722,330, `layout_migration` 202,655.
One manifest that is changed and one that leaves the configuration make a sync
that creates, updates, keeps and prunes in one command. A streak of three and a
success threshold of two make off-by-one mistakes visible. Three lock files let
one be held without a name while a second is held and a third is created.
The five steps are one that always runs, the apply, two Kubespray steps (so that
one can be recorded without the other) and a step that proves a version 1
deployment; two faults allow a failure of the handed-over apply and another of
its retry. Two clusters are the least that can be one too many. One edit and one
fault meet at every pair of steps of a promotion, and promotions follow one
another without bound. The three clusters of the migration are one without an
infrastructure directory and two of which one's name begins with the other's;
three faults interrupt a migration, its rerun and the rerun of that.

Deadlock is checked in every passing run but `tree_promotion` and
`layout_migration`, which really stop: when no bounded edit is left and every
promotion is refused, or when the organization has been migrated.

### Fairness

- `FileLock`: weak fairness on the steps of a running command (the process is
  scheduled), strong fairness on `GiveUp`: once the timeout has passed both
  branches of the `select` are ready on every tick and Go chooses at random. No
  fairness for `Release`: a holder may keep the lock for ever.
- `CircuitBreaker`: time passes (`Elapse`), calls end, the client keeps calling.
  No fairness for `Reset`. A service that is up answers every call; the code
  counts "not found" as a failure, which this leaves out. A panic in the
  operation would skip `afterCall` and lose its slot; operations do not panic.
- `SecretsSync`: a sync that holds the lock goes on (weak); a waiting sync that
  finds the lock free again and again takes it (strong: it polls); full syncs
  are started again and again, and from some point on nobody cancels one. The
  last two are the operator's part: `Converges` says that retrying works, not
  that anybody retries.
- `Deployment`: a command that runs goes on (weak); somebody resumes again and
  again (strong, the operator's part). Failures are bounded, so from some point
  on a step that has what it needs succeeds: `Completes` says that no state the
  command leaves behind stops the resumption.
- `MagnumLifecycle`: commands go on, the service finishes what it began (weak),
  and somebody destroys again and again (strong).
- `TreePromotion` and `LayoutMigration` state safety only.

## 4. Properties worth knowing

- `RetiredStaysOut`: after a revocation was reported, the key is in no rule and
  decrypts no manifest, whatever later operations do, fail at or roll back.
  It needs one operator at a time: see section 5.
- `NoLockout`: at every moment, also in the middle of an operation, after a
  failed restore and after a crash between two writes, each rule and manifest has
  an active recipient. Two operators that retire different keys at once break it,
  which is why `lifecycle_conc` does not state it; likewise `AllOrNothing`.
- `NoLockout` and `Bystanders` except the manifest whose write back was cut off,
  which nobody reads any more, and say nothing once a write of `.sops.yaml` was
  cut off: the code takes what is left of it for the rules, so the recipients of
  the rules that are gone, or of the half of one, lose the manifests at the next
  rotation. Everything else keeps its recipients. `AllOrNothing` has no such
  exception: a cut-off write of `.sops.yaml` that fails, rather than dies, is
  rolled back.
- `OneRotation` and `NeverReinstated` are checked without reconciliation and
  `set-primary`. The first needs that (section 5); the theorem about the second
  covers every operation, the retired recipients that reconciliation meets
  included.
- A stale completion turns a key that was revoked meanwhile into an archived
  one. No access follows from it, so no property is about it.
- `OwnedExactly`: when a sync is over, whatever failed, a manifest exists exactly
  if it is recorded with its hash. The faults in `Stranding` are excluded because
  they do break it: a crash or a failed read back between the rename and the
  state file leaves a manifest that every later sync refuses ("existing unowned
  secret artifact; refusing to adopt"), and a stale manifest removed by hand
  makes every later sync report an error and prune nothing.
- `TheirsAreKept`: a manifest edited between two syncs is never overwritten,
  pruned or rolled back. An edit in the middle of a sync can be lost: between
  the hash check and the rename there is no lock that an editor respects.
- `SuccessIsTrue` speaks of a sync that was forced or could compare
  (`Compares`), because any other reports success over a changed manifest; that
  nothing stale is left holds of all.
- `Converges`: if some operator has the private key where the comparison looks,
  syncs of older configurations, limited syncs and syncs of operators without the
  key included; in the end `secrets validate` agrees. If nobody has it, nothing
  but a forced sync updates a manifest, and the property is false of the code.
- `RecordedIsDone`: no failed save, crash, migration, `--step` or `--restart`
  makes a later command pass over a step that never happened. The exception
  (`lost`) is real: destroy leaves the state file, see section 5.
- `OrderRespected`: the apply of a version 1 deployment is regenerated before
  any Kubespray step, however often it fails.
- `OneCluster`, `NoOrphan`: a create is sent once, and the cluster it made can
  always be found again, whatever answer was lost and wherever the command died.
- `UserWorkKept`: edits in two windows are excluded (`InWindow`), because they
  can be lost: at a path the scan did not find, until its preimage is read; and
  at a path that has been captured, until the promotion is over. In the second
  the write replaces an edit made after the second look, and a rollback puts the
  captured copy back, also over an edit that the second look noticed and because
  of which the promotion fails (`ownership_safety_test.go:86` expects just that).
  So is a file excluded that a rollback could not restore.
- `TheirsAreKept` (migration): a file put into a zone after the look at the
  destinations is overwritten without `--force`; it is excepted by name (`late`).
- `AtomicPromotion`: the refinement; it is what makes the order of backups,
  files and ledgers, and the reverse order of the rollback, necessary.
- `SuccessIsComplete` (migration): the exception is the cluster without an
  infrastructure directory, section 5.

## 5. Where the code and its documentation disagree

Each is a run that TLC ends with a counterexample; `PROJECT.json`, "findings",
quotes the sentence that is contradicted.

- `file_lock_race`: a command that looks at the lock file between the flock and
  the metadata of another takes it for expired, removes it and locks a new one.
  `Release` has the same window between unlocking and removing.
- `sync_rotation`: a key operation re-encrypts the manifests, their hashes no
  longer match the state file, and every later sync refuses them, forced or not.

Met while modelling, not kept as runs.

Keys:
- A completion writes back the `.sops.yaml` it read before an emergency
  revocation by another operator, and the revoked key is a recipient again
  (`RetiredStaysOut` fails in the instance of `lifecycle_conc`); the rollback of
  a failed command does the same.
- While one operator's rotation re-encrypts, another may rotate the same key and
  give it its primary role back by `set-primary`. The first rotation then finds
  the primary it expects and commits, and two rotations are in progress at once
  (`OneRotation` fails in the instance of `lifecycle_conc` when `o2` may rotate and
  set the primary). The theorem about it excludes this, see section 6.
- `createSOPSManager` passes no key manager, so rotating an Age key dereferences
  nil (`cmd/secrets_helpers.go:89`).
- A second rotation overwrites the only private key of the first.
- A rollback on a full disk, or a crash in a write, leaves a part of `.sops.yaml`
  or of a manifest (section 2). The next rotation narrows the manifests to the
  rules that are left, or passes over the manifest, and reports success
  (`rollback.go:102`; `NoLockout` and `Bystanders` fail when `torn` is not
  excepted).

Sync:
- The comparison looks for the private key where `cluster init` does not put it
  (`manager.go:1641`); a sync that is not forced then leaves changed secrets and
  reports success. On the instance of `secrets_sync`, `SuccessIsTrue` fails when
  it is stated without `Compares`, and with `KeyFound = {}` the manifests do not
  converge.
- `hashValue` keeps the first eight bytes of a value itself, so `validate` finds
  no drift between two URLs (`manager.go:1562`).
- Sync encrypts for the key of `sops_age_key_file`, which rotation never
  changes, so manifests written after a rotation go to the retired key and drop
  the other recipients; `decryptManifest` sets a process-wide environment
  variable that the goroutines of `sync --all` share; `sync --all` counts a
  cluster with failed files as a success.

Breaker: a late success takes a probe's half-open slot off the count, so more
probes than `HalfOpenRequests` may run.

Deploy and destroy:
- Destroy (OpenStack, VMware) leaves the state file, so a deploy after it skips
  `opentofu-apply` although nothing exists any more (`lost`). `--restart` helps.
- A version 1 deployment that deployed Kubernetes has no outputs of version 2;
  after `--step kubespray-...` has failed on it, resuming fails at that step for
  good (`Orphaned`).
- A torn state file stops every resume until `--restart`.

Magnum:
- A create that the service rejects for good leaves the identity in flight, and
  every later deploy and destroy waits for a cluster that never was
  (`NothingToSee`).
- A destroy that dies between clearing the identity and the state file makes the
  next deploy skip `magnum-create` and fail.

Promotion:
- The rollback goes on when a file cannot be restored, as on a full disk, and
  then removes that file's backup: a user's adopted file is nowhere
  (`tree_promotion.go:160`; `UserWorkKept` fails with two faults when
  `unrestored` is not excepted).
- A crash between an updated file and the ledger makes every later plan refuse
  the file as modified.
- Two clusters generated at once read and replace the global ledger without a
  lock.

Layout migration:
- SSH keys are planned by prefix, so with clusters `dev` and `dev-eu` the key
  `dev-eu` is planned twice. Moves with one source are ordered by destination
  (`cluster_migrate_layout.go:725`), and `-` sorts before `/`: the first move takes
  it into the secrets of `dev-eu`, the second, to `dev`, fails, and so does the whole migration, with `.git` already moved
  (`cmd/cluster_migrate_layout.go:770`).
- Once `.git` has moved, an interrupted migration cannot be resumed: the command
  no longer recognizes the directory. The comment "Move .git first" is undone by
  the sort, in which `.<cluster>-config.yaml` may come before.
- A cluster without an infrastructure directory whose configuration was moved by
  an interrupted run is not found by the next one, which reports success and
  leaves its keys behind.
- `--force` after an interrupted removal across devices replaces the whole copy
  by the part that is left.

## 6. Proofs

All theorems hold for every value of the constants that satisfies the named
assumptions of the modules; nothing else is assumed.

- `KeyRegistryProofs`. `IInv` is `TypeOK`, the three registry invariants
  (`RegistryInv`), `HolderHasLock` (a process past `waiting` is the lock holder)
  and `FreshCopy` (the copy a process loaded is what is on disk). The invariants
  are not inductive without the last two: a save replaces the file by a function
  of the copy, so the copy must be current. One lemma per mutation shows that it
  preserves `RegistryInv`; the mutations' lemmas and `FreshCopy` give the step.
  `Atomic` then maps `saveRegistry` to `RNext` and everything else to a stutter,
  which proves that the locked cycles implement atomic transactions.
- `StandaloneProofs`. For the breaker, `IInv` bounds the slots by the calls in
  progress and ties the failure counter to the streak; both safety properties
  follow. For the lock, the flock of a file protects its text, so `LockInv` adds
  to `LockTypeOK` that a command that writes or holds has the flock of its own
  file, and that the text of a held file names its holder; `FileNamesHolder`
  follows. Mutual exclusion is not a theorem: it is false. For the layout
  migration, `LayoutInv` says what a plan made after a failure has and lacks. It
  has every move that can still be made (`Planning`), which with `Passed` (the
  sources of the moves made are gone) gives `SuccessIsComplete`; the clusters with
  an infrastructure directory are found as long as `.git` is there to begin with,
  because `.git` goes first (`InfraLast`). Of two moves that claim one source, one
  that has been made or begun leaves the other out of every later plan
  (`Settled`), so what `--force` clears is always the copy of a source that is
  still there (`Taken`): `NothingLost`. `TheirsAreKept` needs that a plan without
  `--force` is free of other files to its end, but for those that came late
  (`Unforced`). The assumptions
  (`LayoutConstants`) are what the paths of the code satisfy: no two moves have
  one destination, each source has a move to its owner, `.git` sorts before
  `infrastructure`.
- `KeyLifecycleProofs`, all six properties, for any keys, rules, manifests and
  faults. One lemma per mutation of the registry says what it does to the
  fingerprints that are active (`Ring`, `Ageing`), one lemma per action what it
  leaves in the memory of its operator (`Shape`) and in the files. On these rest
  four inductive invariants, which are not conjoined because they hold under
  different hypotheses:
  - `Base` and `Spared`, for any number of operators: what an operator has read,
    copied or is about to write takes a key away only if it is in `tried`.
    `Bystanders` follows; `TypeOK` and `NeverReinstated` follow from `Base`.
  - `Current`, `Clean`, `Open` and `Whole`, for one operator (`Operator = {solo}`).
    The hypothesis is what the code needs, not a convenience: nothing locks the
    files between the step that reads them and the step that writes them, and
    two operators break all three properties (sections 4 and 5). A lone operator
    finds the registry and the rules as it left them (`Current`); then nothing it
    may still write or roll back holds a retired key (`RetiredStaysOut`), leaves
    a rule without an active recipient (`NoLockout`), or is neither the old nor
    the new state (`AllOrNothing`). One lemma, `TearsEffect`, says of both
    cut-off writes what they leave; the invariants except the files in `torn`
    exactly where the properties do, and `Whole` not at all.
  - `Chain`, for any number of operators of which none reconciles or sets a
    primary (`NobodyCrowns`; if one does, the property is false, section 5): at
    most one active key has an active predecessor, and a rotation that has looked
    and still holds the primary has no rival. `OneRotation` follows.

  Assumed of the constants: a fingerprint can be the origin of a key, and the
  copy of `.sops.yaml` is not one of a manifest. TLC checked every one of these
  invariants on `lifecycle_seq` or `lifecycle_conc` first.
- `SecretsSyncProofs`. `Base` says what a sync in each phase has in memory and that
  it holds the lock. `FilterRespected` needs nothing else. `Users` adds that a
  manifest a user wrote has a hash no record and no journal refers to, so neither
  a write, a prune nor an undo takes it for its own: `TheirsAreKept`. `Owned`
  says, phase by phase, which paths agree with their record (`Settled`), which
  are in the journal and can be put back (`Pending`), and which a fault has left
  (`Left`): `OwnedExactly`. `Truthful` says the same of the values:
  `SuccessIsTrue`, whether or not the comparison finds its key.
- `StepEngineProofs`. What the engine preserves whatever its steps do to the
  world: the types, and that a step in progress is one of `Steps` (`AtAStep`).
  It is lemmas only, for the two modules that extend the engine.
- `DeploymentProofs`. A record of success has two sources, the step that returned
  and the migration of a version 1 file. `IInv` says of both where the record
  comes from: a step acted on the world before it returned success, and a
  version 1 file lets the migration add a Kubespray step only when its effect
  exists (`Proven`); `Vouched` carries this through every file a later command
  may read. `RecordedIsDone` follows, for any steps and any number of faults.
  For `OrderRespected` the invariant says of every file and of the state in memory
  what a recorded apply stands for: outputs of version 2, or a version 1
  deployment whose Kubespray steps are all on record, or an apply that will be
  handed over (`Accounted`). It says of a command that resumes that what it has
  passed over is there (`Resuming`). It assumes that the Kubespray steps come after
  the apply, as the lists of `bootstrap_provider_infra.go` have them.
- `MagnumLifecycleProofs`. `OneCluster` is not inductive: that a create is sent
  only when nothing is listed proves nothing about clusters that are not listed
  yet. With `NoOrphan`, nothing listed and no identity means that there is no
  cluster, so `IInv` proves the two together, with what a destroy in progress
  knows about the identity it will clear (`Destroys`), what the answer of the
  request is about (`Requests`), and that deploy and destroy exclude each other.
  The assumption on the constants is that `Id` is finite.

- `TreePromotionProofs`. All that the proofs need of a plan is `Sound`, which
  `PlanIsSound` shows of `planRepositoryPromotion`: each path is changed once, all
  that is planned is changed and the global ledger is last (`Complete`), what
  people wrote is backed up before it is replaced (`Cautious`), and the plan takes
  only what is missing, recorded, as planned or backed up, with ledgers that will
  say so (`Lawful`). In `IInv`, `Ready` and `Captive` say that a preimage is what
  the scan has seen, save for what was edited meanwhile; `Forward`, that what the
  promotion has passed is as planned and the rest as it was; `Saved`, that what
  people wrote is on disk, in a preimage, or in a backup that no rollback takes
  away. TLC checked it on the instance of `tree_promotion` first.
  `UserWorkKept` follows from `Saved`. For the refinement, the last operation of a
  promotion is the step `Promote` of `PromotionSpec`, and every other step is a
  stutter or makes paths `Unsure` (`Void`): an edit, a crash or a failed restore.
  The assumptions (`PromotionConstants`) are that `File` is finite and has no
  ledger in it, and that contents are not the marks for what is missing or
  unknown.

Only model-checked: every liveness property (`CommandEnds`, `Recovers`,
`Converges`, `Completes`, `DestroyEnds`), because fairness is beyond the prover.
Every invariant and action property of the passing runs is a theorem. Four have a
hypothesis without which they are false of the code: one operator at a time
(`RetiredStaysOut`, `NoLockout`, `AllOrNothing`), and nobody who reconciles or
sets a primary (`OneRotation`). No module that has theorems uses recursion.

## 7. Not modelled, and the plan

Next, in this order:

1. `BarbicanClient`, composing `CircuitBreaker` with the retry loop: `PutSecret`
   takes any failed describe for a missing secret and deletes before it creates.
   Properties: one secret per name, a value is never lost without an error. It
   is not modelled yet because the number of runs is kept small and the commands'
   own protocols came first.
2. `cluster migrate-layout --custom`, which writes the kustomization last: a
   crash before it leaves moved files that no kustomization lists, and a rerun
   finds nothing to move.
3. An abstract lease lock, implemented by the Redis backend and by `FileLock`
   where it is exclusive.
4. An abstract specification of the key lifecycle (a set of keys with access,
   grown and shrunk atomically) and the conditions under which the code
   implements it.

Left out for good: configuration parsing and defaults, templates, validators,
path computation and dependency injection (data transformation without a
protocol; most of the source lines are of this kind), the other cloud,
Kubernetes and local development providers (their state is in programs and
services outside this code), `PipelineGenerator` and `MultiClusterSyncer` (no
caller outside tests), and user interface code.
