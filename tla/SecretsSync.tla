------------------------------ MODULE SecretsSync ------------------------------
(***************************************************************************)
(* `secrets sync` of one cluster: SyncSecrets of internal/secrets/         *)
(* manager.go over the ownership state of internal/secretartifacts.        *)
(*                                                                         *)
(* A sync turns the secrets of the configuration into one encrypted file   *)
(* per service, and records the hash of every file it wrote in a state     *)
(* file.  A file is its own only while the recorded hash matches: anything *)
(* else is refused, never adopted.  Writes are journaled in memory and     *)
(* rolled back when the state cannot be saved.  Syncs of one cluster lock  *)
(* each other out; nothing locks out the people, key rotations and git     *)
(* operations that touch the same files.                                   *)
(***************************************************************************)
EXTENDS Naturals, FiniteSets, SequencesExt

CONSTANTS
  Process,     (* commands that sync                                        *)
  Nobody,
  Path,        (* the manifests, one per service                            *)
  Plans,       (* the configurations over time: a value for each manifest   *)
  Filters,     (* the services a command may be limited to                  *)
  KeyFound,    (* the commands whose private key is where the comparison    *)
               (* looks for it                                              *)
  Prefix,      (* the first eight bytes of each value                       *)
  Faults,      (* what may go wrong                                         *)
  MaxFaults,   (* bound: faults in one behaviour, each kind once; a restore *)
               (* that fails comes on top                                   *)
  MaxId        (* bound: contents of one path that are told apart at a time *)

ASSUME SyncConstants ==
  /\ Nobody \notin Process
  /\ Len(Plans) \in Nat \ {0} /\ \A n \in 1..Len(Plans) : DOMAIN Plans[n] \subseteq Path
  /\ Path \in Filters /\ Filters \subseteq SUBSET Path
  /\ KeyFound \subseteq Process
  /\ \A n \in 1..Len(Plans), q \in Path :
       q \in DOMAIN Plans[n] => Plans[n][q] \in DOMAIN Prefix
  /\ MaxFaults \in Nat /\ MaxId \in Nat
  /\ Faults \subseteq {"check", "write", "readback", "remove", "state", "restore",
                       "crash", "edit", "race", "rotate"}

VARIABLES
  version,     (* which configuration is the current one                    *)
  file,        (* the content of each manifest                              *)
  owner,       (* the state file: the hash recorded for each manifest       *)
  lock,        (* who holds .opencenter-secrets.lock                        *)
  run,         (* what each command is doing                                *)
  faults       (* history: the faults that have happened                    *)

vars == <<version, file, owner, lock, run, faults>>

(* Every encryption gives a file a new hash, even of the same value.       *)
None    == 0
Absent  == [hash |-> None, val |-> "none", by |-> "nobody"]
There(c) == c.hash # None

Idle ==
  [pc      |-> "idle",
   version |-> 0,              (* the configuration that was read           *)
   only    |-> {},             (* the manifests the command is limited to   *)
   force   |-> FALSE,
   errors  |-> FALSE,
   todo    |-> {},             (* what is left of the current loop          *)
   cur     |-> {},             (* the manifest in hand                      *)
   before  |-> Absent,         (* its snapshot                              *)
   prev    |-> [q \in Path |-> None],   (* the records as they were loaded  *)
   made    |-> [q \in Path |-> None],   (* the records to be                *)
   journal |-> <<>>,           (* what was written                          *)
   undo    |-> <<>>]           (* what was removed, or has to be undone     *)

Config  == Plans[version]
Plan(p) == Plans[run[p].version]

Planned(p) == DOMAIN Plan(p) \cap run[p].only

(* Defect: the stale manifests of services the command is not about too.   *)
StaleAnywhere(p) == {q \in Path \ DOMAIN Plan(p) : run[p].prev[q] # None}

Stale(p) == {q \in run[p].only \ DOMAIN Plan(p) : run[p].prev[q] # None}

(* The contents of a path that something still refers to.                  *)
Remembered(q) ==
  {file[q].hash, owner[q]} \cup
    UNION {{run[p].before.hash, run[p].made[q]} \cup
           UNION {{e.before.hash, e.after} :
                    e \in {e \in Range(run[p].journal \o run[p].undo) : e.path = q}}
             : p \in Process}

Fresh(q) == {n \in 1..MaxId : n \notin Remembered(q) /\ \A k \in 1..(n - 1) : k \in Remembered(q)}

Init ==
  /\ version = 1
  /\ file = [q \in Path |-> Absent]
  /\ owner = [q \in Path |-> None]
  /\ lock = Nobody
  /\ run = [p \in Process |-> Idle]
  /\ faults = {}

-----------------------------------------------------------------------------
At(p, pc)   == run[p].pc = pc
Fault(kind) ==
  /\ kind \in Faults \ faults
  /\ faults' = faults \cup {kind}
  /\ Cardinality(faults' \ {"restore"}) <= MaxFaults

(* The next state of a command's run.                                      *)
Becomes(p, r) == run' = [run EXCEPT ![p] = r]

Goto(p, pc) == Becomes(p, [run[p] EXCEPT !.pc = pc])

(* The configuration is read before the lock is taken.                     *)
Begin(p, only, force) ==
  /\ At(p, "idle")
  /\ Becomes(p, [run[p] EXCEPT !.pc = "waiting", !.version = version,
                               !.only = only, !.force = force])
  /\ UNCHANGED <<version, file, owner, lock, faults>>

(* Defect: the lock does not keep another command out.                     *)
acquireSyncLockShared(p) ==
  /\ At(p, "waiting")
  /\ lock' = p
  /\ Goto(p, "loading")
  /\ UNCHANGED <<version, file, owner, faults>>

acquireSyncLock(p) ==
  /\ At(p, "waiting")
  /\ lock = Nobody
  /\ lock' = p
  /\ Goto(p, "loading")
  /\ UNCHANGED <<version, file, owner, faults>>

(* The context ends while the lock is polled.                              *)
GiveUp(p) ==
  /\ At(p, "waiting")
  /\ Becomes(p, Idle)
  /\ UNCHANGED <<version, file, owner, lock, faults>>

(* Loads the state and looks at the manifests that left the configuration. *)
(* A state that cannot be loaded ends the sync.                            *)
loadOwnership(p) ==
  /\ At(p, "loading")
  /\ \/ /\ Becomes(p, [run[p] EXCEPT
                        !.pc = "artifacts",
                        !.prev = owner,
                        !.todo = Planned(p),
                        !.errors = \E q \in run[p].only \ DOMAIN Plan(p) :
                                              owner[q] # None /\ file[q].hash # owner[q]])
        /\ UNCHANGED faults
     \/ /\ Fault("check")
        /\ Becomes(p, [run[p] EXCEPT !.pc = "releasing", !.errors = TRUE])
  /\ UNCHANGED <<version, file, owner, lock>>

(* Defect: the error is logged and not recorded.                           *)
SkipQuietly(p, q) ==
  Becomes(p, [run[p] EXCEPT !.pc = "artifacts", !.todo = run[p].todo \ {q}, !.cur = {},
                            !.before = Absent])

Skip(p, q) ==
  Becomes(p, [run[p] EXCEPT !.pc = "artifacts", !.todo = run[p].todo \ {q}, !.cur = {},
                            !.before = Absent, !.errors = TRUE])

(* Defect: any file with a record counts as our own.                       *)
OursByName(p, q) == There(file[q]) => run[p].prev[q] # None

(* Only a file that is absent, or whose hash is the recorded one, is ours. *)
Ours(p, q) == There(file[q]) => run[p].prev[q] = file[q].hash

(* One manifest: refused, left as it is, or about to be written.  What     *)
(* cannot be decrypted for the comparison counts as changed, but when the  *)
(* private key is not found the manifest is left as it is.                 *)
CheckArtifact(p) ==
  /\ At(p, "artifacts")
  /\ \E q \in run[p].todo :
       \/ /\ ~Ours(p, q)
          /\ Skip(p, q)
          /\ UNCHANGED faults
       \/ /\ Fault("check")
          /\ Skip(p, q)
       \/ /\ Ours(p, q) /\ There(file[q]) /\ ~run[p].force
          /\ p \notin KeyFound \/ file[q].val = Plan(p)[q]
          /\ Becomes(p, [run[p] EXCEPT !.pc = "kept", !.cur = {q}])
          /\ UNCHANGED faults
       \/ /\ Ours(p, q) /\ (There(file[q]) => run[p].force \/ p \in KeyFound)
          /\ Becomes(p, [run[p] EXCEPT !.pc = "writing", !.cur = {q},
                                       !.before = file[q]])
          /\ UNCHANGED faults
  /\ UNCHANGED <<version, file, owner, lock>>

(* The new content is encrypted for the key the configuration names, not   *)
(* by the creation rules, and renamed into place.                          *)
writeEncryptedManifest(p) ==
  /\ At(p, "writing")
  /\ \E q \in run[p].cur :
       \/ /\ \E n \in Fresh(q) :
               file' = [file EXCEPT ![q] = [hash |-> n, val |-> Plan(p)[q], by |-> "sync"]]
          /\ Goto(p, "written")
          /\ UNCHANGED faults
       \/ /\ Fault("write")
          /\ Skip(p, q)
          /\ UNCHANGED file
  /\ UNCHANGED <<version, owner, lock>>

Entry(q, before, after) == <<[path |-> q, before |-> before, after |-> after]>>

(* Defect: the mutation is not entered in the journal.                     *)
ReadBackUnjournaled(p) ==
  /\ run[p].pc \in {"kept", "written"}
  /\ \E q \in run[p].cur :
       /\ There(file[q])
       /\ Becomes(p, [run[p] EXCEPT
                       !.pc = "artifacts", !.todo = run[p].todo \ {q}, !.cur = {},
                       !.before = Absent, !.made[q] = file[q].hash])
  /\ UNCHANGED <<version, file, owner, lock, faults>>

(* Whatever the file holds now is what the record will say.                *)
ReadBack(p) ==
  /\ run[p].pc \in {"kept", "written"}
  /\ \E q \in run[p].cur :
       \/ /\ There(file[q])
          /\ Becomes(p, [run[p] EXCEPT
                          !.pc = "artifacts", !.todo = run[p].todo \ {q}, !.cur = {},
                          !.before = Absent,
                          !.made[q] = file[q].hash,
                          !.journal = run[p].journal \o
                            (IF At(p, "written")
                             THEN Entry(q, run[p].before, file[q].hash) ELSE <<>>)])
          /\ UNCHANGED faults
       \/ /\ ~There(file[q])
          /\ Skip(p, q)
          /\ UNCHANGED faults
       \/ /\ Fault(IF At(p, "written") THEN "readback" ELSE "check")
          /\ Skip(p, q)
  /\ UNCHANGED <<version, file, owner, lock>>

(* Pruning starts only when nothing went wrong and every stale manifest is *)
(* as it was recorded.                                                     *)
StartPruning(p) ==
  /\ At(p, "artifacts") /\ run[p].todo = {}
  /\ LET safe == ~run[p].errors /\ \A q \in Stale(p) : file[q].hash = run[p].prev[q]
         KeepAll == Becomes(p, [run[p] EXCEPT !.pc = "saving", !.errors = TRUE])
     IN  \/ ~safe /\ KeepAll /\ UNCHANGED faults
         \/ /\ safe
            /\ Becomes(p, [run[p] EXCEPT !.pc = "pruning", !.todo = Stale(p)])
            /\ UNCHANGED faults
         \/ safe /\ Stale(p) # {} /\ Fault("check") /\ KeepAll
  /\ UNCHANGED <<version, file, owner, lock>>

PruneFails(p) ==
  Becomes(p, [run[p] EXCEPT !.pc = "unpruning", !.todo = {}, !.errors = TRUE])

Prune(p) ==
  /\ At(p, "pruning") /\ run[p].todo # {}
  /\ \E q \in run[p].todo :
       \/ /\ file[q].hash = run[p].prev[q]
          /\ file' = [file EXCEPT ![q] = Absent]
          /\ Becomes(p, [run[p] EXCEPT !.todo = run[p].todo \ {q},
                                       !.undo = run[p].undo \o Entry(q, file[q], None)])
          /\ UNCHANGED faults
       \/ /\ file[q].hash # run[p].prev[q]
          /\ PruneFails(p)
          /\ UNCHANGED <<file, faults>>
       \/ /\ Fault("remove")
          /\ PruneFails(p)
          /\ UNCHANGED file
  /\ UNCHANGED <<version, owner, lock>>

PruningDone(p) ==
  /\ At(p, "pruning") /\ run[p].todo = {}
  /\ Becomes(p, [run[p] EXCEPT !.pc = "saving", !.undo = <<>>,
                               !.journal = run[p].journal \o run[p].undo])
  /\ UNCHANGED <<version, file, owner, lock, faults>>

Removed(p) == {e.path : e \in {e \in Range(run[p].journal) : e.after = None}}

(* Defect: the records of the services that are not synced are dropped.    *)
writeOwnershipStateOfRun(p) ==
  /\ At(p, "saving")
  /\ owner' = run[p].made
  /\ Goto(p, "releasing")
  /\ UNCHANGED <<version, file, lock, faults>>

(* The state file is replaced by a rename; if that fails everything the    *)
(* sync wrote or removed is undone.                                        *)
writeOwnershipState(p) ==
  /\ At(p, "saving")
  /\ \/ /\ owner' = [q \in Path |-> IF q \in Removed(p) THEN None
                                    ELSE IF run[p].made[q] # None THEN run[p].made[q]
                                    ELSE run[p].prev[q]]
        /\ Goto(p, "releasing")
        /\ UNCHANGED faults
     \/ /\ Fault("state")
        /\ Becomes(p, [run[p] EXCEPT !.pc = "undoing", !.errors = TRUE,
                                     !.undo = run[p].journal])
        /\ UNCHANGED owner
  /\ UNCHANGED <<version, file, lock>>

(* A mutation is undone only while the file is as the sync left it.        *)
Rollback(p) ==
  /\ run[p].pc \in {"unpruning", "undoing"} /\ run[p].undo # <<>>
  /\ LET last  == Len(run[p].undo)
         entry == run[p].undo[last]
     IN  /\ Becomes(p, [run[p] EXCEPT !.undo = SubSeq(run[p].undo, 1, last - 1)])
         /\ \/ /\ file' = [file EXCEPT ![entry.path] =
                             IF @.hash = entry.after THEN entry.before ELSE @]
               /\ UNCHANGED faults
            \/ Fault("restore") /\ UNCHANGED file
  /\ UNCHANGED <<version, owner, lock>>

RollbackDone(p) ==
  /\ run[p].pc \in {"unpruning", "undoing"} /\ run[p].undo = <<>>
  /\ Goto(p, IF At(p, "unpruning") THEN "saving" ELSE "releasing")
  /\ UNCHANGED <<version, file, owner, lock, faults>>

releaseSyncLock(p) ==
  /\ At(p, "releasing")
  /\ lock' = Nobody
  /\ Becomes(p, Idle)
  /\ UNCHANGED <<version, file, owner, faults>>

(* The process dies holding the lock, which the kernel drops.              *)
Crash(p) ==
  /\ lock = p
  /\ Fault("crash")
  /\ lock' = Nobody
  /\ Becomes(p, Idle)
  /\ UNCHANGED <<version, file, owner>>

-----------------------------------------------------------------------------
(* What others do.                                                         *)

ConfigChanges ==
  /\ version < Len(Plans)
  /\ version' = version + 1
  /\ UNCHANGED <<file, owner, lock, run, faults>>

(* Somebody edits, adds or deletes a manifest, between two syncs or during *)
(* one.                                                                    *)
Edit ==
  /\ Fault(IF lock = Nobody THEN "edit" ELSE "race")
  /\ \E q \in Path :
       \/ \E n \in Fresh(q) :
            file' = [file EXCEPT ![q] = [hash |-> n, val |-> "theirs", by |-> "user"]]
       \/ There(file[q]) /\ file' = [file EXCEPT ![q] = Absent]
  /\ UNCHANGED <<version, owner, lock, run>>

(* A key rotation, completed between two syncs, re-encrypts every manifest *)
(* and leaves the ownership state alone.                                   *)
Rotate ==
  /\ lock = Nobody
  /\ Fault("rotate")
  /\ \A q \in Path : There(file[q]) => Fresh(q) # {}
  /\ file' = [q \in Path |->
                IF There(file[q])
                THEN [file[q] EXCEPT !.hash = CHOOSE n \in Fresh(q) : TRUE,
                                     !.by = IF @ = "user" THEN @ ELSE "rotation"]
                ELSE Absent]
  /\ UNCHANGED <<version, owner, lock, run>>

Proceed(p) ==
  \/ loadOwnership(p) \/ CheckArtifact(p) \/ writeEncryptedManifest(p) \/ ReadBack(p)
  \/ StartPruning(p) \/ Prune(p) \/ PruningDone(p)
  \/ writeOwnershipState(p) \/ Rollback(p) \/ RollbackDone(p) \/ releaseSyncLock(p)

Next ==
  \/ \E p \in Process :
       \/ \E only \in Filters, force \in BOOLEAN : Begin(p, only, force)
       \/ acquireSyncLock(p) \/ GiveUp(p) \/ Proceed(p) \/ Crash(p)
  \/ ConfigChanges \/ Edit \/ Rotate

Spec == Init /\ [][Next]_vars

(* A sync that has the lock goes on; full syncs are run again and again,   *)
(* one that keeps waiting gets the lock, and in the end nobody cancels one.*)
FairSpec ==
  /\ Spec
  /\ \A p \in Process :
       /\ WF_vars(Proceed(p))
       /\ SF_vars(acquireSyncLock(p))
       /\ SF_vars(\E force \in BOOLEAN : Begin(p, Path, force))
  /\ <>[][\A p \in Process : ~GiveUp(p)]_vars

-----------------------------------------------------------------------------
Values == UNION {{Plans[n][q] : q \in DOMAIN Plans[n]} : n \in 1..Len(Plans)}

Contents == [hash : 0..MaxId, val : Values \cup {"none", "theirs"},
             by : {"nobody", "sync", "rotation", "user"}]

(* Type invariant; the lock is held exactly while a sync is under way.     *)
TypeOK ==
  /\ version \in 1..Len(Plans)
  /\ file \in [Path -> Contents]
  /\ owner \in [Path -> 0..MaxId]
  /\ faults \subseteq Faults
  /\ \A p \in Process :
       /\ ~At(p, "idle") /\ ~At(p, "waiting") <=> lock = p
       /\ run[p].todo \cup run[p].cur \subseteq run[p].only
       /\ run[p].only \subseteq Path

(* The faults that make the state file and the manifests disagree.         *)
Stranding == {"readback", "restore", "crash", "edit", "race", "rotate"}

(* A sync is all or nothing as far as ownership goes: when it is over,     *)
(* whatever failed on the way and whatever was rolled back, a manifest is  *)
(* there exactly if it is recorded, with the recorded hash.  If it were    *)
(* not, every later sync would refuse it.                                  *)
OwnedExactly ==
  lock = Nobody /\ faults \cap Stranding = {} => \A q \in Path : file[q].hash = owner[q]

(* A manifest somebody else wrote, or changed, between two syncs is not    *)
(* overwritten, removed or rolled back by a sync, ever.                    *)
TheirsAreKept ==
  [][lock # Nobody /\ "race" \notin faults' =>
       \A q \in Path : file[q].by = "user" => file'[q] = file[q]]_vars

(* A sync limited to some services leaves the manifests and the records of *)
(* the others alone, in what it writes, prunes and rolls back.             *)
FilterRespected ==
  [][lock # Nobody /\ "race" \notin faults' =>
       \A q \in Path \ run[lock].only : file'[q] = file[q] /\ owner'[q] = owner[q]]_vars

(* A command can tell whether a manifest holds what it should.             *)
Compares(p) == p \in KeyFound \/ run[p].force

(* A sync that reports no error has done what the configuration it read    *)
(* asks for: the stale manifests are gone, and the others hold their       *)
(* values, provided the sync is forced or its comparison finds the private *)
(* key.  If it does not, an unforced sync takes every manifest of its own  *)
(* for unchanged and reports success.                                      *)
SuccessIsTrue ==
  "race" \notin faults =>
    \A p \in Process : At(p, "releasing") /\ ~run[p].errors =>
      \A q \in run[p].only :
        IF q \in DOMAIN Plan(p)
        THEN Compares(p) => file[q].val = Plan(p)[q]
        ELSE owner[q] = None

(* What the deployed manifests should be.                                  *)
InStep ==
  \A q \in Path : IF q \in DOMAIN Config
                  THEN file[q].val = Config[q]
                  ELSE ~There(file[q])

(* "It ensures that deployed secrets match the source of truth in the      *)
(* configuration" (the help of secrets sync): running full syncs brings    *)
(* the manifests in step with the configuration for good, whatever failed  *)
(* before, next to limited syncs and to syncs that read an older           *)
(* configuration.                                                          *)
DeployedMatchConfig == <>[]InStep

(* What secrets validate calls valid: no manifest is missing or left over, *)
(* and those that are there hold values with the digest of the             *)
(* configuration's, which is made of the first eight bytes.                *)
ValidateSecrets ==
  /\ {q \in Path : There(file[q])} = DOMAIN Config
  /\ \A q \in DOMAIN Config :
       file[q].val \in DOMAIN Prefix /\ Prefix[file[q].val] = Prefix[Config[q]]

(* The same as long as nothing happens that makes the state file and the   *)
(* manifests disagree, and secrets validate agrees from then on.  One of   *)
(* the commands has to find its private key: without it only a forced sync *)
(* updates a manifest, and nobody is bound to force one.                   *)
Converges ==
  KeyFound # {} /\ [](faults \cap Stranding = {}) => <>[](InStep /\ ValidateSecrets)
===============================================================================
