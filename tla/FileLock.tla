------------------------------ MODULE FileLock ------------------------------
(***************************************************************************)
(* The per-cluster lock of `cluster deploy` and `cluster destroy`:         *)
(* AcquireLockWithPrompt (cmd/cluster.go) over the file backend of         *)
(* internal/resilience/lock_manager.go.                                    *)
(*                                                                         *)
(* The lock is a flock on the file <cluster>.lock.  A command first reads  *)
(* the owner and the expiry the file names, removes the file if the lock   *)
(* is expired or the user agrees to break it, then opens and locks the     *)
(* file under that name.  Releasing unlocks, and then removes the name.    *)
(* The name and the file are different things: a process may hold the lock *)
(* of a file that no longer has the name.                                  *)
(***************************************************************************)
EXTENDS Naturals, FiniteSets

CONSTANTS
  Process,      (* commands, each with a lock manager of its own           *)
  Nobody,
  File,         (* files that may bear the name, reused once unreachable   *)
  NoFile,
  Breaks,       (* the user may agree to break a live lock                 *)
  Expiry        (* the time to live of a lock may pass                     *)

ASSUME LockConstants ==
  /\ Nobody \notin Process
  /\ NoFile \notin File
  /\ Breaks \in BOOLEAN /\ Expiry \in BOOLEAN

VARIABLES
  name,         (* the file <cluster>.lock names                           *)
  flock,        (* which process has the flock of each file                *)
  owner,        (* the owner the file's text names; Nobody when it is empty*)
  lapsed,       (* files whose expiry has passed                           *)
  pc,           (* where each command is                                   *)
  fd            (* the file each command has open                          *)

lockVars == <<name, flock, owner, lapsed, pc, fd>>

LockInit ==
  /\ name = NoFile
  /\ flock = [f \in File |-> Nobody]
  /\ owner = [f \in File |-> Nobody]
  /\ lapsed = {}
  /\ pc = [p \in Process |-> "idle"]
  /\ fd = [p \in Process |-> NoFile]

Goto(p, l) == pc' = [pc EXCEPT ![p] = l]

(* Closing the file drops its flock.                                       *)
Close(p) ==
  /\ fd' = [fd EXCEPT ![p] = NoFile]
  /\ flock' = [f \in File |-> IF flock[f] = p THEN Nobody ELSE flock[f]]

Begin(p) ==
  /\ pc[p] = "idle"
  /\ Goto(p, "checking")
  /\ UNCHANGED <<name, flock, owner, lapsed, fd>>

(* A file without text has no expiry, and its lock counts as expired.      *)
Expired(f) == owner[f] = Nobody \/ f \in lapsed

GetLockInfo(p) ==
  /\ pc[p] = "checking"
  /\ \/ name = NoFile /\ Goto(p, "acquiring")
     \/ name # NoFile /\ Expired(name) /\ Goto(p, "breaking")
     \/ name # NoFile /\ ~Expired(name) /\ Breaks /\ Goto(p, "breaking")
     \/ name # NoFile /\ ~Expired(name) /\ Goto(p, "idle")
  /\ UNCHANGED <<name, flock, owner, lapsed, fd>>

(* The name is removed, whatever file it has come to name.                 *)
forceBreak(p) ==
  /\ pc[p] = "breaking"
  /\ name' = NoFile
  /\ Goto(p, "acquiring")
  /\ UNCHANGED <<flock, owner, lapsed, fd>>

Unreachable == {f \in File : f # name /\ \A q \in Process : fd[q] # f}

(* Defect: the owner is written as soon as the file is open.               *)
OpenAndWrite(p) ==
  /\ pc[p] \in {"acquiring", "waiting"}
  /\ Goto(p, "opened")
  /\ \/ /\ name # NoFile
        /\ fd' = [fd EXCEPT ![p] = name]
        /\ owner' = [owner EXCEPT ![name] = p]
        /\ lapsed' = lapsed \ {name}
        /\ UNCHANGED name
     \/ /\ name = NoFile
        /\ \E f \in Unreachable :
             /\ name' = f
             /\ fd' = [fd EXCEPT ![p] = f]
             /\ owner' = [owner EXCEPT ![f] = p]
             /\ lapsed' = lapsed \ {f}
  /\ UNCHANGED flock

OpenLockFile(p) ==
  /\ pc[p] \in {"acquiring", "waiting"}
  /\ Goto(p, "opened")
  /\ \/ /\ name # NoFile
        /\ fd' = [fd EXCEPT ![p] = name]
        /\ UNCHANGED <<name, owner, lapsed>>
     \/ /\ name = NoFile
        /\ \E f \in Unreachable :
             /\ name' = f
             /\ fd' = [fd EXCEPT ![p] = f]
             /\ owner' = [owner EXCEPT ![f] = Nobody]
             /\ lapsed' = lapsed \ {f}
  /\ UNCHANGED flock

Flock(p) ==
  /\ pc[p] = "opened"
  /\ flock[fd[p]] = Nobody
  /\ flock' = [flock EXCEPT ![fd[p]] = p]
  /\ Goto(p, "writing")
  /\ UNCHANGED <<name, owner, lapsed, fd>>

WriteMetadata(p) ==
  /\ pc[p] = "writing"
  /\ owner' = [owner EXCEPT ![fd[p]] = p]
  /\ lapsed' = lapsed \ {fd[p]}
  /\ Goto(p, "held")
  /\ UNCHANGED <<name, flock, fd>>

(* Defect: the file stays open when it is locked by another process.       *)
AttemptFailsOpen(p) ==
  /\ \/ pc[p] = "opened" /\ flock[fd[p]] # Nobody
     \/ pc[p] = "writing"
  /\ Goto(p, "waiting")
  /\ UNCHANGED <<name, flock, owner, lapsed, fd>>

(* The file is locked by another process, or could not be written: close   *)
(* it and try again after the next tick.                                   *)
AttemptFails(p) ==
  /\ \/ pc[p] = "opened" /\ flock[fd[p]] # Nobody
     \/ pc[p] = "writing"
  /\ Close(p)
  /\ Goto(p, "waiting")
  /\ UNCHANGED <<name, owner, lapsed>>

(* Defect: the deadline is noticed only when nothing bears the name.       *)
GiveUpWhenFree(p) ==
  /\ pc[p] = "waiting"
  /\ name = NoFile
  /\ Goto(p, "idle")
  /\ UNCHANGED <<name, flock, owner, lapsed, fd>>

(* The acquire timeout has passed; the first attempt is made regardless.   *)
GiveUp(p) ==
  /\ pc[p] = "waiting"
  /\ Goto(p, "idle")
  /\ UNCHANGED <<name, flock, owner, lapsed, fd>>

(* The operation is over: unlock, then remove the name.                    *)
Release(p) ==
  /\ pc[p] = "held"
  /\ Close(p)
  /\ Goto(p, "removing")
  /\ UNCHANGED <<name, owner, lapsed>>

(* `cluster destroy` removes the name once more.                           *)
RemoveName(p) ==
  /\ name' = NoFile
  /\ \/ pc[p] = "removing" /\ Goto(p, "sweeping")
     \/ pc[p] \in {"removing", "sweeping"} /\ Goto(p, "idle")
  /\ UNCHANGED <<flock, owner, lapsed, fd>>

(* The process dies; the name and the text of the file stay.               *)
Crash(p) ==
  /\ pc[p] # "idle"
  /\ Close(p)
  /\ Goto(p, "idle")
  /\ UNCHANGED <<name, owner, lapsed>>

(* Nothing renews a lock, so its expiry passes even while it is held.      *)
Lapse ==
  /\ Expiry
  /\ \E f \in File \ lapsed : owner[f] # Nobody /\ lapsed' = lapsed \cup {f}
  /\ UNCHANGED <<name, flock, owner, pc, fd>>

Proceed(p) ==
  \/ GetLockInfo(p)
  \/ forceBreak(p)
  \/ OpenLockFile(p)
  \/ Flock(p)
  \/ WriteMetadata(p)
  \/ AttemptFails(p)
  \/ RemoveName(p)

LockNext ==
  \/ \E p \in Process :
       Begin(p) \/ Proceed(p) \/ GiveUp(p) \/ Release(p) \/ Crash(p)
  \/ Lapse

LockSpec == LockInit /\ [][LockNext]_lockVars

(* A running command goes on.  Once the timeout has passed, every pass of  *)
(* the select may notice it, so it cannot be passed over for ever.         *)
FairLockSpec ==
  LockSpec /\ \A p \in Process : WF_lockVars(Proceed(p)) /\ SF_lockVars(GiveUp(p))

-----------------------------------------------------------------------------
Label == {"idle", "checking", "breaking", "acquiring", "opened",
          "writing", "waiting", "held", "removing", "sweeping"}

(* Type invariant; a command has the file open from opening it to closing  *)
(* it and no longer, however its attempts end.                             *)
LockTypeOK ==
  /\ name \in File \cup {NoFile}
  /\ flock \in [File -> Process \cup {Nobody}]
  /\ owner \in [File -> Process \cup {Nobody}]
  /\ lapsed \subseteq File
  /\ pc \in [Process -> Label]
  /\ fd \in [Process -> File \cup {NoFile}]
  /\ \A p \in Process : fd[p] # NoFile <=> pc[p] \in {"opened", "writing", "held"}

(* The lock file tells the truth to `cluster describe` and to the prompt   *)
(* before a break: while a command holds the lock, the file that command   *)
(* has locked names it and no other, whoever crashed, waited or broke the  *)
(* lock before.                                                            *)
FileNamesHolder ==
  \A p \in Process : pc[p] = "held" => owner[fd[p]] = p /\ flock[fd[p]] = p

(* No command waits for ever: one that was started holds the lock or has   *)
(* given up in the end, even when the holder never finishes.               *)
CommandEnds ==
  \A p \in Process : pc[p] # "idle" ~> pc[p] \in {"held", "idle"}

(* The lock prevents concurrent operations: two commands never hold the    *)
(* lock of one cluster together.                                           *)
MutualExclusion ==
  \A p, q \in Process : pc[p] = "held" /\ pc[q] = "held" => p = q
===============================================================================
