------------------------------ MODULE StepEngine ------------------------------
(***************************************************************************)
(* The engine of cluster deploy (internal/cluster/bootstrap_service.go):   *)
(* it runs the steps a provider lists, one after another, and keeps the    *)
(* status of each in a file so that the next command resumes.              *)
(*                                                                         *)
(* What a step does is left to the module that extends this one: between   *)
(* MarkRunning and StepReturned that module acts on the world.  One        *)
(* command runs at a time, under the cluster lock (FileLock).              *)
(*                                                                         *)
(* The file is written in place, so a write that fails or a process that   *)
(* dies inside it may leave a torn file.  Versions before 2 kept the file  *)
(* in the repository, and it is read there when the new place has none.    *)
(***************************************************************************)
EXTENDS Naturals, Sequences

CONSTANTS
  Steps,             (* the steps of the provider, a sequence of ids       *)
  NeverSkip,         (* the steps that run although they are recorded      *)
  Lifecycle,         (* the Kubespray steps                                *)
  Completion,        (* later steps that prove a version 1 deployment      *)
  Apply,             (* the id of opentofu-apply                           *)
  MaxFaults          (* bound: failures and crashes                        *)

StepId == {Steps[k] : k \in 1..Len(Steps)}

ASSUME StepsAreDistinct ==
  /\ Steps \in Seq(StepId) /\ Len(Steps) > 0
  /\ \A j, k \in 1..Len(Steps) : Steps[j] = Steps[k] => j = k

ASSUME StepKinds ==
  /\ NeverSkip \subseteq StepId
  /\ Lifecycle \subseteq StepId
  /\ Completion \subseteq StepId
  /\ MaxFaults \in Nat

VARIABLES
  disk,              (* the state file at each place                       *)
  cmd,               (* the deploy command in progress                     *)
  faults             (* failures and crashes so far                        *)

engine == <<disk, cmd, faults>>

Place  == {"state", "legacy"}
Status == {"none", "running", "success", "failed"}
State  == [kind : {"v1", "v2"}, steps : [StepId -> Status], handoff : BOOLEAN]
Blank  == [kind |-> "v2", steps |-> [s \in StepId |-> "none"], handoff |-> FALSE]
Absent == [kind |-> "absent"]
Torn   == [kind |-> "torn"]
Files  == State \union {Absent, Torn}

PC == {"idle", "clear", "clear legacy", "load", "migrate", "next", "run",
       "returned", "wait", "remove", "remove legacy"}

(* st is the state in memory, i the step to run, hi the last one selected; *)
(* ignore: the record does not count; ok: what the step returned.          *)
Command == [pc : PC, st : State, i : Nat \ {0}, hi : 0..Len(Steps),
            ignore : BOOLEAN, ok : BOOLEAN]
Idle == [pc |-> "idle", st |-> Blank, i |-> 1, hi |-> 0, ignore |-> FALSE, ok |-> FALSE]

Succeeded(st, s) == st.steps[s] = "success"
Marked(st, s, v) == [st EXCEPT !.steps[s] = v]

Fault     == faults < MaxFaults /\ faults' = faults + 1
Fails     == Fault /\ cmd' = Idle
GoTo(p)   == cmd' = [cmd EXCEPT !.pc = p]

EngineInit(legacy) ==
  /\ disk = [p \in Place |-> IF p = "legacy" THEN legacy ELSE Absent]
  /\ cmd = Idle
  /\ faults = 0

-----------------------------------------------------------------------------
(* saveBootstrapState.                                                     *)
Saved(st) == disk' = [disk EXCEPT !["state"] = st]

(* The write fails, or the process dies in it.                             *)
SaveFails ==
  /\ Fails
  /\ \/ UNCHANGED disk
     \/ disk' = [disk EXCEPT !["state"] = Torn]

-----------------------------------------------------------------------------
(* migrateBootstrapState.                                                  *)

LaterSuccess(st, k) ==
  \E j \in k + 1 .. Len(Steps) :
    Steps[j] \in Lifecycle \union Completion /\ Succeeded(st, Steps[j])

hasKubernetesCompletionEvidence(st) ==
  \E k \in 1..Len(Steps) : Steps[k] \in Lifecycle /\ LaterSuccess(st, k)

(* Defect: a successful apply counts as evidence for the steps after it.   *)
BackfilledFromApply(st) ==
  [k \in 1..Len(Steps) |->
     Steps[k] \in Lifecycle /\ st.steps[Steps[k]] = "none"
       /\ (LaterSuccess(st, k) \/ Succeeded(st, Apply))]

Backfilled(st) ==
  [k \in 1..Len(Steps) |->
     Steps[k] \in Lifecycle /\ st.steps[Steps[k]] = "none" /\ LaterSuccess(st, k)]

(* Defect: the apply of version 1 is not handed over.                      *)
migrateKeepingApply(st) ==
  [kind    |-> "v2",
   steps   |-> [s \in StepId |->
                  IF \E k \in 1..Len(Steps) : Steps[k] = s /\ Backfilled(st)[k]
                  THEN "success" ELSE st.steps[s]],
   handoff |-> FALSE]

migrateBootstrapState(st) ==
  [kind    |-> "v2",
   steps   |-> [s \in StepId |->
                  IF \E k \in 1..Len(Steps) : Steps[k] = s /\ Backfilled(st)[k]
                  THEN "success" ELSE st.steps[s]],
   handoff |-> /\ Apply \in StepId /\ Succeeded(st, Apply)
               /\ ~hasKubernetesCompletionEvidence(st)]

-----------------------------------------------------------------------------
(* Bootstrap and provisionInfrastructure, up to the first step.            *)

(* Defect: the slice of steps ends one after the last.                     *)
DeployPastEnd(restart, pick, k) ==
  /\ cmd.pc = "idle"
  /\ cmd' = [Idle EXCEPT
               !.pc = IF restart THEN "clear" ELSE "load",
               !.i  = IF pick = "all" THEN 1 ELSE k,
               !.hi = IF pick = "step" THEN k ELSE Len(Steps) + 1,
               !.ignore = restart \/ pick # "all"]
  /\ UNCHANGED <<disk, faults>>

(* filterSteps: all steps, one step, or those from one step on.            *)
Deploy(restart, pick, k) ==
  /\ cmd.pc = "idle"
  /\ cmd' = [Idle EXCEPT
               !.pc = IF restart THEN "clear" ELSE "load",
               !.i  = IF pick = "all" THEN 1 ELSE k,
               !.hi = IF pick = "step" THEN k ELSE Len(Steps),
               !.ignore = restart \/ pick # "all"]
  /\ UNCHANGED <<disk, faults>>

ClearState ==
  \/ /\ cmd.pc = "clear"
     /\ disk' = [disk EXCEPT !["state"] = Absent]
     /\ GoTo("clear legacy") /\ UNCHANGED faults
  \/ /\ cmd.pc = "clear legacy"
     /\ disk' = [disk EXCEPT !["legacy"] = Absent]
     /\ GoTo("next") /\ UNCHANGED faults
  \/ /\ cmd.pc \in {"clear", "clear legacy"}
     /\ Fails /\ UNCHANGED disk

loadBootstrapStateWithFallback ==
  LET found == IF disk["state"] # Absent THEN disk["state"] ELSE disk["legacy"]
  IN  /\ cmd.pc = "load"
      /\ cmd' = CASE found = Torn -> Idle
                  [] found = Absent -> [cmd EXCEPT !.pc = "next"]
                  [] OTHER -> IF found.kind = "v1"
                              THEN [cmd EXCEPT !.pc = "migrate",
                                               !.st = migrateBootstrapState(found)]
                              ELSE [cmd EXCEPT !.pc = "next", !.st = found]
      /\ UNCHANGED <<disk, faults>>

SaveMigrated ==
  /\ cmd.pc = "migrate"
  /\ \/ Saved(cmd.st) /\ GoTo("next") /\ UNCHANGED faults
     \/ SaveFails

-----------------------------------------------------------------------------
(* executeBootstrapSteps.                                                  *)

Here    == Steps[cmd.i]
Handoff == Here = Apply /\ cmd.st.handoff

Skippable ==
  /\ ~Handoff /\ ~cmd.ignore
  /\ Here \notin NeverSkip
  /\ Succeeded(cmd.st, Here)

Skip ==
  /\ cmd.pc = "next" /\ cmd.i <= cmd.hi
  /\ Skippable
  /\ cmd' = [cmd EXCEPT !.i = @ + 1]
  /\ UNCHANGED <<disk, faults>>

(* The apply that is handed over keeps its status of version 1.            *)
MarkRunning ==
  /\ cmd.pc = "next" /\ cmd.i <= cmd.hi
  /\ ~Skippable
  /\ LET st == IF Handoff THEN cmd.st ELSE Marked(cmd.st, Here, "running")
     IN  \/ /\ IF Handoff THEN UNCHANGED disk ELSE Saved(st)
            /\ cmd' = [cmd EXCEPT !.pc = "run", !.st = st]
            /\ UNCHANGED faults
         \/ ~Handoff /\ SaveFails

(* The step returns; the extending module says when, and with which ok.    *)
Returns(ok) == cmd' = [cmd EXCEPT !.pc = "returned", !.ok = ok]

(* Defect: the mark of the handoff is dropped whatever the apply returned. *)
OutcomeForgettingHandoff ==
  IF Handoff THEN [cmd.st EXCEPT !.handoff = FALSE]
  ELSE Marked(cmd.st, Here, IF cmd.ok THEN "success" ELSE "failed")

Outcome ==
  IF Handoff THEN [cmd.st EXCEPT !.handoff = ~cmd.ok]
  ELSE Marked(cmd.st, Here, IF cmd.ok THEN "success" ELSE "failed")

StepReturned ==
  /\ cmd.pc = "returned"
  /\ \/ /\ Saved(Outcome)
        /\ cmd' = IF cmd.ok
                  THEN [cmd EXCEPT !.pc = "next", !.st = Outcome, !.i = @ + 1]
                  ELSE Idle
        /\ UNCHANGED faults
     \/ SaveFails

StepsDone ==
  /\ cmd.pc = "next" /\ cmd.i > cmd.hi
  /\ GoTo("wait")
  /\ UNCHANGED <<disk, faults>>

-----------------------------------------------------------------------------
(* waitForReady: it polls the cluster until it answers or the time is up.  *)
waitForReady(answers) ==
  /\ cmd.pc = "wait"
  /\ \/ answers /\ GoTo("remove") /\ UNCHANGED faults
     \/ ~answers /\ cmd' = Idle /\ UNCHANGED faults
     \/ Fails
  /\ UNCHANGED disk

(* removeBootstrapState at both places; a failure is only logged.          *)
removeBootstrapState ==
  \/ /\ cmd.pc = "remove"
     /\ \/ disk' = [disk EXCEPT !["state"] = Absent] /\ UNCHANGED faults
        \/ Fault /\ UNCHANGED disk
     /\ GoTo("remove legacy")
  \/ /\ cmd.pc = "remove legacy"
     /\ \/ disk' = [disk EXCEPT !["legacy"] = Absent] /\ UNCHANGED faults
        \/ Fault /\ UNCHANGED disk
     /\ cmd' = Idle

Crash == cmd.pc # "idle" /\ Fails /\ UNCHANGED disk

Engine ==
  \/ ClearState \/ loadBootstrapStateWithFallback \/ SaveMigrated
  \/ Skip \/ MarkRunning \/ StepReturned \/ StepsDone
  \/ removeBootstrapState

-----------------------------------------------------------------------------
EngineTypeOK ==
  /\ disk \in [Place -> Files]
  /\ cmd \in Command
  /\ faults \in 0..MaxFaults

(* A command that resumes starts a step.                                   *)
ResumedStep == ~cmd.ignore /\ cmd.pc = "next" /\ cmd'.pc = "run"
===============================================================================
