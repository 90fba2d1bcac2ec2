------------------------------ MODULE Deployment ------------------------------
(***************************************************************************)
(* cluster deploy and cluster destroy with the OpenTofu and Kubespray      *)
(* steps of internal/cluster/bootstrap_provider_infra.go.                  *)
(*                                                                         *)
(* The world is the set of steps whose effect exists.  A step needs the    *)
(* effects it builds on and fails without them; the Kubespray steps need   *)
(* the outputs that apply writes since version 2 (the contract), which a   *)
(* deployment begun with version 1 does not have.  Destroy takes the       *)
(* infrastructure away and leaves the state file as it is.                 *)
(***************************************************************************)
EXTENDS StepEngine

CONSTANT
  Needs              (* for each step, the effects it builds on            *)

ASSUME NeedsArePrior ==
  /\ Needs \in [StepId -> SUBSET StepId]
  /\ \A k \in 1..Len(Steps) : \A s \in Needs[Steps[k]] :
       \E j \in 1..k - 1 : Steps[j] = s

(* apply comes before the Kubespray steps, and what proves a version 1     *)
(* deployment after them; none of them is run again once it succeeded.     *)
ASSUME LifecycleFollowsApply ==
  /\ NeverSkip \intersect (Lifecycle \union {Apply}) = {}
  /\ \A k \in 1..Len(Steps) : Steps[k] \in Lifecycle =>
       /\ \E j \in 1..k - 1 : Steps[j] = Apply
       /\ \A j \in 1..Len(Steps) : Steps[j] \in Completion => k < j

VARIABLES
  done,              (* the steps whose effect exists                      *)
  contract,          (* the outputs of version 2 exist                     *)
  lost               (* history: effects destroyed beside a state file     *)

vars == <<disk, cmd, faults, done, contract, lost>>

Recorded(p, s) == disk[p] \notin {Absent, Torn} /\ Succeeded(disk[p], s)

(* A deployment that version 1 began: it ran the steps it knew in their    *)
(* order, as far as the k-th, which may have failed or died.  Version 1    *)
(* deployed Kubernetes inside its apply, so a completion step proves the   *)
(* Kubespray effects; an early build of the Kubespray steps recorded them  *)
(* as well.                                                                *)
Legacy(known, k) ==
  [kind |-> "v1", handoff |-> FALSE,
   steps |-> [s \in StepId |->
      CASE s \in known /\ s \in {Steps[j] : j \in 1..k - 1} -> "success"
        [] s \in known /\ k <= Len(Steps) /\ s = Steps[k] -> "failed"
        [] OTHER -> "none"]]

Effects(st) ==
  LET ran == {s \in StepId : Succeeded(st, s)}
  IN  ran \union (IF ran \intersect Completion # {} THEN Lifecycle ELSE {})

Init ==
  /\ \/ EngineInit(Absent) /\ done = {} /\ contract = FALSE
     \/ \E known \in {StepId, StepId \ Lifecycle}, k \in 1..Len(Steps) + 1 :
          LET st == Legacy(known, k)
          IN  /\ EngineInit(st)
              /\ done = Effects(st)
              /\ contract = (known = StepId /\ Apply \in done)
  /\ lost = {}

-----------------------------------------------------------------------------

Able(s) == Needs[s] \subseteq done /\ (s \in Lifecycle => contract)

(* Run of a step.                                                          *)
RunStep ==
  /\ cmd.pc = "run"
  /\ \/ /\ Able(Here) /\ Returns(TRUE)
        /\ done' = done \union {Here}
        /\ contract' = (contract \/ Here = Apply)
        /\ lost' = lost \ {Here}
        /\ UNCHANGED faults
     \/ /\ ~Able(Here) /\ Returns(FALSE)
        /\ UNCHANGED <<done, contract, lost, faults>>
     \/ /\ Fault /\ Returns(FALSE)
        /\ UNCHANGED <<done, contract, lost>>
  /\ UNCHANGED disk

(* waitForCloudCluster: kubectl needs the cluster and the kubeconfig.      *)
Answers == Lifecycle \subseteq done

(* cluster destroy: tofu init and tofu destroy.                            *)
Destroy ==
  /\ cmd.pc = "idle"
  /\ done' = done \intersect NeverSkip
  /\ contract' = FALSE
  /\ lost' = IF \A p \in Place : disk[p] = Absent THEN {}
             ELSE lost \union (done \ NeverSkip)
  /\ UNCHANGED <<disk, cmd, faults>>

World == <<done, contract, lost>>

Resume == Deploy(FALSE, "all", 1) /\ UNCHANGED World

DeployCommand ==
  /\ \E restart \in BOOLEAN, pick \in {"all", "step", "from"}, k \in 1..Len(Steps) :
       Deploy(restart, pick, k)
  /\ UNCHANGED World

Proceed ==
  \/ Engine /\ UNCHANGED World
  \/ RunStep
  \/ waitForReady(Answers) /\ UNCHANGED World

Next ==
  \/ DeployCommand \/ Proceed \/ Destroy
  \/ Crash /\ UNCHANGED World

Spec == Init /\ [][Next]_vars

(* A command that runs goes on, and somebody resumes again and again.      *)
FairSpec == Spec /\ WF_vars(Proceed) /\ SF_vars(Resume)

-----------------------------------------------------------------------------
(* Type invariant.                                                         *)
TypeOK ==
  /\ EngineTypeOK
  /\ done \subseteq StepId /\ contract \in BOOLEAN /\ lost \subseteq StepId

(* A step recorded as successful, in memory or at either place, has its    *)
(* effect in the world, unless destroy took it away since: no failed save, *)
(* crash, migration, single step or restart makes resume pass over a step  *)
(* that never happened.                                                    *)
RecordedIsDone ==
  \A s \in StepId :
    (\/ Succeeded(cmd.st, s) \/ \E p \in Place : Recorded(p, s))
      => s \in done \union lost

(* Version 1 deployed Kubernetes, so its outputs were never regenerated,   *)
(* and a Kubespray step was asked for by name and has not succeeded.       *)
Orphaned ==
  /\ ~contract /\ Lifecycle \subseteq done
  /\ disk["state"] \notin {Absent, Torn}
  /\ \E s \in Lifecycle : disk["state"].steps[s] \in {"running", "failed"}

(* A command that resumes starts a step only when everything before it is  *)
(* done, and a Kubespray step only with the outputs of version 2 in place: *)
(* the apply of version 1 is handed over first, however often it fails.    *)
OrderRespected ==
  [][ResumedStep /\ lost = {} /\ ~Orphaned =>
       /\ \A j \in 1..cmd.i - 1 : Steps[j] \in done
       /\ Here \in Lifecycle => contract]_vars

(* Resuming is enough: a deployment that is resumed often enough comes to  *)
(* its end, unless the state file is torn, describes infrastructure that   *)
(* was destroyed, or is orphaned; those need --restart.                    *)
Stuck == lost # {} \/ Orphaned \/ \E p \in Place : disk[p] = Torn

Completes == []<>(cmd.pc = "remove" \/ Stuck)
===============================================================================
