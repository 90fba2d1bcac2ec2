---------------------------- MODULE MagnumLifecycle ----------------------------
(***************************************************************************)
(* Deploy and destroy with the Magnum provider, on the step engine         *)
(* (internal/cluster/magnum_bootstrap_provider.go,                         *)
(* magnum_destroy_provider.go, internal/cloud/magnum/provider.go).         *)
(*                                                                         *)
(* Creating a cluster is a request to a remote service that lists a new    *)
(* cluster only after a while and whose answer may get lost.  So the       *)
(* command writes an identity file before the request (in flight), after   *)
(* the answer (accepted) and when it has seen the cluster (observed), each *)
(* time by rename; a later command finds out what became of the request    *)
(* and never sends a second one.                                           *)
(***************************************************************************)
EXTENDS StepEngine, FiniteSets

CONSTANT
  Id                 (* bound: the clusters the service may create         *)

ASSUME IdsAreFinite == IsFiniteSet(Id)

VARIABLES
  remote,            (* what became of each cluster                        *)
  identity,          (* the identity file                                  *)
  kubeconfig,        (* the cluster the kubeconfig is for, or NoCluster    *)
  at,                (* where the step in progress is                      *)
  reply,             (* the cluster the service answered with              *)
  des                (* the destroy in progress: where, and which cluster  *)

vars == <<disk, cmd, faults, remote, identity, kubeconfig, at, reply, des>>

NoCluster == "no cluster"

(* hidden: accepted and not listed yet.                                    *)
Fate == {"none", "hidden", "creating", "ready", "failed", "deleting", "gone"}

NoIdentity == [kind |-> "none", id |-> NoCluster, observed |-> FALSE]
InFlight   == [kind |-> "in flight", id |-> NoCluster, observed |-> FALSE]
Accepted(c, seen) == [kind |-> "accepted", id |-> c, observed |-> seen]
Identities ==
  {NoIdentity, InFlight} \union {Accepted(c, TRUE) : c \in Id}
                         \union {Accepted(c, FALSE) : c \in Id}

Live    == {c \in Id : remote[c] \notin {"none", "gone"}}
Visible == {c \in Live : remote[c] # "hidden"}
Unknown == {c \in Id : remote[c] = "none"}

(* The outcome of a create is not known for sure.                          *)
Unobserved == identity.kind # "none" /\ ~identity.observed

(* WaitVisible and getClusterWithService: by id, or by a name that must    *)
(* be unique.                                                              *)
Sighted ==
  IF identity.kind = "accepted" THEN {identity.id} \intersect Visible
  ELSE IF Cardinality(Visible) = 1 THEN Visible ELSE {}

NotDestroying == [at |-> "idle", id |-> NoCluster]

Init ==
  /\ EngineInit(Absent)
  /\ remote \in [Id -> {"none", "ready"}] /\ Cardinality(Live) <= 1
  /\ identity = NoIdentity /\ kubeconfig = NoCluster
  /\ at = "start" /\ reply = NoCluster
  /\ des = NotDestroying

-----------------------------------------------------------------------------
(* The steps.                                                              *)

Running(s)  == cmd.pc = "run" /\ Here = s
StepEnds(ok) == Returns(ok) /\ at' = "start" /\ reply' = NoCluster

(* An error of the service or of a write, or a timeout.                    *)
StepFails ==
  /\ cmd.pc = "run"
  /\ Fault /\ StepEnds(FALSE)
  /\ UNCHANGED <<disk, remote, identity, kubeconfig, des>>

(* magnum-create, before any request.  Defect: an attempt whose outcome is *)
(* not known is made again.                                                *)
CreateAgain ==
  /\ Running("magnum-create") /\ at = "start"
  /\ \/ /\ identity.observed
        /\ StepEnds(TRUE) /\ UNCHANGED identity
     \/ /\ ~identity.observed
        /\ \E c \in Sighted : identity' = Accepted(c, TRUE)
        /\ StepEnds(TRUE)
     \/ /\ ~identity.observed /\ Visible = {}
        /\ identity' = InFlight /\ at' = "request"
        /\ UNCHANGED <<cmd, reply>>
  /\ UNCHANGED <<disk, faults, remote, kubeconfig, des>>

Create ==
  /\ Running("magnum-create") /\ at = "start"
  /\ \/ /\ identity.observed
        /\ StepEnds(TRUE) /\ UNCHANGED identity
     \/ /\ ~identity.observed
        /\ \E c \in Sighted : identity' = Accepted(c, TRUE)
        /\ StepEnds(TRUE)
     \/ /\ Sighted = {}
        /\ Unobserved \/ Visible # {}
        /\ StepEnds(FALSE) /\ UNCHANGED identity
     \/ /\ identity = NoIdentity /\ Visible = {}
        /\ identity' = InFlight /\ at' = "request"
        /\ UNCHANGED <<cmd, reply>>
  /\ UNCHANGED <<disk, faults, remote, kubeconfig, des>>

(* CreateCluster: the service accepts and answers, accepts and the answer  *)
(* is lost, or rejects.  The bound Id stands for a quota.                  *)
Request ==
  /\ cmd.pc = "run" /\ at = "request"
  /\ \/ \E c \in Unknown :
          /\ remote' = [remote EXCEPT ![c] = "hidden"]
          /\ \/ /\ at' = "accepted" /\ reply' = c
                /\ UNCHANGED <<cmd, faults>>
             \/ Fault /\ StepEnds(FALSE)
     \/ /\ Unknown = {} /\ StepEnds(FALSE) /\ UNCHANGED <<faults, remote>>
  /\ UNCHANGED <<disk, identity, kubeconfig, des>>

RecordAccepted ==
  /\ cmd.pc = "run" /\ at = "accepted"
  /\ identity' = Accepted(reply, FALSE)
  /\ StepEnds(TRUE)
  /\ UNCHANGED <<disk, faults, remote, kubeconfig, des>>

(* magnum-wait-ready: first see the cluster, then wait for it.             *)
Observe ==
  /\ Running("magnum-wait-ready") /\ at = "start"
  /\ \/ /\ Unobserved
        /\ \E c \in Sighted : identity' = Accepted(c, TRUE)
        /\ at' = "ready" /\ UNCHANGED <<cmd, reply>>
     \/ /\ identity.observed
        /\ at' = "ready" /\ UNCHANGED <<cmd, reply, identity>>
     \/ /\ identity = NoIdentity \/ (Unobserved /\ Sighted = {})
        /\ StepEnds(FALSE) /\ UNCHANGED identity
  /\ UNCHANGED <<disk, faults, remote, kubeconfig, des>>

WaitReady ==
  /\ cmd.pc = "run" /\ at = "ready"
  /\ remote[identity.id] \in {"ready", "failed", "gone"}
  /\ StepEnds(remote[identity.id] = "ready")
  /\ UNCHANGED <<disk, faults, remote, identity, kubeconfig, des>>

ExportKubeconfig ==
  /\ Running("magnum-export-kubeconfig")
  /\ IF identity.kind = "accepted" /\ remote[identity.id] = "ready"
     THEN kubeconfig' = identity.id /\ StepEnds(TRUE)
     ELSE StepEnds(FALSE) /\ UNCHANGED kubeconfig
  /\ UNCHANGED <<disk, faults, remote, identity, des>>

Answers == kubeconfig # NoCluster /\ remote[kubeconfig] = "ready"

-----------------------------------------------------------------------------
(* cluster destroy: deleteCluster and clearDestroyedMagnumState.           *)

(* Defect: destroy does not take the lock of the cluster.                  *)
StartDestroyUnlocked ==
  /\ des.at = "idle"
  /\ des' = [NotDestroying EXCEPT !.at = "look"]
  /\ UNCHANGED <<disk, cmd, faults, remote, identity, kubeconfig, at, reply>>

StartDestroy ==
  /\ cmd.pc = "idle" /\ des.at = "idle"
  /\ des' = [NotDestroying EXCEPT !.at = "look"]
  /\ UNCHANGED <<disk, cmd, faults, remote, identity, kubeconfig, at, reply>>

(* Defect: a cluster that is not listed counts as one that is not there.   *)
LookOnce ==
  /\ des.at = "look"
  /\ \/ \E c \in Sighted :
          /\ identity' = IF Unobserved THEN Accepted(c, TRUE) ELSE identity
          /\ des' = [at |-> "delete", id |-> c]
     \/ /\ Sighted = {}
        /\ des' = [NotDestroying EXCEPT !.at = "clear identity"]
        /\ UNCHANGED identity
  /\ UNCHANGED <<disk, cmd, faults, remote, kubeconfig, at, reply>>

(* Defect: a cluster that was observed has to be listed still.             *)
LookAgain ==
  /\ des.at = "look"
  /\ \/ \E c \in Sighted :
          /\ identity' = IF Unobserved THEN Accepted(c, TRUE) ELSE identity
          /\ des' = [at |-> "delete", id |-> c]
     \/ /\ Sighted = {}
        /\ des' = IF identity # NoIdentity \/ Visible # {} THEN NotDestroying
                  ELSE [NotDestroying EXCEPT !.at = "clear identity"]
        /\ UNCHANGED identity
  /\ UNCHANGED <<disk, cmd, faults, remote, kubeconfig, at, reply>>

Look ==
  /\ des.at = "look"
  /\ \/ /\ ~identity.observed
        /\ \E c \in Sighted :
             /\ identity' = IF Unobserved THEN Accepted(c, TRUE) ELSE identity
             /\ des' = [at |-> "delete", id |-> c]
     \/ /\ identity.observed
        /\ des' = [at |-> "delete", id |-> identity.id]
        /\ UNCHANGED identity
     \/ /\ ~identity.observed /\ Sighted = {}
        /\ des' = IF Unobserved \/ Visible # {} THEN NotDestroying
                  ELSE [NotDestroying EXCEPT !.at = "clear identity"]
        /\ UNCHANGED identity
  /\ UNCHANGED <<disk, cmd, faults, remote, kubeconfig, at, reply>>

(* Not found counts as deleted.                                            *)
Delete ==
  /\ des.at = "delete"
  /\ remote' = IF des.id \in Visible THEN [remote EXCEPT ![des.id] = "deleting"]
               ELSE remote
  /\ des' = [des EXCEPT !.at = "wait"]
  /\ UNCHANGED <<disk, cmd, faults, identity, kubeconfig, at, reply>>

WaitDeleted ==
  /\ des.at = "wait"
  /\ \/ remote[des.id] = "gone" /\ des' = [des EXCEPT !.at = "clear identity"]
     \/ remote[des.id] = "failed" /\ des' = NotDestroying
  /\ UNCHANGED <<disk, cmd, faults, remote, identity, kubeconfig, at, reply>>

clearDestroyedMagnumState ==
  /\ \/ /\ des.at = "clear identity"
        /\ identity' = NoIdentity
        /\ des' = [des EXCEPT !.at = "clear state"]
        /\ UNCHANGED disk
     \/ /\ des.at = "clear state"
        /\ disk' = [disk EXCEPT !["state"] = Absent]
        /\ des' = [des EXCEPT !.at = "clear legacy"]
        /\ UNCHANGED identity
     \/ /\ des.at = "clear legacy"
        /\ disk' = [disk EXCEPT !["legacy"] = Absent]
        /\ des' = NotDestroying
        /\ UNCHANGED identity
  /\ UNCHANGED <<cmd, faults, remote, kubeconfig, at, reply>>

DestroyFails ==
  /\ des.at # "idle"
  /\ Fault /\ des' = NotDestroying
  /\ UNCHANGED <<disk, cmd, remote, identity, kubeconfig, at, reply>>

-----------------------------------------------------------------------------
(* The service, and somebody who deletes a cluster without this program.   *)

Becomes(c, f) ==
  /\ remote' = [remote EXCEPT ![c] = f]
  /\ UNCHANGED <<disk, cmd, identity, kubeconfig, at, reply, des>>

ServiceGoesOn ==
  \E c \in Id :
    /\ UNCHANGED faults
    /\ \/ remote[c] = "hidden"   /\ Becomes(c, "creating")
       \/ remote[c] = "creating" /\ Becomes(c, "ready")
       \/ remote[c] = "deleting" /\ Becomes(c, "gone")

ServiceFails ==
  \E c \in Id :
    /\ Fault
    /\ remote[c] \in {"creating", "deleting"} /\ Becomes(c, "failed")

DeletedElsewhere ==
  \E c \in Visible : Fault /\ Becomes(c, "deleting")

-----------------------------------------------------------------------------
World == <<remote, identity, kubeconfig, at, reply, des>>

DeployCommand ==
  /\ des.at = "idle"
  /\ \E restart \in BOOLEAN, pick \in {"all", "step"}, k \in 1..Len(Steps) :
       Deploy(restart, pick, k)
  /\ UNCHANGED World

Step ==
  \/ Create \/ Request \/ RecordAccepted \/ Observe \/ WaitReady \/ ExportKubeconfig

DestroyGoesOn == Look \/ Delete \/ WaitDeleted \/ clearDestroyedMagnumState

Proceed ==
  \/ Engine /\ UNCHANGED World
  \/ waitForReady(Answers) /\ UNCHANGED World
  \/ Step
  \/ DestroyGoesOn

Dies == Crash /\ at' = "start" /\ reply' = NoCluster
              /\ UNCHANGED <<remote, identity, kubeconfig, des>>

Next ==
  \/ DeployCommand \/ StartDestroy \/ Proceed
  \/ StepFails \/ DestroyFails \/ Dies
  \/ ServiceGoesOn \/ ServiceFails \/ DeletedElsewhere

Spec == Init /\ [][Next]_vars

(* Commands go on, the service finishes what it began, and somebody        *)
(* destroys the cluster again and again.                                   *)
FairSpec ==
  Spec /\ WF_vars(Proceed) /\ WF_vars(ServiceGoesOn) /\ SF_vars(StartDestroy)

-----------------------------------------------------------------------------
(* Type invariant; one command runs at a time.                             *)
TypeOK ==
  /\ EngineTypeOK
  /\ remote \in [Id -> Fate]
  /\ identity \in Identities
  /\ kubeconfig \in Id \union {NoCluster}
  /\ at \in {"start", "request", "accepted", "ready"}
  /\ reply \in Id \union {NoCluster}
  /\ des \in [at : {"idle", "look", "delete", "wait", "clear identity",
                    "clear state", "clear legacy"}, id : Id \union {NoCluster}]
  /\ at # "start" => cmd.pc = "run"
  /\ des.at # "idle" => cmd.pc = "idle"

(* There is never a second cluster: no lost answer, crash, restart, single *)
(* step, or destroy that stops half way makes a command create another one *)
(* while the first may still exist.                                        *)
OneCluster == Cardinality(Live) <= 1

(* A cluster that the command created is never out of its reach: as long   *)
(* as it exists the identity file names it, or tells of an attempt whose   *)
(* outcome the next command has to find out, or the service lists it under *)
(* the name of the cluster.                                                *)
NoOrphan ==
  \A c \in Live :
    \/ identity.kind = "in flight"
    \/ identity.kind = "accepted" /\ identity.id = c
    \/ c \in Visible

(* Destroying often enough leaves nothing behind, unless the attempt in    *)
(* the identity file has no cluster that could ever be seen.               *)
NothingToSee == Unobserved /\ Live = {}

DestroyEnds == []<>(des.at = "clear legacy" \/ NothingToSee)
===============================================================================
