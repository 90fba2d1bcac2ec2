------------------------- MODULE MagnumLifecycleProofs -------------------------
(***************************************************************************)
(* For any steps, any quota of the service and any number of failures:     *)
(* there is at most one cluster and no cluster is out of reach.            *)
(*                                                                         *)
(* A create is sent only when the file names no attempt and nothing is     *)
(* listed; that means there is no cluster only because every cluster that  *)
(* is not listed is named or announced by the file.  Destroy keeps this,   *)
(* because it forgets the file only after what the file names is gone.     *)
(***************************************************************************)
EXTENDS MagnumLifecycle, StepEngineProofs, FiniteSetTheorems

AtMostOne == \A c, d \in Live : c = d

(* A request is sent when nothing exists, and its answer is about all that *)
(* does.                                                                   *)
Requests ==
  /\ at = "request" => Live = {} /\ identity = InFlight
  /\ at = "accepted" => reply \in Id /\ Live \subseteq {reply}

(* Destroy removes what the file names, or what is listed.                 *)
Destroys ==
  /\ des.at \in {"delete", "wait"} =>
       /\ identity.kind # "in flight"
       /\ identity.kind = "accepted" => identity.id = des.id
  /\ des.at = "clear identity" => Live \subseteq Visible

WorldTypeOK ==
  /\ remote \in [Id -> Fate]
  /\ identity \in Identities
  /\ kubeconfig \in Id \union {NoCluster}
  /\ at \in {"start", "request", "accepted", "ready"}
  /\ reply \in Id \union {NoCluster}
  /\ des \in [at : {"idle", "look", "delete", "wait", "clear identity",
                    "clear state", "clear legacy"}, id : Id \union {NoCluster}]

OneCommand ==
  /\ at # "start" => cmd.pc = "run"
  /\ des.at # "idle" => cmd.pc = "idle"

InReach == NoOrphan /\ AtMostOne /\ Requests /\ Destroys

IInv == EngineInv /\ WorldTypeOK /\ OneCommand /\ InReach

(* The invariant has the types, and the exclusion of deploy and destroy.   *)
LEMMA IInvTypes == IInv => TypeOK
BY DEF IInv, EngineInv, WorldTypeOK, OneCommand, TypeOK

(* What an identity file may say.                                          *)
LEMMA IdentitiesAre ==
  /\ NoIdentity \in Identities /\ InFlight \in Identities
  /\ \A c \in Id, seen \in BOOLEAN : Accepted(c, seen) \in Identities
  /\ \A x \in Identities :
       \/ x = NoIdentity \/ x = InFlight
       \/ \E c \in Id, seen \in BOOLEAN : x = Accepted(c, seen)
<1>1. NoIdentity \in Identities /\ InFlight \in Identities
  BY DEF Identities
<1>2. \A c \in Id : Accepted(c, TRUE) \in Identities /\ Accepted(c, FALSE) \in Identities
  BY DEF Identities
<1>3. ASSUME NEW x \in Identities, x # NoIdentity, x # InFlight
      PROVE  \E c \in Id, seen \in BOOLEAN : x = Accepted(c, seen)
  <2>1. \/ \E c \in Id : x = Accepted(c, TRUE)
        \/ \E c \in Id : x = Accepted(c, FALSE)
    BY <1>3 DEF Identities
  <2>2. QED
    BY <2>1
<1>4. \A c \in Id, seen \in BOOLEAN : Accepted(c, seen) \in Identities
  <2>1. SUFFICES ASSUME NEW c \in Id, NEW seen \in BOOLEAN
                 PROVE  Accepted(c, seen) \in Identities
    OBVIOUS
  <2>2. CASE seen = TRUE
    BY <1>2, <2>2
  <2>3. CASE seen = FALSE
    BY <1>2, <2>3
  <2>4. QED
    BY <2>2, <2>3
<1>5. QED
  BY <1>1, <1>3, <1>4

(* What kind of identity names a cluster, and which one it is.             *)
LEMMA IdentityNames ==
  ASSUME NEW x \in Identities
  PROVE  /\ x.kind \in {"none", "in flight", "accepted"} /\ x.observed \in BOOLEAN
         /\ x.kind = "none" <=> x = NoIdentity
         /\ x.kind = "accepted" => x.id \in Id
         /\ x.observed => x.kind = "accepted"
<1>1. CASE x = NoIdentity
  BY <1>1 DEF NoIdentity
<1>2. CASE x = InFlight
  BY <1>2 DEF InFlight, NoIdentity
<1>3. CASE \E c \in Id, seen \in BOOLEAN : x = Accepted(c, seen)
  BY <1>3 DEF Accepted, NoIdentity
<1>4. QED
  BY <1>1, <1>2, <1>3, IdentitiesAre

(* At most one member, and a cardinality of at most one.                   *)
LEMMA AtMostOneMember ==
  ASSUME NEW S, IsFiniteSet(S)
  PROVE  (Cardinality(S) <= 1) <=> \A c, d \in S : c = d
<1>1. ASSUME Cardinality(S) <= 1, NEW c \in S, NEW d \in S, c # d
      PROVE  FALSE
  <2>1. IsFiniteSet({c}) /\ Cardinality({c}) = 1
    BY FS_Singleton
  <2>2. Cardinality({c} \union {d}) = 2
    BY <1>1, <2>1, FS_AddElement
  <2>3. Cardinality({c} \union {d}) <= Cardinality(S)
    BY <1>1, FS_Subset
  <2>4. Cardinality(S) \in Nat
    BY FS_CardinalityType
  <2>5. QED
    BY <1>1, <2>2, <2>3, <2>4
<1>2. ASSUME \A c, d \in S : c = d
      PROVE  Cardinality(S) <= 1
  <2>1. CASE S = {}
    BY <2>1, FS_EmptySet
  <2>2. CASE S # {}
    <3>1. PICK c : c \in S
      BY <2>2
    <3>2. S = {c}
      BY <1>2, <3>1
    <3>3. QED
      BY <3>2, FS_Singleton
  <2>3. QED
    BY <2>1, <2>2
<1>3. QED
  BY <1>1, <1>2

(* Cardinalities make sense.                                               *)
LEMMA LiveIsFinite == IsFiniteSet(Live)
BY IdsAreFinite, FS_Subset DEF Live

(* A lookup returns only clusters that exist and are listed.               *)
LEMMA VisibleIsLive == Visible \subseteq Live /\ Sighted \subseteq Visible
BY DEF Visible, Sighted

(* The invariant holds before any command.                                 *)
LEMMA InitIInv == Init => IInv
<1> SUFFICES ASSUME Init PROVE IInv
  OBVIOUS
<1>1. EngineInv
  BY EngineInitInv DEF Init, Files
<1>2. WorldTypeOK /\ OneCommand
  BY DEF Init, WorldTypeOK, OneCommand, Fate, Identities, NotDestroying
<1>3. AtMostOne
  BY AtMostOneMember, LiveIsFinite DEF Init, AtMostOne
<1>4. Live \subseteq Visible
  BY DEF Init, Live, Visible
<1>5. NoOrphan /\ Requests /\ Destroys
  BY <1>4 DEF Init, NoOrphan, Requests, Destroys, NotDestroying
<1>6. QED
  BY <1>1, <1>2, <1>3, <1>5 DEF IInv, InReach

-----------------------------------------------------------------------------
(* What keeps the clusters in reach.                                       *)

(* Clusters are deleted or come into sight.                                *)
LEMMA RemoteMoves ==
  ASSUME WorldTypeOK, OneCommand, InReach,
         NEW c \in Id, NEW f \in Fate \ {"none", "hidden"},
         c \in Live, remote' = [remote EXCEPT ![c] = f]
  PROVE  /\ remote' \in [Id -> Fate]
         /\ Live' \subseteq Live
         /\ Live' \intersect Visible \subseteq Visible'
BY DEF WorldTypeOK, Live, Visible, Fate

(* The engine when a step ends.                                            *)
LEMMA StepEndsEngine ==
  ASSUME EngineInv, cmd.pc = "run", NEW ok \in BOOLEAN, StepEnds(ok),
         UNCHANGED disk, faults' \in 0..MaxFaults
  PROVE  EngineInv' /\ cmd'.pc = "returned"
<1>1. EngineInv'
  BY ReturnsInv DEF EngineInv, EngineTypeOK, StepEnds
<1>2. cmd'.pc = "returned"
  BY DEF EngineInv, EngineTypeOK, StepEnds, Returns, Command
<1>3. QED
  BY <1>1, <1>2

(* The step in progress ends without a new word on the cluster.            *)
LEMMA StepEndsKeepsReach ==
  ASSUME IInv, cmd.pc = "run", NEW ok \in BOOLEAN, StepEnds(ok),
         UNCHANGED <<disk, remote, identity, des>>, faults' \in 0..MaxFaults,
         kubeconfig' \in Id \union {NoCluster}
  PROVE  IInv'
<1>1. EngineInv'
  BY ReturnsInv DEF IInv, EngineInv, EngineTypeOK, StepEnds
<1>2. cmd'.pc = "returned" /\ des.at = "idle"
  BY DEF IInv, EngineInv, EngineTypeOK, OneCommand, StepEnds, Returns, Command
<1>3. WorldTypeOK' /\ OneCommand'
  BY <1>2 DEF IInv, WorldTypeOK, OneCommand, StepEnds
<1>4. Live' = Live /\ Visible' = Visible
  BY DEF Live, Visible
<1>5. InReach'
  BY <1>2, <1>4 DEF IInv, InReach, NoOrphan, AtMostOne, Requests, Destroys, StepEnds
<1>6. QED
  BY <1>1, <1>3, <1>5 DEF IInv

(* The cluster that is sighted is the one the file meant, or the only one. *)
LEMMA SightedKeepsReach ==
  ASSUME InReach, NEW c \in Sighted, UNCHANGED remote, identity' = Accepted(c, TRUE)
  PROVE  NoOrphan' /\ AtMostOne'
<1>1. Live' = Live /\ Visible' = Visible
  BY DEF Live, Visible
<1>2. c \in Live
  BY VisibleIsLive
<1>3. QED
  BY <1>1, <1>2 DEF InReach, NoOrphan, AtMostOne, Accepted

(* The clusters may leave while a command or a destroy is in progress.     *)
LEMMA ServiceKeepsInv ==
  ASSUME IInv, NEW c \in Id, NEW f \in Fate \ {"none", "hidden"},
         c \in Live, Becomes(c, f), faults' \in 0..MaxFaults
  PROVE  IInv'
<1>1. /\ remote' \in [Id -> Fate]
      /\ Live' \subseteq Live
      /\ Live' \intersect Visible \subseteq Visible'
  BY RemoteMoves DEF IInv, Becomes
<1>2. EngineInv' /\ WorldTypeOK' /\ OneCommand'
  BY <1>1 DEF IInv, EngineInv, EngineTypeOK, AtAStep, WorldTypeOK, OneCommand, Becomes
<1>3. InReach'
  BY <1>1 DEF IInv, InReach, NoOrphan, AtMostOne, Requests, Destroys, Becomes
<1>4. QED
  BY <1>2, <1>3 DEF IInv

-----------------------------------------------------------------------------
(* The steps of deploy.                                                    *)

(* A create is sent only when every cluster would be known.                *)
LEMMA CreateKeepsInv ==
  ASSUME IInv, Create
  PROVE  IInv'
<1>a. cmd.pc = "run" /\ at = "start" /\ des.at = "idle"
  BY DEF Create, Running, IInv, OneCommand
<1>b. faults' \in 0..MaxFaults /\ kubeconfig' \in Id \union {NoCluster}
  BY DEF Create, IInv, EngineInv, EngineTypeOK, WorldTypeOK
<1>c. Live' = Live /\ Visible' = Visible
  BY DEF Create, Live, Visible
<1>1. CASE StepEnds(TRUE) /\ UNCHANGED identity
  BY <1>1, <1>a, <1>b, StepEndsKeepsReach DEF Create
<1>2. CASE StepEnds(FALSE) /\ UNCHANGED identity
  BY <1>2, <1>a, <1>b, StepEndsKeepsReach DEF Create
<1>3. CASE (\E c \in Sighted : identity' = Accepted(c, TRUE)) /\ StepEnds(TRUE)
  <2>1. PICK c \in Sighted : identity' = Accepted(c, TRUE)
    BY <1>3
  <2>2. NoOrphan' /\ AtMostOne'
    BY <2>1, SightedKeepsReach DEF IInv, Create
  <2>3. UNCHANGED disk /\ EngineInv
    BY DEF Create, IInv
  <2>4. EngineInv' /\ cmd'.pc = "returned"
    BY <1>3, <1>a, <1>b, <2>3, StepEndsEngine
  <2>5. identity' \in Identities
    BY <2>1, VisibleIsLive, IdentitiesAre DEF Live
  <2>6. WorldTypeOK' /\ OneCommand'
    BY <1>3, <1>a, <2>4, <2>5 DEF IInv, WorldTypeOK, OneCommand, StepEnds, Create
  <2>7. Requests' /\ Destroys'
    BY <1>3, <1>a DEF IInv, InReach, Requests, Destroys, StepEnds, Create
  <2>8. QED
    BY <2>2, <2>4, <2>6, <2>7 DEF IInv, InReach
<1>4. CASE /\ identity = NoIdentity /\ Visible = {}
           /\ identity' = InFlight /\ at' = "request"
           /\ UNCHANGED <<cmd, reply>>
  <2>1. Live = {}
    BY <1>4 DEF IInv, InReach, NoOrphan, NoIdentity
  <2>2. EngineInv'
    BY <1>4 DEF IInv, EngineInv, EngineTypeOK, AtAStep, Create
  <2>3. WorldTypeOK' /\ OneCommand'
    BY <1>4, <1>a, IdentitiesAre DEF IInv, WorldTypeOK, OneCommand, Create
  <2>4. InReach'
    BY <1>4, <1>a, <1>c, <2>1 DEF IInv, InReach, NoOrphan, AtMostOne, Requests, Destroys, Create
  <2>5. QED
    BY <2>2, <2>3, <2>4 DEF IInv
<1>5. QED
  BY <1>1, <1>2, <1>3, <1>4 DEF Create

(* The one request makes the one cluster, announced in the file.           *)
LEMMA RequestKeepsInv ==
  ASSUME IInv, Request
  PROVE  IInv'
<1>a. cmd.pc = "run" /\ des.at = "idle" /\ Live = {} /\ identity = InFlight
  BY DEF Request, IInv, OneCommand, InReach, Requests
<1>b. faults' \in 0..MaxFaults
  BY FaultTyped DEF Request, IInv, EngineInv, EngineTypeOK
<1>1. ASSUME NEW c \in Unknown, remote' = [remote EXCEPT ![c] = "hidden"],
             \/ at' = "accepted" /\ reply' = c /\ UNCHANGED cmd
             \/ StepEnds(FALSE)
      PROVE  IInv'
  <2>1. c \in Id /\ remote' \in [Id -> Fate] /\ Live' = {c}
    BY <1>a, <1>1 DEF Unknown, Live, Fate, IInv, WorldTypeOK
  <2>2. EngineInv' /\ (at' = "start" \/ cmd'.pc = "run")
    <3>1. CASE UNCHANGED cmd
      BY <3>1, <1>1, <1>a, <1>b DEF IInv, EngineInv, EngineTypeOK, AtAStep, Request
    <3>2. CASE StepEnds(FALSE)
      BY <3>2, <1>a, <1>b, StepEndsEngine DEF IInv, StepEnds, Request
    <3>3. QED
      BY <1>1, <3>1, <3>2
  <2>3. WorldTypeOK' /\ OneCommand'
    BY <1>1, <1>a, <2>1, <2>2 DEF IInv, WorldTypeOK, OneCommand, StepEnds, Request
  <2>4. InReach'
    BY <1>1, <1>a, <2>1 DEF IInv, InReach, NoOrphan, AtMostOne, Requests, Destroys, StepEnds,
                            Request, InFlight
  <2>5. QED
    BY <2>2, <2>3, <2>4 DEF IInv
<1>2. CASE StepEnds(FALSE) /\ UNCHANGED <<faults, remote>>
  BY <1>2, <1>a, <1>b, StepEndsKeepsReach DEF Request, IInv, WorldTypeOK
<1>3. QED
  BY <1>1, <1>2 DEF Request

(* The answer names the one cluster.                                       *)
LEMMA RecordAcceptedKeepsInv ==
  ASSUME IInv, RecordAccepted
  PROVE  IInv'
<1>a. cmd.pc = "run" /\ des.at = "idle" /\ Live \subseteq {reply}
  BY DEF RecordAccepted, IInv, OneCommand, InReach, Requests
<1>1. EngineInv' /\ cmd'.pc = "returned"
  <2>1. /\ EngineInv /\ StepEnds(TRUE) /\ UNCHANGED disk
        /\ faults' \in 0..MaxFaults
    BY DEF IInv, EngineInv, EngineTypeOK, RecordAccepted
  <2>2. QED
    BY <1>a, <2>1, StepEndsEngine
<1>2. Live' = Live
  BY DEF Live, RecordAccepted
<1>c. WorldTypeOK' /\ OneCommand'
  <2>1. identity' \in Identities
    BY IdentitiesAre DEF RecordAccepted, IInv, InReach, Requests
  <2>2. QED
    BY <1>a, <1>1, <2>1 DEF IInv, WorldTypeOK, OneCommand, StepEnds, RecordAccepted
<1>3. InReach'
  BY <1>a, <1>2 DEF IInv, InReach, NoOrphan, AtMostOne, Requests, Destroys, StepEnds,
                    RecordAccepted, Accepted
<1>4. QED
  BY <1>1, <1>c, <1>3 DEF IInv

(* What the command comes to see is what the file meant.                   *)
LEMMA ObserveKeepsInv ==
  ASSUME IInv, Observe
  PROVE  IInv'
<1>a. cmd.pc = "run" /\ at = "start" /\ des.at = "idle"
  BY DEF Observe, Running, IInv, OneCommand
<1>b. Live' = Live /\ Visible' = Visible
  BY DEF Observe, Live, Visible
<1>1. CASE /\ \E c \in Sighted : identity' = Accepted(c, TRUE)
           /\ at' = "ready" /\ UNCHANGED <<cmd, reply>>
  <2>1. PICK c \in Sighted : identity' = Accepted(c, TRUE)
    BY <1>1
  <2>2. NoOrphan' /\ AtMostOne'
    BY <2>1, SightedKeepsReach DEF IInv, Observe
  <2>3. identity' \in Identities
    BY <2>1, VisibleIsLive, IdentitiesAre DEF Live
  <2>4. EngineInv'
    BY <1>1 DEF IInv, EngineInv, EngineTypeOK, AtAStep, Observe
  <2>5. WorldTypeOK' /\ OneCommand'
    BY <1>1, <1>a, <2>3 DEF IInv, WorldTypeOK, OneCommand, Observe
  <2>6. Requests' /\ Destroys'
    BY <1>1, <1>a DEF Requests, Destroys, Observe
  <2>7. QED
    BY <2>2, <2>4, <2>5, <2>6 DEF IInv, InReach
<1>2. CASE at' = "ready" /\ UNCHANGED <<cmd, reply, identity>>
  <2>1. EngineInv'
    BY <1>2 DEF IInv, EngineInv, EngineTypeOK, AtAStep, Observe
  <2>2. WorldTypeOK' /\ OneCommand'
    BY <1>2, <1>a DEF IInv, WorldTypeOK, OneCommand, Observe
  <2>3. InReach'
    BY <1>2, <1>a, <1>b DEF IInv, InReach, NoOrphan, AtMostOne, Requests, Destroys, Observe
  <2>4. QED
    BY <2>1, <2>2, <2>3 DEF IInv
<1>3. CASE StepEnds(FALSE) /\ UNCHANGED identity
  BY <1>3, <1>a, StepEndsKeepsReach DEF Observe, IInv, EngineInv, EngineTypeOK, WorldTypeOK
<1>4. QED
  BY <1>1, <1>2, <1>3 DEF Observe

(* The other steps read the clusters and end.                              *)
LEMMA ReadingStepKeepsInv ==
  ASSUME IInv, WaitReady \/ ExportKubeconfig \/ StepFails
  PROVE  IInv'
<1>1. faults' \in 0..MaxFaults
  BY FaultTyped DEF WaitReady, ExportKubeconfig, StepFails, IInv, EngineInv, EngineTypeOK
<1>2. CASE WaitReady
  BY <1>1, <1>2, StepEndsKeepsReach DEF WaitReady, IInv, WorldTypeOK
<1>3. CASE ExportKubeconfig
  <2>1. cmd.pc = "run" /\ UNCHANGED <<disk, remote, identity, des>>
    BY <1>3 DEF ExportKubeconfig, Running
  <2>2. CASE identity.kind = "accepted" /\ remote[identity.id] = "ready"
    <3>1. identity.id \in Id
      BY <2>2, IdentityNames DEF IInv, WorldTypeOK
    <3>2. QED
      BY <1>1, <1>3, <2>1, <2>2, <3>1, StepEndsKeepsReach DEF ExportKubeconfig
  <2>3. CASE ~(identity.kind = "accepted" /\ remote[identity.id] = "ready")
    BY <1>1, <1>3, <2>1, <2>3, StepEndsKeepsReach DEF ExportKubeconfig, IInv, WorldTypeOK
  <2>4. QED
    BY <2>2, <2>3
<1>4. CASE StepFails
  BY <1>1, <1>4, StepEndsKeepsReach DEF StepFails, IInv, WorldTypeOK
<1>5. QED
  BY <1>2, <1>3, <1>4

-----------------------------------------------------------------------------
(* Destroy.                                                                *)

(* Destroy leaves the engine alone but for the state file.                 *)
LEMMA DestroyEngine ==
  ASSUME EngineInv, UNCHANGED cmd, faults' \in 0..MaxFaults, disk' \in [Place -> Files]
  PROVE  EngineInv'
BY DEF EngineInv, EngineTypeOK, AtAStep

(* Destroy picks what the file names, or what is listed.                   *)
LEMMA LookKeepsInv ==
  ASSUME IInv, Look
  PROVE  IInv'
<1>a. cmd.pc = "idle" /\ at = "start"
  BY DEF Look, IInv, OneCommand
<1>b. Live' = Live /\ Visible' = Visible
  BY DEF Look, Live, Visible
<1>c. EngineInv'
  BY DestroyEngine DEF Look, IInv, EngineInv, EngineTypeOK
<1>d. identity.observed => identity.kind = "accepted" /\ identity.id \in Id
  BY IdentityNames DEF IInv, WorldTypeOK
<1>f. at' = "start"
  BY <1>a DEF Look
<1>e. ~identity.observed /\ ~Unobserved => identity = NoIdentity
  BY IdentityNames DEF IInv, WorldTypeOK, Unobserved
<1>1. ASSUME NEW c \in Sighted, ~identity.observed,
             identity' = IF Unobserved THEN Accepted(c, TRUE) ELSE identity,
             des' = [at |-> "delete", id |-> c]
      PROVE  IInv'
  <2>1. c \in Id
    BY VisibleIsLive DEF Live
  <2>2. CASE Unobserved
    <3>1. identity' = Accepted(c, TRUE) /\ identity' \in Identities
      BY <1>1, <2>1, <2>2, IdentitiesAre
    <3>2. NoOrphan' /\ AtMostOne'
      BY <3>1, SightedKeepsReach DEF IInv, Look
    <3>3. Requests' /\ Destroys'
      <4>1. des'.at = "delete" /\ des'.id = c
        BY <1>1
      <4>2. identity'.kind = "accepted" /\ identity'.id = c
        BY <3>1 DEF Accepted
      <4>3. QED
        BY <1>f, <4>1, <4>2 DEF Requests, Destroys
    <3>4. WorldTypeOK' /\ OneCommand'
      BY <1>1, <1>a, <2>1, <3>1 DEF IInv, WorldTypeOK, OneCommand, Look
    <3>5. QED
      BY <1>c, <3>2, <3>3, <3>4 DEF IInv, InReach
  <2>3. CASE ~Unobserved
    <3>1. identity' = identity /\ identity = NoIdentity
      BY <1>1, <1>e, <2>3
    <3>2. NoOrphan' /\ AtMostOne'
      BY <1>b, <3>1 DEF IInv, InReach, NoOrphan, AtMostOne
    <3>5. identity'.kind = "none" /\ des'.at = "delete"
      <4>1. NoIdentity.kind = "none"
        BY DEF NoIdentity
      <4>2. QED
        BY <1>1, <3>1, <4>1
    <3>6. InReach'
      BY <1>f, <3>2, <3>5 DEF InReach, Requests, Destroys
    <3>3. WorldTypeOK' /\ OneCommand'
      BY <1>1, <1>a, <2>1, <3>1 DEF IInv, WorldTypeOK, OneCommand, Look
    <3>4. QED
      BY <1>c, <3>3, <3>6 DEF IInv
  <2>4. QED
    BY <2>2, <2>3
<1>2. CASE /\ identity.observed
           /\ des' = [at |-> "delete", id |-> identity.id]
           /\ UNCHANGED identity
  <2>1. InReach'
    BY <1>2, <1>a, <1>b, <1>d
       DEF IInv, InReach, NoOrphan, AtMostOne, Requests, Destroys, Look
  <2>2. WorldTypeOK' /\ OneCommand'
    BY <1>2, <1>a, <1>d DEF IInv, WorldTypeOK, OneCommand, Look
  <2>3. QED
    BY <1>c, <2>1, <2>2 DEF IInv
<1>3. CASE /\ ~identity.observed /\ Sighted = {}
           /\ des' = IF Unobserved \/ Visible # {} THEN NotDestroying
                     ELSE [NotDestroying EXCEPT !.at = "clear identity"]
           /\ UNCHANGED identity
  <2>1. WorldTypeOK' /\ OneCommand'
    BY <1>3, <1>a DEF IInv, WorldTypeOK, OneCommand, Look, NotDestroying
  <2>2. CASE Unobserved \/ Visible # {}
    BY <1>3, <2>2, <1>a, <1>b, <1>c, <2>1
       DEF IInv, InReach, NoOrphan, AtMostOne, Requests, Destroys, Look, NotDestroying
  <2>3. CASE ~Unobserved /\ Visible = {}
    <3>1. Live = {}
      <4>1. identity.kind = "none"
        BY <1>3, <1>e, <2>3, IdentityNames DEF IInv, WorldTypeOK
      <4>2. QED
        BY <2>3, <4>1 DEF IInv, InReach, NoOrphan
    <3>2. InReach'
      BY <1>3, <1>a, <1>b, <2>3, <3>1
         DEF IInv, InReach, NoOrphan, AtMostOne, Requests, Destroys, Look, NotDestroying
    <3>3. QED
      BY <1>c, <2>1, <3>2 DEF IInv
  <2>4. QED
    BY <2>2, <2>3
<1>4. QED
  BY <1>1, <1>2, <1>3 DEF Look

(* Asking for the deletion forgets nothing.                                *)
LEMMA DeleteKeepsInv ==
  ASSUME IInv, Delete
  PROVE  IInv'
<1>a. cmd.pc = "idle" /\ at = "start"
  BY DEF Delete, IInv, OneCommand
<1>b. EngineInv'
  BY DestroyEngine DEF Delete, IInv, EngineInv, EngineTypeOK
<1>1. /\ remote' \in [Id -> Fate]
      /\ Live' \subseteq Live /\ Live' \intersect Visible \subseteq Visible'
  <2>1. CASE des.id \in Visible
    BY <2>1, VisibleIsLive, RemoteMoves DEF Delete, IInv, Fate, Live
  <2>2. CASE des.id \notin Visible
    BY <2>2 DEF Delete, IInv, WorldTypeOK, Live, Visible
  <2>3. QED
    BY <2>1, <2>2
<1>2. des'.at = "wait" /\ des'.id = des.id
  BY DEF Delete, IInv, WorldTypeOK
<1>3. WorldTypeOK' /\ OneCommand'
  BY <1>1, <1>a DEF IInv, WorldTypeOK, OneCommand, Delete
<1>4. InReach'
  BY <1>1, <1>2, <1>a DEF IInv, InReach, NoOrphan, AtMostOne, Requests, Destroys, Delete
<1>5. QED
  BY <1>b, <1>3, <1>4 DEF IInv

(* What the file names is gone before the file is forgotten.               *)
LEMMA WaitDeletedKeepsInv ==
  ASSUME IInv, WaitDeleted
  PROVE  IInv'
<1>a. cmd.pc = "idle" /\ at = "start"
  BY DEF WaitDeleted, IInv, OneCommand
<1>b. EngineInv'
  BY DestroyEngine DEF WaitDeleted, IInv, EngineInv, EngineTypeOK
<1>c. Live' = Live /\ Visible' = Visible
  BY DEF WaitDeleted, Live, Visible
<1>t. des' \in [at : {"idle", "clear identity"}, id : Id \union {NoCluster}]
  <2>1. des.id \in Id \union {NoCluster} /\ des = [at |-> des.at, id |-> des.id]
    BY DEF IInv, WorldTypeOK
  <2>2. CASE des' = [des EXCEPT !.at = "clear identity"]
    BY <2>1, <2>2
  <2>3. CASE des' = NotDestroying
    BY <2>3 DEF NotDestroying
  <2>4. QED
    BY <2>2, <2>3 DEF WaitDeleted
<1>1. WorldTypeOK' /\ OneCommand'
  BY <1>a, <1>t DEF IInv, WorldTypeOK, OneCommand, WaitDeleted
<1>2. NoOrphan' /\ AtMostOne' /\ Requests'
  BY <1>a, <1>c DEF IInv, InReach, NoOrphan, AtMostOne, Requests, WaitDeleted
<1>3. CASE remote[des.id] = "gone" /\ des' = [des EXCEPT !.at = "clear identity"]
  <2>1. des.id \notin Live
    BY <1>3 DEF Live
  <2>2. Live \subseteq Visible
    BY <2>1 DEF WaitDeleted, IInv, InReach, NoOrphan, Destroys
  <2>3. des'.at = "clear identity"
    BY <1>3 DEF IInv, WorldTypeOK
  <2>4. Destroys'
    BY <2>2, <2>3, <1>c DEF Destroys
  <2>5. QED
    BY <1>b, <1>1, <1>2, <2>4 DEF IInv, InReach
<1>4. CASE des' = NotDestroying
  BY <1>b, <1>1, <1>2, <1>4 DEF IInv, InReach, Destroys, NotDestroying
<1>5. QED
  BY <1>3, <1>4 DEF WaitDeleted

(* By then every cluster that exists is listed.                            *)
LEMMA ClearKeepsInv ==
  ASSUME IInv, clearDestroyedMagnumState
  PROVE  IInv'
<1>a. cmd.pc = "idle" /\ at = "start"
  BY DEF clearDestroyedMagnumState, IInv, OneCommand
<1>b. EngineInv'
  <2>1. disk' \in [Place -> Files]
    BY DEF clearDestroyedMagnumState, IInv, EngineInv, EngineTypeOK, Files
  <2>2. QED
    BY <2>1, DestroyEngine DEF clearDestroyedMagnumState, IInv, EngineInv, EngineTypeOK
<1>c. Live' = Live /\ Visible' = Visible
  BY DEF clearDestroyedMagnumState, Live, Visible
<1>1. des' \in [at : {"idle", "clear state", "clear legacy"}, id : Id \union {NoCluster}]
  <2>1. des.id \in Id \union {NoCluster} /\ des = [at |-> des.at, id |-> des.id]
    BY DEF IInv, WorldTypeOK
  <2>2. CASE des' = [des EXCEPT !.at = "clear state"]
    BY <2>1, <2>2
  <2>3. CASE des' = [des EXCEPT !.at = "clear legacy"]
    BY <2>1, <2>3
  <2>4. CASE des' = NotDestroying
    BY <2>4 DEF NotDestroying
  <2>5. QED
    BY <2>2, <2>3, <2>4 DEF clearDestroyedMagnumState
<1>2. WorldTypeOK' /\ OneCommand'
  BY <1>1, <1>a, IdentitiesAre DEF IInv, WorldTypeOK, OneCommand, clearDestroyedMagnumState
<1>3. NoOrphan'
  <2>1. CASE des.at = "clear identity"
    BY <2>1, <1>c DEF IInv, InReach, NoOrphan, Destroys
  <2>2. CASE UNCHANGED identity
    BY <2>2, <1>c DEF IInv, InReach, NoOrphan
  <2>3. QED
    BY <2>1, <2>2 DEF clearDestroyedMagnumState
<1>4. AtMostOne' /\ Requests' /\ Destroys'
  BY <1>1, <1>a, <1>c DEF IInv, InReach, AtMostOne, Requests, Destroys,
                          clearDestroyedMagnumState
<1>5. QED
  BY <1>b, <1>2, <1>3, <1>4 DEF IInv, InReach

(* A destroy that begins or stops leaves everything as it is.              *)
LEMMA StartOrFailKeepsInv ==
  ASSUME IInv, StartDestroy \/ DestroyFails
  PROVE  IInv'
<1>1. cmd.pc = "idle" /\ at = "start" /\ UNCHANGED <<disk, cmd>>
  BY DEF StartDestroy, DestroyFails, IInv, OneCommand
<1>2. faults' \in 0..MaxFaults
  BY FaultTyped DEF StartDestroy, DestroyFails, IInv, EngineInv, EngineTypeOK
<1>3. EngineInv'
  BY <1>1, <1>2, DestroyEngine DEF IInv, EngineInv, EngineTypeOK
<1>4. des' \in [at : {"idle", "look"}, id : {NoCluster}]
  BY DEF StartDestroy, DestroyFails, NotDestroying
<1>5. Live' = Live /\ Visible' = Visible
  BY DEF StartDestroy, DestroyFails, Live, Visible
<1>6. WorldTypeOK' /\ OneCommand'
  BY <1>1, <1>4 DEF IInv, WorldTypeOK, OneCommand, StartDestroy, DestroyFails
<1>7. InReach'
  BY <1>1, <1>4, <1>5 DEF IInv, InReach, NoOrphan, AtMostOne, Requests, Destroys,
                          StartDestroy, DestroyFails
<1>8. QED
  BY <1>3, <1>6, <1>7 DEF IInv

-----------------------------------------------------------------------------
(* What happens to the command while the clusters are as they were.        *)
LEMMA CommandKeepsInv ==
  ASSUME IInv, EngineInv', cmd.pc # "run" \/ at' = "start",
         at' \in {at, "start"}, reply' \in {reply, NoCluster},
         reply' = reply \/ at' = "start", des.at = "idle",
         UNCHANGED <<remote, identity, kubeconfig, des>>
  PROVE  IInv'
<1>1. at' = "start"
  BY DEF IInv, OneCommand
<1>2. Live' = Live /\ Visible' = Visible
  BY DEF Live, Visible
<1>3. WorldTypeOK' /\ OneCommand'
  BY <1>1 DEF IInv, WorldTypeOK, OneCommand
<1>4. InReach'
  BY <1>1, <1>2 DEF IInv, InReach, NoOrphan, AtMostOne, Requests, Destroys
<1>5. QED
  BY <1>3, <1>4 DEF IInv

(* Every step of the system preserves the invariant.                       *)
LEMMA NextIInv == IInv /\ [Next]_vars => IInv'
<1> SUFFICES ASSUME IInv, [Next]_vars PROVE IInv'
  OBVIOUS
<1>a. EngineInv /\ EngineTypeOK /\ WorldTypeOK /\ OneCommand
  BY DEF IInv, EngineInv
<1>1. CASE DeployCommand
  <2>1. PICK restart \in BOOLEAN, pick \in {"all", "step"}, k \in 1..Len(Steps) :
          Deploy(restart, pick, k)
    BY <1>1 DEF DeployCommand
  <2>2. EngineInv' /\ cmd.pc # "run"
    BY <1>a, <2>1, DeployInv DEF Deploy
  <2>3. QED
    BY <1>1, <2>2, CommandKeepsInv DEF DeployCommand, World
<1>2. CASE StartDestroy \/ DestroyFails
  BY <1>2, StartOrFailKeepsInv
<1>3. CASE Engine /\ UNCHANGED World
  <2>1. EngineInv'
    BY <1>3, <1>a, EngineStepInv
  <2>2. cmd.pc \notin {"run", "idle"}
    BY <1>3 DEF Engine, ClearState, loadBootstrapStateWithFallback, SaveMigrated, Skip,
                MarkRunning, StepReturned, StepsDone, removeBootstrapState
  <2>3. QED
    BY <1>3, <1>a, <2>1, <2>2, CommandKeepsInv DEF World, OneCommand
<1>4. CASE waitForReady(Answers) /\ UNCHANGED World
  <2>1. EngineInv' /\ cmd.pc = "wait"
    BY <1>4, <1>a, WaitInv DEF waitForReady
  <2>2. QED
    BY <1>4, <1>a, <2>1, CommandKeepsInv DEF World, OneCommand
<1>5. CASE Step
  BY <1>5, CreateKeepsInv, RequestKeepsInv, RecordAcceptedKeepsInv, ObserveKeepsInv,
     ReadingStepKeepsInv DEF Step
<1>6. CASE DestroyGoesOn
  BY <1>6, LookKeepsInv, DeleteKeepsInv, WaitDeletedKeepsInv, ClearKeepsInv DEF DestroyGoesOn
<1>7. CASE StepFails
  BY <1>7, ReadingStepKeepsInv
<1>8. CASE Dies
  <2>1. EngineInv' /\ cmd.pc # "idle"
    BY <1>8, <1>a, CrashInv DEF Dies, Crash
  <2>2. QED
    BY <1>8, <1>a, <2>1, CommandKeepsInv DEF Dies, OneCommand
<1>9. CASE ServiceGoesOn \/ ServiceFails \/ DeletedElsewhere
  <2>1. faults' \in 0..MaxFaults
    BY <1>9, <1>a, FaultTyped DEF ServiceGoesOn, ServiceFails, DeletedElsewhere, EngineTypeOK
  <2>2. PICK c \in Live, f \in Fate \ {"none", "hidden"} : Becomes(c, f)
    BY <1>9 DEF ServiceGoesOn, ServiceFails, DeletedElsewhere, Fate, Live, Visible
  <2>3. QED
    BY <2>1, <2>2, ServiceKeepsInv DEF Live
<1>10. CASE UNCHANGED vars
  <2>1. Live' = Live /\ Visible' = Visible
    BY <1>10 DEF vars, Live, Visible
  <2>2. EngineInv' /\ WorldTypeOK' /\ OneCommand'
    BY <1>10, <1>a DEF vars, EngineInv, EngineTypeOK, AtAStep, WorldTypeOK, OneCommand
  <2>3. InReach'
    BY <1>10, <2>1 DEF vars, IInv, InReach, NoOrphan, AtMostOne, Requests, Destroys
  <2>4. QED
    BY <2>2, <2>3 DEF IInv
<1>11. QED
  BY <1>1, <1>2, <1>3, <1>4, <1>5, <1>6, <1>7, <1>8, <1>9, <1>10 DEF Next, Proceed

(* Type correctness, and one command at a time, for any steps and quota.   *)
THEOREM TypeCorrect == Spec => []TypeOK
<1>1. QED
  BY InitIInv, NextIInv, IInvTypes, PTL DEF Spec

(* No cluster is out of reach: whatever is lost, fails or dies, a cluster  *)
(* that exists is named or announced by the identity file or is listed.    *)
THEOREM ClustersStayInReach == Spec => []NoOrphan
<1>1. IInv => NoOrphan
  BY DEF IInv, InReach
<1>2. QED
  BY InitIInv, NextIInv, <1>1, PTL DEF Spec

(* There is never a second cluster, however many attempts are made.        *)
THEOREM NeverASecondCluster == Spec => []OneCluster
<1>1. IInv => OneCluster
  BY AtMostOneMember, LiveIsFinite DEF IInv, InReach, AtMostOne, OneCluster
<1>2. QED
  BY InitIInv, NextIInv, <1>1, PTL DEF Spec
===============================================================================
