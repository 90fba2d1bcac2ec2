---------------------------- MODULE DeploymentProofs ----------------------------
(***************************************************************************)
(* For any steps and any number of failures: what the state file records   *)
(* as done was done, whatever version wrote it.                            *)
(*                                                                         *)
(* A record is written by the step that returned and by the migration of a *)
(* version 1 file, so the invariant says of both where the record comes    *)
(* from: the step in progress acted on the world before it returned, and a *)
(* version 1 file proves the Kubespray effects it lets the migration add.  *)
(***************************************************************************)
EXTENDS Deployment, StepEngineProofs

(* The effects that exist, or did until destroy took them away.            *)
Effected == done \union lost

Supported(st, w) == \A s \in StepId : Succeeded(st, s) => s \in w

Proven(st, w) ==
  \A k \in 1..Len(Steps) :
    Steps[k] \in Lifecycle /\ LaterSuccess(st, k) => Steps[k] \in w

Vouched(f, w) ==
  f \in State => Supported(f, w) /\ (f.kind = "v1" => Proven(f, w))

Records ==
  /\ cmd.pc = "idle" => cmd = Idle
  /\ cmd.st.kind = "v2" /\ Supported(cmd.st, Effected)
  /\ \A p \in Place : Vouched(disk[p], Effected)
  /\ cmd.pc = "returned" /\ cmd.ok => Here \in Effected

IInv == TypeOK /\ AtAStep /\ Records

(* Records of nothing.                                                     *)
LEMMA BlankRecordsNothing ==
  ASSUME NEW w
  PROVE  /\ Idle.st = Blank /\ Idle.pc = "idle"
         /\ Blank.kind = "v2" /\ Supported(Blank, w)
BY DEF Idle, Blank, Supported, Succeeded

(* Neither an absent file nor a torn one records anything.                 *)
LEMMA NoFileIsVouched ==
  ASSUME NEW w
  PROVE  Vouched(Absent, w) /\ Vouched(Torn, w)
<1>1. Absent \notin State /\ Torn \notin State
  BY DEF Absent, Torn, State
<1>2. QED
  BY <1>1 DEF Vouched

(* A mark keeps the records true when it is no success or a real one.      *)
LEMMA MarkedSupported ==
  ASSUME NEW st \in State, NEW w, NEW s, NEW v \in Status,
         Supported(st, w), v = "success" => s \in w
  PROVE  Supported(Marked(st, s, v), w) /\ Marked(st, s, v).kind = st.kind
BY DEF State, Status, Supported, Marked, Succeeded

(* The migration adds only what the version 1 file proves.                 *)
LEMMA MigratedSupported ==
  ASSUME NEW st \in State, NEW w, Supported(st, w), Proven(st, w)
  PROVE  Supported(migrateBootstrapState(st), w) /\ migrateBootstrapState(st).kind = "v2"
<1>1. ASSUME NEW s \in StepId, Succeeded(migrateBootstrapState(st), s)
      PROVE  s \in w
  <2>1. CASE \E k \in 1..Len(Steps) : Steps[k] = s /\ Backfilled(st)[k]
    BY <2>1 DEF Backfilled, Proven
  <2>2. CASE ~ \E k \in 1..Len(Steps) : Steps[k] = s /\ Backfilled(st)[k]
    BY <1>1, <2>2 DEF migrateBootstrapState, Succeeded, Supported
  <2>3. QED
    BY <2>1, <2>2
<1>2. migrateBootstrapState(st).kind = "v2"
  BY DEF migrateBootstrapState
<1>3. QED
  BY <1>1, <1>2 DEF Supported

(* More effects take no record back.                                       *)
LEMMA MoreEffects ==
  ASSUME NEW w, NEW w2, w \subseteq w2
  PROVE  /\ \A st : Supported(st, w) => Supported(st, w2)
         /\ \A f : Vouched(f, w) => Vouched(f, w2)
<1>1. \A st : Supported(st, w) => Supported(st, w2)
  BY DEF Supported
<1>2. \A st : Proven(st, w) => Proven(st, w2)
  BY DEF Proven
<1>3. QED
  BY <1>1, <1>2 DEF Vouched

-----------------------------------------------------------------------------
(* The deployments that version 1 left: a completion step proves all the   *)
(* Kubespray effects, a later Kubespray step the ones before it.           *)
LEMMA LegacyVouched ==
  ASSUME NEW known \in {StepId, StepId \ Lifecycle}, NEW n \in 1..Len(Steps) + 1
  PROVE  /\ Legacy(known, n) \in State
         /\ Vouched(Legacy(known, n), Effects(Legacy(known, n)))
         /\ Effects(Legacy(known, n)) \subseteq StepId
<1> DEFINE st == Legacy(known, n)
<1>1. st \in State
  BY DEF Legacy, State, Status
<1>2. \A s \in StepId : Succeeded(st, s) => s \in known /\ s \in {Steps[j] : j \in 1..n - 1}
  BY DEF Legacy, Succeeded
<1>3. \A s \in known \intersect StepId : s \in {Steps[j] : j \in 1..n - 1} => Succeeded(st, s)
  <2>1. ASSUME NEW j \in 1..n - 1, n <= Len(Steps)
        PROVE  Steps[j] # Steps[n]
    BY <2>1, StepsAreSteps, StepsAreDistinct
  <2>2. QED
    BY <2>1 DEF Legacy, Succeeded
<1>4. Supported(st, Effects(st))
  BY DEF Supported, Effects
<1>5. Proven(st, Effects(st))
  <2> SUFFICES ASSUME NEW k \in 1..Len(Steps), Steps[k] \in Lifecycle,
                      NEW j \in k + 1..Len(Steps),
                      Steps[j] \in Lifecycle \union Completion, Succeeded(st, Steps[j])
               PROVE  Steps[k] \in Effects(st)
    BY DEF Proven, LaterSuccess
  <2>1. j \in 1..Len(Steps) /\ Steps[j] \in StepId /\ Steps[k] \in StepId
    BY StepsAreSteps
  <2>2. CASE Steps[j] \in Completion
    BY <2>1, <2>2 DEF Effects
  <2>3. CASE Steps[j] \in Lifecycle
    <3>1. known = StepId
      BY <1>2, <2>1, <2>3
    <3>2. PICK i \in 1..n - 1 : Steps[j] = Steps[i]
      BY <1>2, <2>1
    <3>3. j = i
      BY <2>1, <3>2, StepsAreDistinct
    <3>4. k \in 1..n - 1
      BY <3>3
    <3>5. Succeeded(st, Steps[k])
      BY <1>3, <2>1, <3>1, <3>4
    <3>6. QED
      BY <2>1, <3>5 DEF Effects
  <2>4. QED
    BY <2>2, <2>3
<1>6. Effects(st) \subseteq StepId
  BY StepKinds DEF Effects
<1>7. QED
  BY <1>1, <1>4, <1>5, <1>6 DEF Vouched

(* The invariant holds before any command of this version.                 *)
LEMMA InitIInv == Init => IInv
<1> SUFFICES ASSUME Init PROVE IInv
  OBVIOUS
<1>1. ASSUME NEW legacy \in Files, EngineInit(legacy), Vouched(legacy, Effected),
             done \subseteq StepId, contract \in BOOLEAN, lost = {}
      PROVE  IInv
  <2>1. EngineInv
    BY <1>1, EngineInitInv
  <2>2. \A p \in Place : Vouched(disk[p], Effected)
    BY <1>1, NoFileIsVouched DEF EngineInit
  <2>3. Records
    BY <1>1, <2>2, BlankRecordsNothing DEF EngineInit, Records
  <2>4. QED
    BY <1>1, <2>1, <2>3 DEF IInv, TypeOK, EngineInv
<1>2. CASE EngineInit(Absent) /\ done = {} /\ contract = FALSE
  BY <1>1, <1>2, NoFileIsVouched DEF Init, Files
<1>3. ASSUME NEW known \in {StepId, StepId \ Lifecycle}, NEW n \in 1..Len(Steps) + 1,
             EngineInit(Legacy(known, n)), done = Effects(Legacy(known, n)),
             contract = (known = StepId /\ Apply \in done)
      PROVE  IInv
  <2>1. lost = {} /\ Effected = done
    BY DEF Init, Effected
  <2>2. contract \in BOOLEAN
    BY <1>3
  <2>3. QED
    BY <1>1, <1>3, <2>1, <2>2, LegacyVouched DEF Files
<1>4. QED
  BY <1>2, <1>3 DEF Init

-----------------------------------------------------------------------------
(* The ways a command ends, and a save.                                    *)

(* A command that ends drops its copy.                                     *)
LEMMA EndsKeepsRecords ==
  ASSUME Records, cmd' = Idle, Effected \subseteq Effected',
         \A p \in Place : Vouched(disk'[p], Effected')
  PROVE  Records'
BY BlankRecordsNothing DEF Records

(* A save puts a true copy on disk.                                        *)
LEMMA SaveKeepsVouched ==
  ASSUME Records, EngineTypeOK, UNCHANGED World,
         NEW st \in State, st.kind = "v2", Supported(st, Effected), Saved(st)
  PROVE  \A p \in Place : Vouched(disk'[p], Effected')
<1>1. Effected' = Effected
  BY DEF World, Effected
<1>2. Vouched(st, Effected)
  BY DEF Vouched
<1>3. QED
  BY <1>1, <1>2 DEF Saved, Records, EngineTypeOK

(* A failed save puts nothing or a torn file there.                        *)
LEMMA SaveFailsKeepsRecords ==
  ASSUME Records, EngineTypeOK, UNCHANGED World, SaveFails
  PROVE  Records'
<1>1. Effected' = Effected
  BY DEF World, Effected
<1>2. \A p \in Place : Vouched(disk'[p], Effected')
  BY <1>1, NoFileIsVouched DEF SaveFails, Records, EngineTypeOK
<1>3. QED
  BY <1>1, <1>2, EndsKeepsRecords DEF SaveFails, Fails

(* The engine writes only records it has read or seen happen.              *)
LEMMA EngineKeepsRecords ==
  ASSUME EngineTypeOK, AtAStep, Records, Engine, UNCHANGED World
  PROVE  Records'
<1>a. Effected' = Effected
  BY DEF World, Effected
<1>b. cmd.st \in State /\ cmd.st.kind = "v2" /\ Supported(cmd.st, Effected)
  BY DEF EngineTypeOK, Command, Records
<1>c. ASSUME UNCHANGED disk
      PROVE  \A p \in Place : Vouched(disk'[p], Effected')
  BY <1>a, <1>c DEF Records
<1>d. ASSUME NEW p \in Place, disk' = [disk EXCEPT ![p] = Absent]
      PROVE  \A q \in Place : Vouched(disk'[q], Effected')
  BY <1>a, <1>d, NoFileIsVouched DEF Records, EngineTypeOK
<1>e. ASSUME cmd'.pc \notin {"idle", "returned"}, cmd'.st = cmd.st,
             \A p \in Place : Vouched(disk'[p], Effected')
      PROVE  Records'
  BY <1>a, <1>b, <1>e DEF Records
<1>1. CASE ClearState
  <2>1. \A p \in Place : Vouched(disk'[p], Effected')
    BY <1>1, <1>c, <1>d DEF ClearState, Place
  <2>2. CASE cmd' = Idle
    BY <2>1, <2>2, <1>a, EndsKeepsRecords
  <2>3. CASE GoTo("clear legacy") \/ GoTo("next")
    <3>1. cmd'.pc \notin {"idle", "returned"} /\ cmd'.st = cmd.st
      BY <2>3 DEF GoTo, EngineTypeOK, Command
    <3>2. QED
      BY <2>1, <3>1, <1>e
  <2>4. QED
    BY <1>1, <2>2, <2>3 DEF ClearState, Fails
<1>2. CASE loadBootstrapStateWithFallback
  <2> DEFINE found == IF disk["state"] # Absent THEN disk["state"] ELSE disk["legacy"]
  <2>1. found \in Files /\ Vouched(found, Effected)
    BY DEF Place, EngineTypeOK, Records
  <2>2. \A p \in Place : Vouched(disk'[p], Effected')
    BY <1>2, <1>c DEF loadBootstrapStateWithFallback
  <2>3. cmd' = CASE found = Torn -> Idle
                 [] found = Absent -> [cmd EXCEPT !.pc = "next"]
                 [] OTHER -> IF found.kind = "v1"
                             THEN [cmd EXCEPT !.pc = "migrate",
                                              !.st = migrateBootstrapState(found)]
                             ELSE [cmd EXCEPT !.pc = "next", !.st = found]
    BY <1>2 DEF loadBootstrapStateWithFallback
  <2> HIDE DEF found
  <2>4. CASE found = Torn
    BY <2>2, <2>3, <2>4, <1>a, EndsKeepsRecords DEF Torn, Absent
  <2>5. CASE found = Absent
    <3>1. cmd' = [cmd EXCEPT !.pc = "next"]
      BY <2>3, <2>5 DEF Torn, Absent
    <3>2. cmd'.pc = "next" /\ cmd'.st = cmd.st
      BY <3>1 DEF EngineTypeOK, Command
    <3>3. QED
      BY <3>2, <2>2, <1>e
  <2>6. CASE found \in State /\ found # Torn /\ found # Absent /\ found.kind = "v1"
    <3>1. cmd' = [cmd EXCEPT !.pc = "migrate", !.st = migrateBootstrapState(found)]
      BY <2>3, <2>6
    <3>2. cmd'.pc = "migrate" /\ cmd'.st = migrateBootstrapState(found)
      BY <3>1 DEF EngineTypeOK, Command
    <3>3. Supported(cmd'.st, Effected') /\ cmd'.st.kind = "v2"
      BY <3>2, <2>1, <2>6, <1>a, MigratedSupported DEF Vouched
    <3>4. QED
      BY <3>2, <3>3, <2>2 DEF Records
  <2>7. CASE found \in State /\ found # Torn /\ found # Absent /\ found.kind # "v1"
    <3>1. cmd' = [cmd EXCEPT !.pc = "next", !.st = found]
      BY <2>3, <2>7
    <3>2. cmd'.pc = "next" /\ cmd'.st = found
      BY <3>1 DEF EngineTypeOK, Command
    <3>3. Supported(cmd'.st, Effected') /\ cmd'.st.kind = "v2"
      BY <3>2, <2>1, <2>7, <1>a DEF Vouched, State
    <3>4. QED
      BY <3>2, <3>3, <2>2 DEF Records
  <2>8. QED
    BY <2>1, <2>4, <2>5, <2>6, <2>7 DEF Files
<1>3. CASE SaveMigrated
  <2>1. CASE Saved(cmd.st) /\ GoTo("next")
    <3>1. cmd'.pc = "next" /\ cmd'.st = cmd.st
      BY <2>1 DEF GoTo, EngineTypeOK, Command
    <3>2. \A p \in Place : Vouched(disk'[p], Effected')
      BY <2>1, <1>b, SaveKeepsVouched
    <3>3. QED
      BY <3>1, <3>2, <1>e
  <2>2. QED
    BY <1>3, <2>1, SaveFailsKeepsRecords DEF SaveMigrated
<1>4. CASE Skip
  <2>1. cmd'.pc = "next" /\ cmd'.st = cmd.st
    BY <1>4 DEF Skip, EngineTypeOK, Command
  <2>2. QED
    BY <1>4, <2>1, <1>c, <1>e DEF Skip
<1>5. CASE MarkRunning
  <2> DEFINE st == IF Handoff THEN cmd.st ELSE Marked(cmd.st, Here, "running")
  <2>1. st \in State /\ st.kind = "v2" /\ Supported(st, Effected)
    <3>1. CASE Handoff
      BY <3>1, <1>b
    <3>2. CASE ~Handoff
      <4>1. "running" \in Status
        BY DEF Status
      <4>2. Marked(cmd.st, Here, "running") \in State
        BY <1>b, <4>1, MarkedTyped
      <4>3. /\ Supported(Marked(cmd.st, Here, "running"), Effected)
            /\ Marked(cmd.st, Here, "running").kind = cmd.st.kind
        BY <1>b DEF State, Supported, Marked, Succeeded
      <4>4. QED
        BY <3>2, <4>2, <4>3, <1>b
    <3>3. QED
      BY <3>1, <3>2
  <2>2. CASE /\ IF Handoff THEN UNCHANGED disk ELSE Saved(st)
             /\ cmd' = [cmd EXCEPT !.pc = "run", !.st = st]
    <3> HIDE DEF st
    <3>1. cmd'.pc = "run" /\ cmd'.st = st
      BY <2>2 DEF EngineTypeOK, Command
    <3>2. \A p \in Place : Vouched(disk'[p], Effected')
      BY <2>1, <2>2, <1>c, SaveKeepsVouched
    <3>3. QED
      BY <3>1, <3>2, <2>1, <1>a DEF Records
  <2>3. QED
    BY <1>5, <2>2, SaveFailsKeepsRecords DEF MarkRunning
<1>6. CASE StepReturned
  <2>1. Outcome \in State
    BY OutcomeTyped DEF EngineTypeOK
  <2>2. Outcome.kind = "v2" /\ Supported(Outcome, Effected)
    <3>1. CASE Handoff
      BY <3>1, <1>b DEF Outcome, Supported, Succeeded, State
    <3>2. CASE ~Handoff /\ cmd.ok
      BY <3>2, <1>6, <1>b, MarkedSupported DEF Outcome, StepReturned, Records, Status
    <3>3. CASE ~Handoff /\ ~cmd.ok
      BY <3>3, <1>b, MarkedSupported DEF Outcome, Status
    <3>4. QED
      BY <3>1, <3>2, <3>3
  <2>3. CASE Saved(Outcome) /\ cmd' = [cmd EXCEPT !.pc = "next", !.st = Outcome, !.i = @ + 1]
    <3>1. cmd'.pc = "next" /\ cmd'.st = Outcome
      BY <2>3 DEF EngineTypeOK, Command
    <3>2. \A p \in Place : Vouched(disk'[p], Effected')
      BY <2>1, <2>2, <2>3, SaveKeepsVouched
    <3>3. QED
      BY <3>1, <3>2, <2>2, <1>a DEF Records
  <2>4. CASE Saved(Outcome) /\ cmd' = Idle
    BY <2>1, <2>2, <2>4, <1>a, SaveKeepsVouched, EndsKeepsRecords
  <2>5. QED
    BY <1>6, <2>3, <2>4, SaveFailsKeepsRecords DEF StepReturned
<1>7. CASE StepsDone
  <2>1. cmd'.pc = "wait" /\ cmd'.st = cmd.st
    BY <1>7 DEF StepsDone, GoTo, EngineTypeOK, Command
  <2>2. QED
    BY <1>7, <2>1, <1>c, <1>e DEF StepsDone
<1>8. CASE removeBootstrapState
  <2>1. \A p \in Place : Vouched(disk'[p], Effected')
    BY <1>8, <1>c, <1>d DEF removeBootstrapState, Place
  <2>2. CASE cmd' = Idle
    BY <2>1, <2>2, <1>a, EndsKeepsRecords
  <2>3. CASE GoTo("remove legacy")
    <3>1. cmd'.pc = "remove legacy" /\ cmd'.st = cmd.st
      BY <2>3 DEF GoTo, EngineTypeOK, Command
    <3>2. QED
      BY <2>1, <3>1, <1>e
  <2>4. QED
    BY <1>8, <2>2, <2>3 DEF removeBootstrapState
<1>9. QED
  BY <1>1, <1>2, <1>3, <1>4, <1>5, <1>6, <1>7, <1>8 DEF Engine

-----------------------------------------------------------------------------
(* A step acts on the world before it returns success, and takes nothing   *)
(* away from it.                                                           *)
LEMMA RunStepKeepsInv ==
  ASSUME IInv, RunStep
  PROVE  IInv'
<1>1. PICK ok \in BOOLEAN : Returns(ok) /\ (ok => done' = done \union {Here})
  BY DEF RunStep
<1>2. /\ Here \in StepId
      /\ done' \subseteq StepId /\ contract' \in BOOLEAN /\ lost' \subseteq StepId
      /\ Effected \subseteq Effected'
      /\ disk' \in [Place -> Files] /\ faults' \in 0..MaxFaults
  <2>1. Here \in StepId
    BY StepsAreSteps DEF IInv, AtAStep, RunStep, Here
  <2>2. faults' \in 0..MaxFaults
    BY FaultTyped DEF RunStep, IInv, TypeOK, EngineTypeOK
  <2>3. QED
    BY <2>1, <2>2 DEF RunStep, IInv, TypeOK, EngineTypeOK, Effected
<1>3. EngineInv'
  BY <1>1, <1>2, ReturnsInv DEF RunStep, IInv, TypeOK, EngineInv
<1>4. cmd'.pc = "returned" /\ cmd'.st = cmd.st /\ cmd'.ok = ok /\ cmd'.i = cmd.i
  BY <1>1 DEF Returns, IInv, TypeOK, EngineTypeOK, Command
<1>5. cmd'.ok => Here' \in Effected'
  BY <1>1, <1>4 DEF Here, Effected
<1>6. Records'
  BY <1>2, <1>4, <1>5, MoreEffects DEF RunStep, Records, IInv
<1>7. QED
  BY <1>2, <1>3, <1>6 DEF IInv, TypeOK, EngineInv

(* Destroy forgets what it took away only when no file records it.         *)
LEMMA DestroyKeepsInv ==
  ASSUME IInv, Destroy
  PROVE  IInv'
<1>1. cmd = Idle /\ UNCHANGED <<disk, cmd, faults>>
  BY DEF Destroy, IInv, Records
<1>2. TypeOK' /\ AtAStep'
  BY <1>1 DEF Destroy, IInv, TypeOK, EngineTypeOK, AtAStep
<1>r. cmd' = Idle /\ cmd'.pc = "idle" /\ cmd'.st.kind = "v2" /\ Supported(cmd'.st, Effected')
  BY <1>1, BlankRecordsNothing
<1>3. ASSUME \A p \in Place : disk[p] = Absent
      PROVE  Records'
  <2>1. \A p \in Place : Vouched(disk'[p], Effected')
    BY <1>1, <1>3, NoFileIsVouched
  <2>2. QED
    BY <1>r, <2>1 DEF Records
<1>4. ASSUME ~ \A p \in Place : disk[p] = Absent
      PROVE  Records'
  <2>1. Effected \subseteq Effected'
    BY <1>4 DEF Destroy, Effected
  <2>2. QED
    <3>1. \A p \in Place : Vouched(disk[p], Effected')
      BY <2>1, MoreEffects DEF IInv, Records
    <3>2. QED
      BY <1>1, <1>r, <3>1 DEF Records
<1>5. Records'
  BY <1>3, <1>4
<1>6. QED
  BY <1>2, <1>5 DEF IInv

(* Every step of the system preserves the invariant.                       *)
LEMMA NextIInv == IInv /\ [Next]_vars => IInv'
<1> SUFFICES ASSUME IInv, [Next]_vars PROVE IInv'
  OBVIOUS
<1>a. EngineInv /\ EngineTypeOK /\ AtAStep /\ Records
  BY DEF IInv, TypeOK, EngineInv
<1>b. ASSUME EngineInv', Records', UNCHANGED World
      PROVE  IInv'
  BY <1>b DEF World, IInv, TypeOK, EngineInv
<1>c. ASSUME UNCHANGED World
      PROVE  Effected' = Effected
  BY <1>c DEF World, Effected
<1>1. CASE DeployCommand
  <2>1. PICK restart \in BOOLEAN, pick \in {"all", "step", "from"}, k \in 1..Len(Steps) :
          Deploy(restart, pick, k)
    BY <1>1 DEF DeployCommand
  <2>2. EngineInv'
    BY <1>a, <2>1, DeployInv
  <2>3. cmd'.pc \in {"clear", "load"} /\ cmd'.st = Blank
    BY <2>1 DEF Deploy, Idle
  <2>4. Records'
    BY <1>a, <1>c, <1>1, <2>1, <2>3, BlankRecordsNothing DEF DeployCommand, Deploy, Records
  <2>5. QED
    BY <1>1, <1>b, <2>2, <2>4 DEF DeployCommand
<1>2. CASE Engine /\ UNCHANGED World
  BY <1>2, <1>a, <1>b, EngineStepInv, EngineKeepsRecords
<1>3. CASE RunStep
  BY <1>3, RunStepKeepsInv
<1>4. CASE waitForReady(Answers) /\ UNCHANGED World
  <2>1. EngineInv'
    BY <1>4, <1>a, WaitInv
  <2>2. \A p \in Place : Vouched(disk'[p], Effected')
    BY <1>4, <1>a, <1>c DEF waitForReady, Records
  <2>3. CASE GoTo("remove")
    <3>1. cmd'.pc = "remove" /\ cmd'.st = cmd.st
      BY <2>3, <1>a DEF GoTo, EngineTypeOK, Command
    <3>2. Supported(cmd'.st, Effected') /\ cmd'.st.kind = "v2"
      BY <1>4, <1>a, <1>c, <3>1 DEF Records
    <3>3. Records'
      BY <2>2, <3>1, <3>2 DEF Records
    <3>4. QED
      BY <1>4, <1>b, <2>1, <3>3
  <2>4. CASE cmd' = Idle
    <3>1. Effected' = Effected
      BY <1>4, <1>c
    <3>2. Records'
      BY <2>2, <2>4, <3>1, <1>a, EndsKeepsRecords
    <3>3. QED
      BY <1>4, <1>b, <2>1, <3>2
  <2>5. QED
    BY <1>4, <1>b, <2>1, <2>3, <2>4 DEF waitForReady, Fails
<1>5. CASE Destroy
  BY <1>5, DestroyKeepsInv
<1>6. CASE Crash /\ UNCHANGED World
  <2>1. Records'
    BY <1>6, <1>a, <1>c, EndsKeepsRecords DEF Crash, Fails, Records
  <2>2. QED
    BY <1>6, <1>a, <1>b, <2>1, CrashInv
<1>7. CASE UNCHANGED vars
  BY <1>7 DEF vars, IInv, TypeOK, EngineTypeOK, AtAStep, Records, Effected, Here
<1>8. QED
  BY <1>1, <1>2, <1>3, <1>4, <1>5, <1>6, <1>7 DEF Next, Proceed

(* Type correctness: for any steps, every state is of the declared types.  *)
THEOREM TypeCorrect == Spec => []TypeOK
<1>1. IInv => TypeOK
  BY DEF IInv
<1>2. QED
  BY <1>1, InitIInv, NextIInv, PTL DEF Spec

(* The invariant implies the property.                                     *)
LEMMA IInvImpliesRecorded == IInv => RecordedIsDone
<1> SUFFICES ASSUME IInv, NEW s \in StepId,
                    Succeeded(cmd.st, s) \/ \E p \in Place : Recorded(p, s)
             PROVE  s \in done \union lost
  BY DEF RecordedIsDone
<1>1. CASE Succeeded(cmd.st, s)
  BY <1>1 DEF IInv, Records, Supported, Effected
<1>2. ASSUME NEW p \in Place, Recorded(p, s)
      PROVE  s \in done \union lost
  <2>1. disk[p] \in State
    BY <1>2 DEF Recorded, IInv, TypeOK, EngineTypeOK, Files
  <2>2. QED
    BY <1>2, <2>1 DEF Recorded, IInv, Records, Vouched, Supported, Effected
<1>3. QED
  BY <1>1, <1>2

(* Resume never passes over a step that never happened: for any steps, in  *)
(* any order of failures, crashes, migrations, restarts and destroys, a    *)
(* step recorded as successful has its effect or had it until a destroy.   *)
THEOREM RecordedStepsHappened == Spec => []RecordedIsDone
<1>1. QED
  BY InitIInv, NextIInv, IInvImpliesRecorded, PTL DEF Spec

-----------------------------------------------------------------------------
(* The order of the steps.                                                 *)

(* A successful apply that will not be handed over left the outputs of     *)
(* version 2, or was destroyed, or belongs to a deployment of version 1    *)
(* whose Kubernetes is there and all of whose Kubespray steps are on       *)
(* record.                                                                 *)
Accounted(st, w, c, l) ==
  Apply \in StepId /\ Succeeded(st, Apply) /\ ~st.handoff =>
    \/ c \/ Apply \in l
    \/ Lifecycle \subseteq w /\ \A s \in Lifecycle : st.steps[s] # "none"

(* What loading makes of a file.                                           *)
Loaded(f) == IF f.kind = "v1" THEN migrateBootstrapState(f) ELSE f

FilesAccounted ==
  /\ \A p \in Place : disk[p] \in State => Accounted(Loaded(disk[p]), done, contract, lost)
  /\ disk["legacy"] \in State => disk["legacy"].kind = "v1"

CommandAccounted ==
  /\ Accounted(cmd.st, done, contract, lost)
  /\ cmd.pc = "returned" /\ cmd.ok /\ Here = Apply => contract
  /\ cmd.pc \in {"clear", "clear legacy"} => cmd.ignore

Passed == {Steps[j] : j \in 1..cmd.i - 1}

(* A command that resumes has passed over what is done, and works on the   *)
(* file it read.                                                           *)
Resuming ==
  /\ Passed \subseteq Effected
  /\ cmd.pc \in {"load", "migrate"} => cmd.i = 1
  /\ cmd.pc = "load" => cmd.st = Blank
  /\ cmd.pc \in {"next", "run", "returned"} => cmd.st \in {Blank, disk["state"]}
  /\ Apply \in Passed => contract \/ (Succeeded(cmd.st, Apply) /\ ~cmd.st.handoff)

Order == FilesAccounted /\ CommandAccounted /\ (~cmd.ignore => Resuming)

(* Apply is no Kubespray step.                                             *)
LEMMA ApplyStandsApart == Apply \notin Lifecycle
<1>1. SUFFICES ASSUME NEW k \in 1..Len(Steps), Apply = Steps[k], Apply \in Lifecycle
               PROVE  FALSE
  BY StepKinds DEF StepId
<1>2. PICK j \in 1..k - 1 : Steps[j] = Apply
  BY <1>1, LifecycleFollowsApply
<1>3. j \in 1..Len(Steps) /\ j # k
  BY <1>1, <1>2, StepsAreSteps
<1>4. QED
  BY <1>1, <1>2, <1>3, StepsAreDistinct

(* A blank state has no successful apply.                                  *)
LEMMA BlankAccounted ==
  ASSUME NEW w, NEW c, NEW l
  PROVE  Accounted(Blank, w, c, l)
BY DEF Accounted, Blank, Succeeded

(* A mark that is no success of apply keeps the account.                   *)
LEMMA MarkedAccounted ==
  ASSUME NEW st \in State, NEW s \in StepId, NEW v \in Status \ {"none"},
         NEW w, NEW c, NEW l, Accounted(st, w, c, l), s = Apply /\ v = "success" => c
  PROVE  Accounted(Marked(st, s, v), w, c, l)
<1>1. /\ Marked(st, s, v).handoff = st.handoff
      /\ \A t \in StepId : Marked(st, s, v).steps[t] = IF t = s THEN v ELSE st.steps[t]
  BY DEF Marked, State
<1>2. Lifecycle \subseteq StepId
  BY StepKinds
<1>3. QED
  BY <1>1, <1>2 DEF Accounted, Succeeded

(* What a step adds to the world keeps it.                                 *)
LEMMA MoreAccounted ==
  ASSUME NEW w, NEW c, NEW l, NEW w2, NEW c2, NEW l2,
         w \subseteq w2, c => c2, Apply \in l => c2 \/ Apply \in l2
  PROVE  \A st : Accounted(st, w, c, l) => Accounted(st, w2, c2, l2)
BY DEF Accounted

(* So does what destroy takes away beside a file.                          *)
LEMMA DestroyedAccounted ==
  ASSUME NEW st, NEW w, NEW l, NEW w2, NEW c2, Supported(st, w \union l)
  PROVE  Accounted(st, w2, c2, l \union (w \ NeverSkip))
BY LifecycleFollowsApply DEF Accounted, Supported

(* What loading makes of a vouched file is of version 2, and its records   *)
(* are true.                                                               *)
LEMMA LoadedIs ==
  ASSUME NEW f \in State, NEW w, Vouched(f, w)
  PROVE  Loaded(f) \in State /\ Loaded(f).kind = "v2" /\ Supported(Loaded(f), w)
<1>1. CASE f.kind = "v1"
  BY <1>1, MigratedTyped, MigratedSupported DEF Loaded, Vouched
<1>2. CASE f.kind # "v1"
  BY <1>2 DEF Loaded, Vouched, State
<1>3. QED
  BY <1>1, <1>2

(* Of what version 1 left, the migration hands over the apply that has no  *)
(* outputs of version 2, unless the Kubespray effects are proven.          *)
LEMMA LegacyAccounted ==
  ASSUME NEW known \in {StepId, StepId \ Lifecycle}, NEW n \in 1..Len(Steps) + 1, NEW l
  PROVE  LET st == Legacy(known, n)
             w  == Effects(st)
         IN  Accounted(migrateBootstrapState(st), w, known = StepId /\ Apply \in w, l)
<1> DEFINE st == Legacy(known, n)
           m  == migrateBootstrapState(st)
<1> SUFFICES ASSUME Apply \in StepId, Succeeded(m, Apply), ~m.handoff,
                    ~(known = StepId /\ Apply \in Effects(st))
             PROVE  /\ Lifecycle \subseteq Effects(st)
                    /\ \A s \in Lifecycle : m.steps[s] # "none"
  BY DEF Accounted
<1>1. Succeeded(st, Apply)
  BY ApplyStandsApart DEF migrateBootstrapState, Backfilled, Succeeded
<1>2. Apply \in Effects(st) /\ known = StepId \ Lifecycle
  BY <1>1 DEF Effects
<1>3. hasKubernetesCompletionEvidence(st)
  BY <1>1 DEF migrateBootstrapState
<1>4. \A s \in StepId : s \notin known => st.steps[s] = "none"
  BY DEF Legacy
<1>5. PICK j \in 1..Len(Steps) :
         Steps[j] \in Lifecycle \union Completion /\ Succeeded(st, Steps[j])
  BY <1>3, StepsAreSteps DEF hasKubernetesCompletionEvidence, LaterSuccess
<1>6. Steps[j] \in Completion
  BY <1>2, <1>4, <1>5, StepsAreSteps DEF Succeeded
<1>7. Lifecycle \subseteq Effects(st)
  BY <1>5, <1>6, StepsAreSteps DEF Effects
<1>8. ASSUME NEW k \in 1..Len(Steps), Steps[k] \in Lifecycle
      PROVE  m.steps[Steps[k]] # "none"
  <2>1. Steps[k] \in StepId /\ st.steps[Steps[k]] = "none"
    BY <1>2, <1>4, <1>8, StepsAreSteps
  <2>2. k < j
    BY <1>6, <1>8, LifecycleFollowsApply
  <2>3. LaterSuccess(st, k)
    BY <1>5, <2>2, StepsAreSteps DEF LaterSuccess
  <2>4. Backfilled(st)[k]
    BY <1>8, <2>1, <2>3 DEF Backfilled
  <2>5. m.steps[Steps[k]] = "success"
    BY <2>1, <2>4 DEF migrateBootstrapState
  <2>6. QED
    BY <2>5
<1>9. QED
  BY <1>7, <1>8, StepKinds DEF StepId

(* A command that ends leaves the order to the files.                      *)
LEMMA EndsKeepsOrder ==
  ASSUME cmd' = Idle, FilesAccounted'
  PROVE  Order'
<1>1. Passed' = {}
  BY DEF Passed, Idle
<1>2. CommandAccounted'
  BY BlankAccounted DEF CommandAccounted, Idle
<1>3. QED
  BY <1>1, <1>2, BlankRecordsNothing DEF Order, Resuming, Idle

(* A file that goes, or is torn, accounts for nothing.                     *)
LEMMA ClearedKeepsOrder ==
  ASSUME FilesAccounted, EngineTypeOK, UNCHANGED World, NEW p \in Place, NEW f \in {Absent, Torn},
         disk' = [disk EXCEPT ![p] = f]
  PROVE  FilesAccounted'
<1>1. f \notin State
  BY DEF Absent, Torn, State
<1>2. \A q \in Place : disk'[q] = IF q = p THEN f ELSE disk[q]
  BY DEF EngineTypeOK
<1>3. QED
  BY <1>1, <1>2 DEF FilesAccounted, World, Place

(* A save puts an accounted copy on disk.                                  *)
LEMMA SaveKeepsOrder ==
  ASSUME FilesAccounted, EngineTypeOK, UNCHANGED World,
         NEW st \in State, st.kind = "v2", Accounted(st, done, contract, lost), Saved(st)
  PROVE  FilesAccounted' /\ disk'["state"] = st
<1>1. \A q \in Place : disk'[q] = IF q = "state" THEN st ELSE disk[q]
  BY DEF Saved, EngineTypeOK
<1>2. Loaded(st) = st
  BY DEF Loaded
<1>3. QED
  BY <1>1, <1>2 DEF FilesAccounted, World, Place

(* A failed save ends the command.                                         *)
LEMMA SaveFailsKeepsOrder ==
  ASSUME FilesAccounted, EngineTypeOK, UNCHANGED World, SaveFails
  PROVE  Order'
<1>1. CASE UNCHANGED disk
  BY <1>1, EndsKeepsOrder DEF SaveFails, Fails, FilesAccounted, World
<1>2. CASE disk' = [disk EXCEPT !["state"] = Torn]
  BY <1>2, EndsKeepsOrder, ClearedKeepsOrder DEF SaveFails, Fails, Place
<1>3. QED
  BY <1>1, <1>2 DEF SaveFails

(* The files that version 1 left are accounted for.                        *)
LEMMA InitOrder == Init => Order
<1> SUFFICES ASSUME Init PROVE Order
  OBVIOUS
<1>1. ASSUME NEW legacy \in Files, EngineInit(legacy),
             legacy \in State => /\ legacy.kind = "v1"
                                 /\ Accounted(Loaded(legacy), done, contract, lost)
      PROVE  Order
  <2>1. /\ disk["legacy"] = legacy /\ disk["state"] = Absent /\ Absent \notin State
        /\ cmd = Idle
    BY <1>1 DEF EngineInit, Place, Absent, State
  <2>2. FilesAccounted
    BY <1>1, <2>1 DEF FilesAccounted, Place
  <2>3. CommandAccounted
    BY <2>1, BlankAccounted DEF CommandAccounted, Idle
  <2>4. Passed = {}
    BY <2>1 DEF Passed, Idle
  <2>5. QED
    BY <2>1, <2>2, <2>3, <2>4, BlankRecordsNothing DEF Order, Resuming, Idle
<1>2. CASE EngineInit(Absent)
  <2>1. Absent \notin State /\ Absent \in Files
    BY DEF Absent, State, Files
  <2>2. QED
    BY <1>1, <1>2, <2>1
<1>3. ASSUME NEW known \in {StepId, StepId \ Lifecycle}, NEW n \in 1..Len(Steps) + 1,
             EngineInit(Legacy(known, n)), done = Effects(Legacy(known, n)),
             contract = (known = StepId /\ Apply \in done)
      PROVE  Order
  <2>1. Legacy(known, n) \in State /\ Legacy(known, n).kind = "v1"
    BY LegacyVouched DEF Legacy
  <2>2. Accounted(migrateBootstrapState(Legacy(known, n)), done, contract, lost)
    BY <1>3, LegacyAccounted
  <2>3. QED
    BY <1>1, <1>3, <2>1, <2>2 DEF Files, Loaded
<1>4. QED
  BY <1>2, <1>3 DEF Init

(* Passing over a step.                                                    *)
LEMMA PassedGrows ==
  ASSUME cmd.i \in Nat \ {0}, cmd'.i = cmd.i + 1
  PROVE  Passed' = Passed \union {Here}
<1>1. 1..cmd'.i - 1 = (1..cmd.i - 1) \union {cmd.i}
  BY DEF Passed
<1>2. QED
  BY <1>1 DEF Passed, Here

(* The step that runs is not one that was passed over.                     *)
LEMMA HereIsNew ==
  ASSUME cmd.i \in 1..Len(Steps)
  PROVE  Here \in StepId /\ Here \notin Passed
<1>1. ASSUME NEW j \in 1..cmd.i - 1
      PROVE  Steps[j] # Here
  BY StepsAreSteps, StepsAreDistinct DEF Here
<1>2. QED
  BY <1>1, StepsAreSteps DEF Here, Passed

(* Reading the file: the copy is the file's, or its migration.             *)
LEMMA LoadKeepsOrder ==
  ASSUME IInv, Order, loadBootstrapStateWithFallback, UNCHANGED World
  PROVE  Order'
<1> DEFINE found == IF disk["state"] # Absent THEN disk["state"] ELSE disk["legacy"]
<1>1. /\ found \in Files /\ cmd \in Command /\ cmd.pc = "load"
      /\ found \in State => Accounted(Loaded(found), done, contract, lost)
      /\ found \in State /\ found.kind # "v1" => found = disk["state"]
  BY DEF loadBootstrapStateWithFallback, IInv, TypeOK, EngineTypeOK, Place, Order, FilesAccounted
<1>2. /\ UNCHANGED disk /\ FilesAccounted'
      /\ done' = done /\ contract' = contract /\ lost' = lost /\ Effected' = Effected
  BY DEF loadBootstrapStateWithFallback, World, Order, FilesAccounted, Effected
<1>3. cmd' = CASE found = Torn -> Idle
               [] found = Absent -> [cmd EXCEPT !.pc = "next"]
               [] OTHER -> IF found.kind = "v1"
                           THEN [cmd EXCEPT !.pc = "migrate",
                                            !.st = migrateBootstrapState(found)]
                           ELSE [cmd EXCEPT !.pc = "next", !.st = found]
  BY DEF loadBootstrapStateWithFallback
<1> HIDE DEF found
<1>4. CASE found = Torn
  BY <1>2, <1>3, <1>4, EndsKeepsOrder DEF Torn, Absent
<1>5. ASSUME cmd'.i = cmd.i, cmd'.ignore = cmd.ignore,
             \/ cmd'.pc = "migrate"
             \/ cmd'.pc = "next" /\ (cmd'.st = cmd.st \/ cmd'.st = disk["state"]),
             Accounted(cmd'.st, done, contract, lost)
      PROVE  Order'
  <2>1. CommandAccounted'
    BY <1>2, <1>5 DEF CommandAccounted
  <2>2. ~cmd.ignore => cmd.i = 1 /\ cmd.st = Blank
    BY <1>1 DEF Order, Resuming
  <2>3. ~cmd.ignore => Passed' = {}
    BY <1>5, <2>2 DEF Passed
  <2>4. ~cmd'.ignore => Resuming'
    BY <1>2, <1>5, <2>2, <2>3 DEF Resuming
  <2>5. QED
    BY <1>2, <2>1, <2>4 DEF Order
<1>6. CASE found = Absent
  <2>1. cmd' = [cmd EXCEPT !.pc = "next"]
    BY <1>3, <1>6 DEF Torn, Absent
  <2>2. cmd'.pc = "next" /\ cmd'.st = cmd.st /\ cmd'.i = cmd.i /\ cmd'.ignore = cmd.ignore
    BY <1>1, <2>1 DEF Command
  <2>3. QED
    BY <1>5, <2>2 DEF Order, CommandAccounted
<1>7. CASE found \in State /\ found # Torn /\ found # Absent /\ found.kind = "v1"
  <2>1. cmd' = [cmd EXCEPT !.pc = "migrate", !.st = migrateBootstrapState(found)]
    BY <1>3, <1>7
  <2>2. /\ cmd'.pc = "migrate" /\ cmd'.st = migrateBootstrapState(found)
        /\ cmd'.i = cmd.i /\ cmd'.ignore = cmd.ignore
    BY <1>1, <2>1 DEF Command
  <2>3. QED
    BY <1>1, <1>5, <1>7, <2>2 DEF Loaded
<1>8. CASE found \in State /\ found # Torn /\ found # Absent /\ found.kind # "v1"
  <2>1. cmd' = [cmd EXCEPT !.pc = "next", !.st = found]
    BY <1>3, <1>8
  <2>2. cmd'.pc = "next" /\ cmd'.st = found /\ cmd'.i = cmd.i /\ cmd'.ignore = cmd.ignore
    BY <1>1, <2>1 DEF Command
  <2>3. QED
    BY <1>1, <1>5, <1>8, <2>2 DEF Loaded
<1>9. QED
  BY <1>1, <1>4, <1>6, <1>7, <1>8 DEF Files

(* Starting a step changes no other record.                                *)
LEMMA MarkKeepsOrder ==
  ASSUME IInv, Order, MarkRunning, UNCHANGED World
  PROVE  Order'
<1> DEFINE st == IF Handoff THEN cmd.st ELSE Marked(cmd.st, Here, "running")
<1>1. /\ EngineTypeOK /\ cmd \in Command /\ cmd.st \in State /\ cmd.st.kind = "v2"
      /\ cmd.i \in 1..Len(Steps) /\ cmd.pc = "next"
  BY StepsAreSteps DEF MarkRunning, IInv, TypeOK, EngineTypeOK, Command, Records
<1>2. /\ done' = done /\ contract' = contract /\ lost' = lost /\ Effected' = Effected
      /\ Here \in StepId /\ Here \notin Passed
  BY <1>1, HereIsNew DEF World, Effected
<1>3. /\ st \in State /\ st.kind = "v2" /\ Accounted(st, done, contract, lost)
  <2>1. CASE Handoff
    BY <1>1, <2>1 DEF Order, CommandAccounted
  <2>2. CASE ~Handoff
    <3>1. "running" \in Status \ {"none"}
      BY DEF Status
    <3>2. Marked(cmd.st, Here, "running") \in State
      BY <1>1, <3>1, MarkedTyped
    <3>3. Accounted(Marked(cmd.st, Here, "running"), done, contract, lost)
      BY <1>1, <1>2, <3>1, MarkedAccounted DEF Order, CommandAccounted
    <3>4. Marked(cmd.st, Here, "running").kind = cmd.st.kind
      BY <1>1 DEF Marked, State
    <3>5. QED
      BY <1>1, <2>2, <3>2, <3>3, <3>4
  <2>3. QED
    BY <2>1, <2>2
<1>4. Apply \in Passed /\ Succeeded(cmd.st, Apply) /\ ~cmd.st.handoff
        => Succeeded(st, Apply) /\ ~st.handoff
  BY <1>1, <1>2 DEF Marked, State, Succeeded
<1>5. CASE /\ IF Handoff THEN UNCHANGED disk ELSE Saved(st)
           /\ cmd' = [cmd EXCEPT !.pc = "run", !.st = st]
  <2>1. Handoff => st = cmd.st
    OBVIOUS
  <2> HIDE DEF st
  <2>2. cmd'.pc = "run" /\ cmd'.st = st /\ cmd'.i = cmd.i /\ cmd'.ignore = cmd.ignore
    BY <1>1, <1>5 DEF Command
  <2>3. FilesAccounted' /\ (~Handoff => disk'["state"] = st) /\ (Handoff => disk' = disk)
    BY <1>1, <1>2, <1>3, <1>5, SaveKeepsOrder DEF Order, FilesAccounted
  <2>4. CommandAccounted'
    BY <1>2, <1>3, <2>2 DEF CommandAccounted
  <2>5. Passed' = Passed
    BY <2>2 DEF Passed
  <2>6. ~cmd'.ignore => Resuming'
    BY <1>1, <1>2, <1>4, <2>1, <2>2, <2>3, <2>5 DEF Order, Resuming
  <2>7. QED
    BY <2>3, <2>4, <2>6 DEF Order
<1>6. QED
  BY <1>1, <1>5, SaveFailsKeepsOrder DEF MarkRunning, Order

(* A step that returned success is done, and an apply has its outputs.     *)
LEMMA ReturnKeepsOrder ==
  ASSUME IInv, Order, StepReturned, UNCHANGED World
  PROVE  Order'
<1>1. /\ EngineTypeOK /\ cmd \in Command /\ cmd.st \in State /\ cmd.st.kind = "v2"
      /\ cmd.i \in 1..Len(Steps) /\ cmd.pc = "returned" /\ cmd.ok \in BOOLEAN
  BY DEF StepReturned, IInv, TypeOK, EngineTypeOK, AtAStep, Command, Records
<1>2. /\ done' = done /\ contract' = contract /\ lost' = lost /\ Effected' = Effected
      /\ Here \in StepId /\ Here \notin Passed
  BY <1>1, HereIsNew DEF World, Effected
<1>3. cmd.ok => Here \in Effected /\ (Here = Apply => contract)
  BY <1>1 DEF IInv, Records, Order, CommandAccounted
<1>4. Outcome \in State /\ Outcome.kind = "v2"
  <2>1. Outcome.kind = cmd.st.kind
    BY <1>1 DEF Outcome, Marked, State
  <2>2. QED
    BY <1>1, <2>1, OutcomeTyped
<1>5. Accounted(Outcome, done, contract, lost)
  <2>1. CASE Handoff
    <3>1. Here = Apply /\ Outcome.handoff = ~cmd.ok
      BY <1>1, <2>1 DEF Outcome, Handoff, State
    <3>2. QED
      BY <1>3, <3>1 DEF Accounted
  <2>2. CASE ~Handoff
    <3>1. PICK v \in Status \ {"none"} :
            Outcome = Marked(cmd.st, Here, v) /\ (v = "success" => cmd.ok)
      <4>1. "success" \in Status \ {"none"} /\ "failed" \in Status \ {"none"}
        BY DEF Status
      <4>2. cmd.ok => Outcome = Marked(cmd.st, Here, "success")
        BY <2>2 DEF Outcome
      <4>3. ~cmd.ok => Outcome = Marked(cmd.st, Here, "failed")
        BY <2>2 DEF Outcome
      <4>4. QED
        BY <4>1, <4>2, <4>3
    <3>2. QED
      BY <1>1, <1>2, <1>3, <3>1, MarkedAccounted DEF Order, CommandAccounted
  <2>3. QED
    BY <2>1, <2>2
<1>6. Here # Apply /\ Succeeded(cmd.st, Apply) /\ ~cmd.st.handoff /\ Apply \in StepId
        => Succeeded(Outcome, Apply) /\ ~Outcome.handoff
  BY <1>1 DEF Outcome, Handoff, Marked, State, Succeeded
<1>7. CASE Saved(Outcome) /\ cmd.ok
           /\ cmd' = [cmd EXCEPT !.pc = "next", !.st = Outcome, !.i = @ + 1]
  <2>1. /\ cmd'.pc = "next" /\ cmd'.st = Outcome /\ cmd'.i = cmd.i + 1
        /\ cmd'.ignore = cmd.ignore
    BY <1>1, <1>7 DEF Command
  <2>2. FilesAccounted' /\ disk'["state"] = Outcome
    BY <1>1, <1>4, <1>5, <1>7, SaveKeepsOrder DEF Order
  <2>3. CommandAccounted'
    BY <1>2, <1>5, <2>1 DEF CommandAccounted
  <2>4. Passed' = Passed \union {Here}
    BY <1>1, <2>1, PassedGrows, StepsAreSteps
  <2>5. ASSUME ~cmd.ignore, Apply \in Passed'
        PROVE  contract \/ (Succeeded(Outcome, Apply) /\ ~Outcome.handoff)
    <3>1. CASE Here = Apply
      BY <1>3, <1>7, <3>1
    <3>2. CASE Here # Apply
      <4>1. Apply \in Passed
        BY <2>4, <2>5, <3>2
      <4>2. Apply \in StepId
        BY <1>1, <4>1, StepsAreSteps DEF Passed
      <4>3. QED
        BY <1>6, <2>5, <3>2, <4>1, <4>2 DEF Order, Resuming
    <3>3. QED
      BY <3>1, <3>2
  <2>6. ~cmd'.ignore => Resuming'
    BY <1>2, <1>3, <1>7, <2>1, <2>2, <2>4, <2>5 DEF Order, Resuming
  <2>7. QED
    BY <2>2, <2>3, <2>6 DEF Order
<1>8. CASE Saved(Outcome) /\ cmd' = Idle
  BY <1>1, <1>4, <1>5, <1>8, SaveKeepsOrder, EndsKeepsOrder DEF Order
<1>9. CASE SaveFails
  BY <1>1, <1>9, SaveFailsKeepsOrder DEF Order
<1>10. QED
  BY <1>7, <1>8, <1>9 DEF StepReturned

(* The engine keeps the order.                                             *)
LEMMA EngineKeepsOrder ==
  ASSUME IInv, Order, Engine, UNCHANGED World
  PROVE  Order'
<1>1. /\ EngineTypeOK /\ cmd \in Command /\ cmd.st \in State /\ cmd.st.kind = "v2"
      /\ done' = done /\ contract' = contract /\ lost' = lost /\ Effected' = Effected
      /\ cmd.i \in Nat \ {0} /\ cmd.hi \in 0..Len(Steps)
  BY DEF IInv, TypeOK, EngineTypeOK, Command, Records, World, Effected
<1>2. UNCHANGED disk => FilesAccounted'
  BY <1>1 DEF Order, FilesAccounted
<1>3. ASSUME FilesAccounted', cmd'.st = cmd.st, cmd'.i = cmd.i, cmd'.ignore = cmd.ignore,
             cmd'.pc \in {"clear", "clear legacy", "wait", "remove legacy", "next"},
             cmd'.pc = "next" => cmd.ignore, cmd'.pc = "clear legacy" => cmd.ignore,
             cmd'.pc # "clear"
      PROVE  Order'
  <2>1. CommandAccounted'
    BY <1>1, <1>3 DEF Order, CommandAccounted
  <2>2. Passed' = Passed
    BY <1>3 DEF Passed
  <2>3. ~cmd'.ignore => Resuming'
    BY <1>1, <1>3, <2>2 DEF Order, Resuming
  <2>4. QED
    BY <1>3, <2>1, <2>3 DEF Order
<1>4. CASE ClearState
  <2>1. FilesAccounted'
    BY <1>1, <1>2, <1>4, ClearedKeepsOrder DEF ClearState, Order, Place
  <2>2. CASE cmd' = Idle
    BY <2>1, <2>2, EndsKeepsOrder
  <2>3. CASE GoTo("clear legacy") \/ GoTo("next")
    <3>1. /\ cmd'.pc \in {"clear legacy", "next"} /\ cmd'.st = cmd.st /\ cmd'.i = cmd.i
          /\ cmd'.ignore = cmd.ignore
      BY <1>1, <2>3 DEF GoTo, Command
    <3>2. cmd.ignore
      BY <1>4 DEF ClearState, Order, CommandAccounted
    <3>3. QED
      BY <1>3, <2>1, <3>1, <3>2
  <2>4. QED
    BY <1>4, <2>2, <2>3 DEF ClearState, Fails
<1>5. CASE SaveMigrated
  <2>1. CASE Saved(cmd.st) /\ GoTo("next")
    <3>1. /\ cmd'.pc = "next" /\ cmd'.st = cmd.st /\ cmd'.i = cmd.i /\ cmd'.ignore = cmd.ignore
      BY <1>1, <2>1 DEF GoTo, Command
    <3>2. FilesAccounted' /\ disk'["state"] = cmd.st
      BY <1>1, <2>1, SaveKeepsOrder DEF Order, CommandAccounted
    <3>3. CommandAccounted'
      BY <1>1, <3>1 DEF Order, CommandAccounted
    <3>4. Passed' = Passed
      BY <3>1 DEF Passed
    <3>5. ~cmd'.ignore => Resuming'
      BY <1>1, <3>1, <3>2, <3>4 DEF Order, Resuming
    <3>6. QED
      BY <3>2, <3>3, <3>5 DEF Order
  <2>2. QED
    BY <1>1, <1>5, <2>1, SaveFailsKeepsOrder DEF SaveMigrated, Order
<1>6. CASE Skip
  <2>1. /\ cmd'.pc = "next" /\ cmd'.st = cmd.st /\ cmd'.i = cmd.i + 1 /\ cmd'.ignore = cmd.ignore
        /\ ~cmd.ignore /\ Succeeded(cmd.st, Here) /\ ~Handoff /\ UNCHANGED disk /\ cmd.pc = "next"
    BY <1>1, <1>6 DEF Skip, Skippable, Command
  <2>2. CommandAccounted'
    BY <1>1, <2>1 DEF Order, CommandAccounted
  <2>3. Passed' = Passed \union {Here}
    BY <1>1, <2>1, PassedGrows
  <2>4. cmd.i \in 1..Len(Steps)
    BY <1>1, <1>6, StepsAreSteps DEF Skip
  <2>5. Here \in Effected
    BY <2>1, <2>4, HereIsNew DEF IInv, Records, Supported
  <2>6. ~cmd'.ignore => Resuming'
    BY <1>1, <2>1, <2>3, <2>5 DEF Order, Resuming, Handoff
  <2>7. QED
    BY <1>2, <2>1, <2>2, <2>6 DEF Order
<1>7. CASE StepsDone
  <2>1. /\ cmd'.pc = "wait" /\ cmd'.st = cmd.st /\ cmd'.i = cmd.i /\ cmd'.ignore = cmd.ignore
        /\ UNCHANGED disk
    BY <1>1, <1>7 DEF StepsDone, GoTo, Command
  <2>2. QED
    BY <1>2, <1>3, <2>1
<1>8. CASE removeBootstrapState
  <2>1. FilesAccounted'
    BY <1>1, <1>2, <1>8, ClearedKeepsOrder DEF removeBootstrapState, Order, Place
  <2>2. CASE cmd' = Idle
    BY <2>1, <2>2, EndsKeepsOrder
  <2>3. CASE GoTo("remove legacy")
    <3>1. /\ cmd'.pc = "remove legacy" /\ cmd'.st = cmd.st /\ cmd'.i = cmd.i
          /\ cmd'.ignore = cmd.ignore
      BY <1>1, <2>3 DEF GoTo, Command
    <3>2. QED
      BY <1>3, <2>1, <3>1
  <2>4. QED
    BY <1>8, <2>2, <2>3 DEF removeBootstrapState
<1>9. QED
  BY <1>4, <1>5, <1>6, <1>7, <1>8, LoadKeepsOrder, MarkKeepsOrder, ReturnKeepsOrder DEF Engine

(* A step that acts on the world: apply leaves the outputs of version 2.   *)
LEMMA RunStepKeepsOrder ==
  ASSUME IInv, Order, RunStep
  PROVE  Order'
<1>1. PICK ok \in BOOLEAN :
        /\ Returns(ok) /\ done \subseteq done' /\ (contract => contract')
        /\ ok /\ Here = Apply => contract'
        /\ Apply \in lost => contract' \/ Apply \in lost'
        /\ Effected \subseteq Effected'
  <2>1. contract \in BOOLEAN
    BY DEF IInv, TypeOK
  <2>2. CASE Able(Here) /\ Returns(TRUE) /\ done' = done \union {Here}
             /\ contract' = (contract \/ Here = Apply) /\ lost' = lost \ {Here}
    BY <2>1, <2>2 DEF Effected
  <2>3. CASE Returns(FALSE) /\ UNCHANGED <<done, contract, lost>>
    BY <2>1, <2>3 DEF Effected
  <2>4. QED
    BY <2>2, <2>3 DEF RunStep
<1>2. /\ cmd'.pc = "returned" /\ cmd'.st = cmd.st /\ cmd'.ok = ok /\ cmd'.i = cmd.i
      /\ cmd'.ignore = cmd.ignore /\ cmd.pc = "run" /\ disk' = disk
  <2>1. cmd \in Command
    BY DEF IInv, TypeOK, EngineTypeOK
  <2>2. cmd' = [[cmd EXCEPT !.pc = "returned"] EXCEPT !.ok = ok]
    BY <1>1 DEF Returns
  <2>3. cmd.pc = "run" /\ disk' = disk
    BY DEF RunStep
  <2>4. QED
    BY <2>1, <2>2, <2>3 DEF Command
<1>3. \A st : Accounted(st, done, contract, lost) => Accounted(st, done', contract', lost')
  BY <1>1 DEF Accounted
<1>4. FilesAccounted'
  BY <1>2, <1>3 DEF Order, FilesAccounted
<1>5. CommandAccounted'
  BY <1>1, <1>2, <1>3 DEF Order, CommandAccounted, Here
<1>6. ASSUME ~cmd'.ignore
      PROVE  Resuming'
  <2>1. Resuming
    BY <1>2, <1>6 DEF Order
  <2>2. Passed' = Passed
    BY <1>2 DEF Passed
  <2>3. Passed' \subseteq Effected'
    BY <1>1, <2>1, <2>2 DEF Resuming
  <2>4. cmd'.st \in {Blank, disk'["state"]}
    BY <1>2, <2>1 DEF Resuming
  <2>5. Apply \in Passed' => contract' \/ (Succeeded(cmd'.st, Apply) /\ ~cmd'.st.handoff)
    BY <1>1, <1>2, <2>1, <2>2 DEF Resuming
  <2>6. QED
    BY <1>2, <2>3, <2>4, <2>5 DEF Resuming
<1>7. QED
  BY <1>4, <1>5, <1>6 DEF Order

(* Destroy takes away what the files account for, and says so.             *)
LEMMA DestroyKeepsOrder ==
  ASSUME IInv, Order, Destroy
  PROVE  Order'
<1>1. cmd' = Idle /\ disk' = disk
  BY DEF Destroy, IInv, Records
<1>2. CASE \A p \in Place : disk[p] = Absent
  <2>1. Absent \notin State
    BY DEF Absent, State
  <2>2. QED
    BY <1>1, <1>2, <2>1, EndsKeepsOrder DEF FilesAccounted, Place
<1>3. CASE ~ \A p \in Place : disk[p] = Absent
  <2>1. lost' = lost \union (done \ NeverSkip)
    BY <1>3 DEF Destroy
  <2>2. ASSUME NEW p \in Place, disk[p] \in State
        PROVE  Accounted(Loaded(disk[p]), done', contract', lost')
    <3>1. Supported(Loaded(disk[p]), done \union lost)
      BY <2>2, LoadedIs DEF IInv, Records, Effected
    <3>2. QED
      BY <2>1, <3>1, DestroyedAccounted
  <2>3. FilesAccounted'
    BY <1>1, <2>2 DEF Order, FilesAccounted
  <2>4. QED
    BY <1>1, <2>3, EndsKeepsOrder
<1>4. QED
  BY <1>2, <1>3

(* Every step of the system keeps the order.                               *)
LEMMA NextOrder == IInv /\ Order /\ [Next]_vars => Order'
<1> SUFFICES ASSUME IInv, Order, [Next]_vars PROVE Order'
  OBVIOUS
<1>1. /\ EngineTypeOK /\ cmd \in Command
  BY DEF IInv, TypeOK, EngineTypeOK
<1>2. UNCHANGED disk /\ UNCHANGED World => FilesAccounted'
  BY DEF Order, FilesAccounted, World
<1>3. CASE DeployCommand
  <2>1. PICK restart \in BOOLEAN, pick \in {"all", "step", "from"}, k \in 1..Len(Steps) :
          Deploy(restart, pick, k)
    BY <1>3 DEF DeployCommand
  <2>2. /\ cmd'.pc = IF restart THEN "clear" ELSE "load"
        /\ cmd'.i = IF pick = "all" THEN 1 ELSE k
        /\ cmd'.ignore = (restart \/ pick # "all") /\ cmd'.st = Blank
        /\ UNCHANGED <<disk, World>>
    BY <1>3, <2>1 DEF DeployCommand, Deploy, Idle
  <2>3. CommandAccounted'
    BY <2>2, BlankAccounted DEF CommandAccounted
  <2>4. ASSUME ~cmd'.ignore
        PROVE  cmd'.i = 1 /\ cmd'.pc = "load" /\ Passed' = {}
    <3>1. cmd'.i = 1 /\ cmd'.pc = "load"
      BY <2>2, <2>4
    <3>2. 1..cmd'.i - 1 = {}
      BY <3>1
    <3>3. QED
      BY <3>1, <3>2 DEF Passed
  <2>5. ~cmd'.ignore => Resuming'
    BY <2>2, <2>4 DEF Resuming
  <2>6. QED
    BY <1>2, <2>2, <2>3, <2>5 DEF Order
<1>4. CASE waitForReady(Answers) /\ UNCHANGED World
  <2>1. FilesAccounted'
    BY <1>2, <1>4 DEF waitForReady
  <2>2. CASE cmd' = Idle
    BY <2>1, <2>2, EndsKeepsOrder
  <2>3. CASE GoTo("remove")
    <3>1. /\ cmd'.pc = "remove" /\ cmd'.st = cmd.st /\ cmd'.i = cmd.i
          /\ cmd'.ignore = cmd.ignore
      BY <1>1, <2>3 DEF GoTo, Command
    <3>2. CommandAccounted' /\ (~cmd'.ignore => Resuming')
      BY <1>4, <3>1 DEF Order, CommandAccounted, Resuming, Passed, World, Effected
    <3>3. QED
      BY <2>1, <3>2 DEF Order
  <2>4. QED
    BY <1>4, <2>2, <2>3 DEF waitForReady, Fails
<1>5. CASE Crash /\ UNCHANGED World
  BY <1>2, <1>5, EndsKeepsOrder DEF Crash, Fails
<1>6. CASE UNCHANGED vars
  <2>1. UNCHANGED <<disk, cmd, World>>
    BY <1>6 DEF vars, World
  <2>2. CommandAccounted' /\ (~cmd'.ignore => Resuming')
    BY <2>1 DEF Order, CommandAccounted, Resuming, Passed, World, Effected, Here
  <2>3. QED
    BY <1>2, <2>1, <2>2 DEF Order
<1>7. QED
  BY <1>3, <1>4, <1>5, <1>6, EngineKeepsOrder, RunStepKeepsOrder, DestroyKeepsOrder
  DEF Next, Proceed

(* A command that resumes starts a step in its order, or the deployment is *)
(* an orphan of version 1.                                                 *)
LEMMA ResumesInOrder ==
  ASSUME IInv, Order, [Next]_vars, ResumedStep, lost = {}, ~Orphaned
  PROVE  /\ \A j \in 1..cmd.i - 1 : Steps[j] \in done
         /\ Here \in Lifecycle => contract
<1>1. /\ Resuming /\ cmd.pc = "next" /\ cmd'.pc = "run"
      /\ Accounted(cmd.st, done, contract, lost)
  BY DEF ResumedStep, Order, CommandAccounted
<1>2. \A j \in 1..cmd.i - 1 : Steps[j] \in done
  BY <1>1 DEF Resuming, Passed, Effected
<1>3. MarkRunning
  <2>1. ~loadBootstrapStateWithFallback /\ ~ClearState /\ ~SaveMigrated /\ ~StepReturned
        /\ ~removeBootstrapState /\ ~RunStep /\ ~waitForReady(Answers) /\ ~Destroy
        /\ ~DeployCommand
    BY <1>1 DEF loadBootstrapStateWithFallback, ClearState, SaveMigrated, StepReturned,
                removeBootstrapState, RunStep, waitForReady, Destroy, DeployCommand, Deploy
  <2>2. ~Skip /\ ~StepsDone /\ ~Crash /\ cmd' # cmd
    BY <1>1 DEF Skip, StepsDone, GoTo, Crash, Fails, Idle, IInv, TypeOK, EngineTypeOK, Command
  <2>3. QED
    BY <2>1, <2>2 DEF Next, Proceed, Engine, vars
<1>4. ASSUME Here \in Lifecycle, ~contract
      PROVE  FALSE
  <2>1. cmd.i \in 1..Len(Steps)
    BY <1>3, StepsAreSteps DEF MarkRunning, IInv, TypeOK, EngineTypeOK, Command
  <2>2. Apply \in Passed
    BY <1>4, <2>1, LifecycleFollowsApply DEF Here, Passed
  <2>3. Apply \in StepId
    BY <2>1, <2>2, StepsAreSteps DEF Passed
  <2>4. /\ Lifecycle \subseteq done /\ cmd.st.steps[Here] # "none"
        /\ Succeeded(cmd.st, Apply)
    BY <1>1, <1>4, <2>2, <2>3 DEF Resuming, Accounted
  <2>5. cmd.st.steps[Here] \in {"running", "failed"}
    <3>1. Here # Apply /\ Here \notin NeverSkip
      BY <1>4, ApplyStandsApart, LifecycleFollowsApply
    <3>2. ~Succeeded(cmd.st, Here)
      BY <1>1, <1>3, <3>1 DEF ResumedStep, MarkRunning, Skippable, Handoff
    <3>3. cmd.st.steps[Here] \in Status
      BY <2>1, HereIsNew DEF IInv, TypeOK, EngineTypeOK, Command, State
    <3>4. QED
      BY <2>4, <3>2, <3>3 DEF Succeeded, Status
  <2>6. cmd.st = disk["state"]
    BY <1>1, <2>3, <2>4 DEF Resuming, Blank, Succeeded
  <2>7. cmd.st \in State /\ Absent \notin State /\ Torn \notin State
    BY DEF IInv, TypeOK, EngineTypeOK, Command, State, Absent, Torn
  <2>8. QED
    BY <1>4, <2>4, <2>5, <2>6, <2>7 DEF Orphaned
<1>5. QED
  BY <1>2, <1>4

(* cluster deploy resumes in the order of the provider: for any steps and  *)
(* failures a step is started only when all before it are done, and a      *)
(* Kubespray step never on the outputs of a version 1 apply.               *)
THEOREM StepsKeepTheirOrder == Spec => OrderRespected
<1>1. IInv /\ Order /\ [Next]_vars =>
        (ResumedStep /\ lost = {} /\ ~Orphaned =>
           /\ \A j \in 1..cmd.i - 1 : Steps[j] \in done
           /\ Here \in Lifecycle => contract)
  BY ResumesInOrder
<1>2. Spec => [](IInv /\ Order)
  BY InitIInv, NextIInv, InitOrder, NextOrder, PTL DEF Spec
<1>3. QED
  BY <1>1, <1>2, PTL DEF Spec, OrderRespected
===============================================================================
