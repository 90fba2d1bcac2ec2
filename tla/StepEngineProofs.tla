---------------------------- MODULE StepEngineProofs ----------------------------
(* What the engine of deploy preserves, whatever its steps do to the world. *)
EXTENDS StepEngine, TLAPS

(* The command is at a step when it runs one.                              *)
AtAStep == cmd.pc \in {"run", "returned"} => cmd.i \in 1..Len(Steps)

EngineInv == EngineTypeOK /\ AtAStep

(* Every place of the sequence holds a step.                               *)
LEMMA StepsAreSteps ==
  /\ Len(Steps) \in Nat
  /\ \A k \in 1..Len(Steps) : Steps[k] \in StepId
BY StepsAreDistinct DEF StepId

(* Marking a step keeps the type of the state.                             *)
LEMMA MarkedTyped ==
  ASSUME NEW st \in State, NEW s, NEW v \in Status
  PROVE  Marked(st, s, v) \in State
BY DEF State, Marked

(* So does the migration.                                                  *)
LEMMA MigratedTyped ==
  ASSUME NEW st \in State
  PROVE  migrateBootstrapState(st) \in State
BY DEF State, Status, migrateBootstrapState

(* So does recording what a step returned.                                 *)
LEMMA OutcomeTyped ==
  ASSUME cmd \in Command
  PROVE  Outcome \in State
BY MarkedTyped DEF Outcome, Command, State, Status

(* The engine as it is before any command.                                 *)
LEMMA EngineInitInv ==
  ASSUME NEW legacy \in Files, EngineInit(legacy)
  PROVE  EngineInv
<1>1. Blank \in State
  BY DEF Blank, State, Status
<1>2. Idle \in Command
  BY <1>1, StepsAreSteps DEF Idle, Command, PC
<1>3. QED
  BY <1>2, StepKinds DEF EngineInit, EngineInv, EngineTypeOK, AtAStep, Files, Place, Idle

(* The command before it begins and after it ends.                         *)
LEMMA IdleTyped == Idle \in Command
<1>1. Blank \in State
  BY DEF Blank, State, Status
<1>2. QED
  BY <1>1, StepsAreSteps DEF Idle, Command, PC

(* A fault is counted within its bound.                                    *)
LEMMA FaultTyped ==
  ASSUME faults \in 0..MaxFaults, Fault
  PROVE  faults' \in 0..MaxFaults
BY StepKinds DEF Fault

(* A failed write may tear the file, which is a file still.                *)
LEMMA SaveFailsInv ==
  ASSUME EngineInv, SaveFails
  PROVE  EngineInv'
<1>1. cmd' = Idle /\ faults' \in 0..MaxFaults
  BY FaultTyped DEF SaveFails, Fails, EngineInv, EngineTypeOK
<1>2. disk' \in [Place -> Files]
  BY DEF SaveFails, EngineInv, EngineTypeOK, Files, Place
<1>3. QED
  BY <1>1, <1>2, IdleTyped DEF EngineInv, EngineTypeOK, AtAStep, Idle

(* A command begins at a step, whatever the user selected.                 *)
LEMMA DeployInv ==
  ASSUME EngineInv, NEW restart \in BOOLEAN, NEW pick \in {"all", "step", "from"},
         NEW k \in 1..Len(Steps), Deploy(restart, pick, k)
  PROVE  EngineInv'
<1> DEFINE pc == IF restart THEN "clear" ELSE "load"
           i  == IF pick = "all" THEN 1 ELSE k
           hi == IF pick = "step" THEN k ELSE Len(Steps)
           ig == restart \/ pick # "all"
<1>1. pc \in PC /\ i \in Nat \ {0} /\ hi \in 0..Len(Steps) /\ ig \in BOOLEAN
  BY StepsAreSteps DEF PC
<1>2. Blank \in State
  BY IdleTyped DEF Idle, Command
<1>3. cmd' = [pc |-> pc, st |-> Blank, i |-> i, hi |-> hi, ignore |-> ig, ok |-> FALSE]
  BY DEF Deploy, Idle
<1>4. cmd'.pc \in {"clear", "load"}
  BY <1>3
<1> HIDE DEF pc, i, hi, ig
<1>5. cmd' \in Command
  BY <1>1, <1>2, <1>3 DEF Command
<1>6. QED
  BY <1>4, <1>5 DEF Deploy, EngineInv, EngineTypeOK, AtAStep

(* The step returns while the extending module acts on the world.          *)
LEMMA ReturnsInv ==
  ASSUME EngineInv, cmd.pc = "run", NEW ok \in BOOLEAN, Returns(ok),
         disk' \in [Place -> Files], faults' \in 0..MaxFaults
  PROVE  EngineInv'
BY DEF EngineInv, EngineTypeOK, AtAStep, Returns, Command, PC

(* The process dies.                                                       *)
LEMMA CrashInv ==
  ASSUME EngineInv, Crash
  PROVE  EngineInv'
<1>1. cmd' = Idle /\ faults' \in 0..MaxFaults
  BY FaultTyped DEF Crash, Fails, EngineInv, EngineTypeOK
<1>2. QED
  BY <1>1, IdleTyped DEF Crash, EngineInv, EngineTypeOK, AtAStep, Idle

(* The command waits for the cluster.                                      *)
LEMMA WaitInv ==
  ASSUME EngineInv, NEW answers, waitForReady(answers)
  PROVE  EngineInv'
<1>1. CASE GoTo("remove") /\ UNCHANGED faults
  BY <1>1 DEF waitForReady, GoTo, EngineInv, EngineTypeOK, AtAStep, Command, PC
<1>2. CASE cmd' = Idle /\ UNCHANGED faults
  BY <1>2, IdleTyped DEF waitForReady, EngineInv, EngineTypeOK, AtAStep, Idle
<1>3. CASE Fails
  BY <1>3, IdleTyped, FaultTyped DEF waitForReady, Fails, EngineInv, EngineTypeOK, AtAStep, Idle
<1>4. QED
  BY <1>1, <1>2, <1>3 DEF waitForReady

(* One thing the engine does keeps its types and its place.                *)
LEMMA EngineStepInv ==
  ASSUME EngineInv, Engine
  PROVE  EngineInv'
<1> USE DEF EngineInv, EngineTypeOK
<1>1. CASE ClearState
  <2>1. CASE GoTo("clear legacy") /\ UNCHANGED faults /\ disk' = [disk EXCEPT !["state"] = Absent]
    BY <2>1 DEF GoTo, AtAStep, Command, PC, Files, Place
  <2>2. CASE GoTo("next") /\ UNCHANGED faults /\ disk' = [disk EXCEPT !["legacy"] = Absent]
    BY <2>2 DEF GoTo, AtAStep, Command, PC, Files, Place
  <2>3. CASE Fails /\ UNCHANGED disk
    BY <2>3, IdleTyped, FaultTyped DEF Fails, AtAStep, Idle
  <2>4. QED
    BY <1>1, <2>1, <2>2, <2>3 DEF ClearState
<1>2. CASE loadBootstrapStateWithFallback
  <2> DEFINE found == IF disk["state"] # Absent THEN disk["state"] ELSE disk["legacy"]
  <2>1. found \in Files
    BY DEF Place
  <2>2. CASE found = Torn /\ cmd' = Idle
    BY <1>2, <2>2, IdleTyped DEF loadBootstrapStateWithFallback, AtAStep, Idle
  <2>3. CASE cmd' = [cmd EXCEPT !.pc = "next"]
    BY <1>2, <2>3 DEF loadBootstrapStateWithFallback, AtAStep, Command, PC
  <2>4. CASE found \in State /\ cmd' = [cmd EXCEPT !.pc = "migrate", !.st = migrateBootstrapState(found)]
    <3>1. migrateBootstrapState(found) \in State
      BY <2>4, MigratedTyped
    <3> HIDE DEF found
    <3>2. cmd' \in Command /\ cmd'.pc = "migrate"
      BY <2>4, <3>1 DEF Command, PC
    <3>3. QED
      BY <1>2, <3>2 DEF loadBootstrapStateWithFallback, AtAStep
  <2>5. CASE found \in State /\ cmd' = [cmd EXCEPT !.pc = "next", !.st = found]
    BY <1>2, <2>5 DEF loadBootstrapStateWithFallback, AtAStep, Command, PC
  <2>6. cmd' = CASE found = Torn -> Idle
                 [] found = Absent -> [cmd EXCEPT !.pc = "next"]
                 [] OTHER -> IF found.kind = "v1"
                             THEN [cmd EXCEPT !.pc = "migrate",
                                              !.st = migrateBootstrapState(found)]
                             ELSE [cmd EXCEPT !.pc = "next", !.st = found]
    BY <1>2 DEF loadBootstrapStateWithFallback
  <2>7. Absent # Torn
    BY DEF Absent, Torn
  <2> HIDE DEF found
  <2>8. found \in State \/ found = Absent \/ found = Torn
    BY <2>1 DEF Files
  <2>9. QED
    BY <2>2, <2>3, <2>4, <2>5, <2>6, <2>7, <2>8
<1>3. CASE SaveMigrated
  <2>1. CASE Saved(cmd.st) /\ GoTo("next") /\ UNCHANGED faults
    BY <2>1 DEF Saved, GoTo, AtAStep, Command, PC, Files, Place
  <2>2. QED
    BY <1>3, <2>1, SaveFailsInv DEF SaveMigrated
<1>4. CASE Skip
  BY <1>4 DEF Skip, AtAStep, Command
<1>5. CASE MarkRunning
  <2> DEFINE st == IF Handoff THEN cmd.st ELSE Marked(cmd.st, Here, "running")
  <2>1. st \in State
    BY MarkedTyped DEF Command, Status
  <2>2. cmd.i \in Nat \ {0} /\ cmd.i <= cmd.hi /\ cmd.hi \in 0..Len(Steps)
    BY <1>5 DEF MarkRunning, Command
  <2>3. CASE /\ IF Handoff THEN UNCHANGED disk ELSE Saved(st)
             /\ cmd' = [cmd EXCEPT !.pc = "run", !.st = st]
             /\ UNCHANGED faults
    <3>1. disk' \in [Place -> Files]
      BY <2>1, <2>3 DEF Saved, Files, Place
    <3>2. cmd' \in Command
      BY <2>1, <2>3 DEF Command, PC
    <3>3. cmd'.i \in 1..Len(Steps)
      <4>1. cmd'.i = cmd.i
        BY <2>3 DEF Command
      <4>2. QED
        BY <2>2, <4>1, StepsAreSteps
    <3>4. QED
      BY <3>1, <3>2, <3>3, <2>3 DEF AtAStep
  <2>4. QED
    BY <1>5, <2>3, SaveFailsInv DEF MarkRunning
<1>6. CASE StepReturned
  <2>1. CASE /\ Saved(Outcome)
             /\ cmd' = [cmd EXCEPT !.pc = "next", !.st = Outcome, !.i = @ + 1]
             /\ UNCHANGED faults
    <3>1. Outcome \in State
      BY OutcomeTyped
    <3>2. disk' \in [Place -> Files]
      BY <2>1, <3>1 DEF Saved, Files, Place
    <3>3. cmd.i + 1 \in Nat \ {0}
      BY DEF Command
    <3>4. cmd' = [cmd EXCEPT !.pc = "next", !.st = Outcome, !.i = cmd.i + 1]
      BY <2>1
    <3>5. cmd' \in Command
      BY <3>1, <3>3, <3>4 DEF Command, PC
    <3>6. cmd'.pc = "next"
      BY <3>4 DEF Command
    <3>7. QED
      BY <2>1, <3>2, <3>5, <3>6 DEF AtAStep
  <2>2. CASE Saved(Outcome) /\ cmd' = Idle /\ UNCHANGED faults
    BY <2>2, OutcomeTyped, IdleTyped DEF Saved, AtAStep, Idle, Files, Place
  <2>3. QED
    BY <1>6, <2>1, <2>2, SaveFailsInv DEF StepReturned
<1>7. CASE StepsDone
  BY <1>7 DEF StepsDone, GoTo, AtAStep, Command, PC
<1>8. CASE removeBootstrapState
  <2>1. disk' \in [Place -> Files]
    BY <1>8 DEF removeBootstrapState, Files, Place
  <2>2. faults' \in 0..MaxFaults
    BY <1>8, FaultTyped DEF removeBootstrapState
  <2>3. CASE GoTo("remove legacy")
    BY <2>1, <2>2, <2>3 DEF GoTo, AtAStep, Command, PC
  <2>4. CASE cmd' = Idle
    BY <2>1, <2>2, <2>4, IdleTyped DEF AtAStep, Idle
  <2>5. QED
    BY <1>8, <2>3, <2>4 DEF removeBootstrapState
<1>9. QED
  BY <1>1, <1>2, <1>3, <1>4, <1>5, <1>6, <1>7, <1>8 DEF Engine
===============================================================================
