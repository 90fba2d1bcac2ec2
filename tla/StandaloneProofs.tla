---------------------------- MODULE StandaloneProofs ----------------------------
(***************************************************************************)
(* The parts whose specifications stand alone: the circuit breaker and the *)
(* file lock of internal/resilience, for any thresholds, calls, commands   *)
(* and files, and the migration of the directory layout, for any moves,    *)
(* clusters and faults.                                                    *)
(*                                                                         *)
(* 1. The breaker never counts a probe that is not in progress, and it     *)
(*    opens on a full streak only.  A result is recorded in the state the  *)
(*    breaker has reached, not in the one that admitted the call, so       *)
(*    neither fact follows from the calls of one period: the invariant     *)
(*    bounds the slots by ALL the calls in progress and the failures       *)
(*    counted while closed by the failures in a row.                       *)
(* 2. The lock file names the command that holds its lock.  The flock of a *)
(*    file is what protects its text: only the command that has it writes  *)
(*    the owner, and a file is emptied only when nobody has it open.  So   *)
(*    the invariant has to say that whoever writes or holds has the flock  *)
(*    of its own file, and that a flock belongs to a command that has the  *)
(*    file open, whose closing therefore takes no flock from another.      *)
(* 3. A migration that is started again after a failure plans from what    *)
(*    the last one left.  The invariant says what a plan has and lacks:    *)
(*    every move that can still be made (Planning), and of the moves that  *)
(*    claim one source only those before which none has been made or begun *)
(*    (Settled), so that what --force clears is always a copy of a source  *)
(*    that is still there.                                                 *)
(***************************************************************************)
EXTENDS CircuitBreaker, FileLock, LayoutMigration, TLAPS

-----------------------------------------------------------------------------
(* 1. The circuit breaker.                                                 *)

(* The numbers of the invariant, apart from the flags.                     *)
Counts ==
  /\ state \in {"closed", "open", "half-open"}
  /\ failures \in Nat /\ successes \in Nat /\ slots \in Int
  /\ calls \in Nat /\ probes \in Nat /\ streak \in 0..FailureThreshold
  /\ state # "half-open" => slots = 0 /\ successes = 0
  /\ slots <= calls + probes
  /\ state = "closed" => failures <= streak /\ failures < FailureThreshold

IInv == Flags /\ Counts

(* A new breaker satisfies the invariant.                                  *)
LEMMA InitIInv == Init => IInv
<1>1. Init => Flags
  BY Zenon DEF Init, Flags
<1>2. Init => Counts
  BY BreakerConstants DEF Init, Counts
<1>. QED
  BY <1>1, <1>2 DEF IInv

(* The flags stay Boolean.                                                 *)
LEMMA NextFlags == Flags /\ [Next]_vars => Flags'
<1>. SUFFICES ASSUME Flags, [Next]_vars PROVE Flags'
  OBVIOUS
<1>1. CASE beforeCall
  BY <1>1, Zenon DEF Flags, beforeCall, CallClosed, CallOpen, CallHalfOpen, breaker
<1>2. CASE Succeed
  BY <1>2, Zenon DEF Flags, Succeed
<1>3. CASE Fail
  BY <1>3, Zenon DEF Flags, Fail, onFailure
<1>4. CASE Reset \/ Elapse \/ ServiceChanges
  BY <1>4, Zenon DEF Flags, Reset, Elapse, ServiceChanges, breaker
<1>5. CASE UNCHANGED vars
  BY <1>5, Zenon DEF Flags, vars
<1>. QED
  BY <1>1, <1>2, <1>3, <1>4, <1>5 DEF Next

(* Recording a success preserves the counts, whichever call it ends and in *)
(* whatever state its result arrives.                                      *)
LEMMA SuccessKeepsCounts ==
  ASSUME Counts, CallEnds, onSuccess, streak' = 0
  PROVE  Counts'
BY BreakerConstants DEF BreakerConstants, Counts, CallEnds, onSuccess

(* So does recording a failure.                                            *)
LEMMA FailureKeepsCounts ==
  ASSUME Counts, CallEnds, onFailure,
         streak' = IF streak < FailureThreshold THEN streak + 1 ELSE streak
  PROVE  Counts'
<1>. USE BreakerConstants DEF BreakerConstants, Counts, CallEnds
<1>1. CASE state = "closed"
  BY <1>1 DEF onFailure
<1>2. CASE state = "half-open"
  BY <1>2 DEF onFailure
<1>3. CASE state = "open"
  BY <1>3 DEF onFailure
<1>. QED
  BY <1>1, <1>2, <1>3

(* Every step of the breaker preserves the invariant.                      *)
LEMMA NextIInv == IInv /\ [Next]_vars => IInv'
<1>. SUFFICES ASSUME Flags, Counts, [Next]_vars PROVE Flags' /\ Counts'
  BY DEF IInv
<1>1. Counts'
  <2>. USE BreakerConstants DEF BreakerConstants, Counts
  <2>1. CASE CallClosed
    BY <2>1 DEF CallClosed, breaker
  <2>2. CASE CallOpen
    BY <2>2 DEF CallOpen
  <2>3. CASE CallHalfOpen
    BY <2>3 DEF CallHalfOpen
  <2>4. CASE Reset
    BY <2>4 DEF Reset
  <2>5. CASE Elapse
    BY <2>5 DEF Elapse
  <2>6. CASE ServiceChanges
    BY <2>6 DEF ServiceChanges, breaker
  <2>7. CASE UNCHANGED vars
    BY <2>7 DEF vars
  <2>8. CASE Succeed
    BY <2>8, SuccessKeepsCounts DEF Succeed
  <2>9. CASE Fail
    BY <2>9, FailureKeepsCounts DEF Fail
  <2>. QED
    BY <2>1, <2>2, <2>3, <2>4, <2>5, <2>6, <2>7, <2>8, <2>9 DEF Next, beforeCall
<1>. QED
  BY <1>1, NextFlags

(* Every reachable state satisfies the invariant.                          *)
THEOREM BreakerInductive == Spec => []IInv
BY InitIInv, NextIInv, PTL DEF Spec

(* The breaker's fields have their types, and nothing is counted for a     *)
(* half-open period that is over.                                          *)
THEOREM BreakerTypeCorrect == Spec => []TypeOK
<1>1. IInv => TypeOK
  BY Zenon DEF IInv, Counts, TypeOK
<1>. QED
  BY <1>1, BreakerInductive, PTL

(* A half-open breaker never counts a probe that nobody will give back: it *)
(* cannot reject every call for ever.                                      *)
THEOREM NoSlotIsLost == Spec => []SlotsAreReturned
<1>1. IInv => SlotsAreReturned
  BY DEF IInv, Counts, SlotsAreReturned
<1>. QED
  BY <1>1, BreakerInductive, PTL

(* A closed breaker opens only after FailureThreshold failures in a row,   *)
(* wherever the failing calls were admitted.                               *)
THEOREM OpensOnStreakOnly == Spec => OpensOnStreak
<1>1. IInv /\ [Next]_vars =>
        [state = "closed" /\ state' = "open" => streak' = FailureThreshold]_vars
  <2>. SUFFICES ASSUME IInv, Next, state = "closed", state' = "open"
                PROVE  streak' = FailureThreshold
    OBVIOUS
  <2>. Counts
    BY DEF IInv
  <2>1. Fail
    BY DEF Next, beforeCall, CallClosed, CallOpen, CallHalfOpen, breaker, Succeed,
           onSuccess, Reset, Elapse, ServiceChanges
  <2>2. failures + 1 >= FailureThreshold /\ failures <= streak
    BY <2>1 DEF Fail, onFailure, Counts
  <2>3. streak \in 0..FailureThreshold /\ failures \in Nat
    BY DEF Counts
  <2>. QED
    BY <2>1, <2>2, <2>3, BreakerConstants DEF Fail
<1>. QED
  BY <1>1, BreakerInductive, PTL DEF Spec, OpensOnStreak
-----------------------------------------------------------------------------
(* 2. The file lock.  The two components share no state.                   *)

(* Whoever writes or holds has the flock of its own file, which names the  *)
(* holder.                                                                 *)
LockInv ==
  /\ LockTypeOK
  /\ \A p \in Process : pc[p] \in {"writing", "held"} => flock[fd[p]] = p
  /\ \A p \in Process : pc[p] = "held" => owner[fd[p]] = p

(* The empty lock directory satisfies the invariant.                       *)
LEMMA LockInitInv == LockInit => LockInv
BY LockConstants DEF LockInit, LockInv, LockTypeOK, Label

(* Each step of a command, and the passing of time, preserves it.          *)
LEMMA LockNextInv == LockInv /\ [LockNext]_lockVars => LockInv'
<1>. SUFFICES ASSUME LockInv, [LockNext]_lockVars PROVE LockInv'
  OBVIOUS
<1>. USE LockConstants DEF LockInv, LockTypeOK, Label
<1>1. ASSUME NEW p \in Process, Begin(p) PROVE LockInv'
  BY <1>1 DEF Begin, Goto
<1>2. ASSUME NEW p \in Process, GetLockInfo(p) PROVE LockInv'
  BY <1>2 DEF GetLockInfo, Goto
<1>3. ASSUME NEW p \in Process, forceBreak(p) PROVE LockInv'
  BY <1>3 DEF forceBreak, Goto
<1>4. ASSUME NEW p \in Process, OpenLockFile(p) PROVE LockInv'
  <2>1. CASE name # NoFile
    BY <1>4, <2>1 DEF OpenLockFile, Goto
  <2>2. CASE name = NoFile
    <3>1. PICK f \in Unreachable :
            /\ name' = f
            /\ fd' = [fd EXCEPT ![p] = f]
            /\ owner' = [owner EXCEPT ![f] = Nobody]
            /\ lapsed' = lapsed \ {f}
      BY <1>4, <2>2 DEF OpenLockFile
    <3>2. f \in File /\ \A q \in Process : fd[q] # f
      BY DEF Unreachable
    <3>3. pc' = [pc EXCEPT ![p] = "opened"] /\ UNCHANGED flock
      BY <1>4 DEF OpenLockFile, Goto
    <3>4. LockTypeOK'
      BY <3>1, <3>2, <3>3
    <3>5. \A q \in Process : pc'[q] \in {"writing", "held"} => flock'[fd'[q]] = q
      BY <3>1, <3>2, <3>3
    <3>6. \A q \in Process : pc'[q] = "held" => owner'[fd'[q]] = q
      BY <3>1, <3>2, <3>3
    <3>. QED  BY <3>4, <3>5, <3>6
  <2>. QED  BY <2>1, <2>2
<1>5. ASSUME NEW p \in Process, Flock(p) PROVE LockInv'
  BY <1>5 DEF Flock, Goto
<1>6. ASSUME NEW p \in Process, WriteMetadata(p) PROVE LockInv'
  <2>1. fd[p] \in File /\ flock[fd[p]] = p
    BY <1>6 DEF WriteMetadata
  <2>2. \A q \in Process \ {p} : pc[q] = "held" => fd[q] # fd[p]
    BY <2>1
  <2>. QED  BY <1>6, <2>1, <2>2 DEF WriteMetadata, Goto
<1>7. ASSUME NEW p \in Process, Close(p), pc[p] # "idle",
             \E l \in {"idle", "waiting", "removing"} : Goto(p, l),
             UNCHANGED <<name, owner, lapsed>>
      PROVE  LockInv'
  <2>1. PICK l \in {"idle", "waiting", "removing"} : pc' = [pc EXCEPT ![p] = l]
    BY <1>7 DEF Goto
  <2>2. LockTypeOK'
    BY <1>7, <2>1 DEF Close
  <2>3. \A q \in Process : pc'[q] \in {"writing", "held"} => q # p /\ pc[q] = pc'[q]
    BY <2>1
  <2>4. \A q \in Process : pc'[q] \in {"writing", "held"} => flock'[fd'[q]] = q
    BY <1>7, <2>3 DEF Close
  <2>5. \A q \in Process : pc'[q] = "held" => owner'[fd'[q]] = q
    BY <1>7, <2>3 DEF Close
  <2>. QED  BY <2>2, <2>4, <2>5
<1>8. ASSUME NEW p \in Process, AttemptFails(p) PROVE LockInv'
  BY <1>7, <1>8 DEF AttemptFails
<1>9. ASSUME NEW p \in Process, GiveUp(p) PROVE LockInv'
  BY <1>9 DEF GiveUp, Goto
<1>10. ASSUME NEW p \in Process, Release(p) PROVE LockInv'
  BY <1>7, <1>10 DEF Release
<1>11. ASSUME NEW p \in Process, RemoveName(p) PROVE LockInv'
  BY <1>11 DEF RemoveName, Goto
<1>12. ASSUME NEW p \in Process, Crash(p) PROVE LockInv'
  BY <1>7, <1>12 DEF Crash
<1>13. CASE Lapse
  BY <1>13 DEF Lapse
<1>14. CASE UNCHANGED lockVars
  BY <1>14 DEF lockVars
<1>. QED
  BY <1>1, <1>2, <1>3, <1>4, <1>5, <1>6, <1>8, <1>9, <1>10, <1>11, <1>12, <1>13, <1>14
  DEF LockNext, Proceed

(* The invariant holds throughout every behaviour of the lock.             *)
THEOREM LockInductive == LockSpec => []LockInv
BY LockInitInv, LockNextInv, PTL DEF LockSpec

(* No command keeps the lock file open outside an attempt or a hold, and   *)
(* the bookkeeping has its type.                                           *)
THEOREM LockTypeCorrect == LockSpec => []LockTypeOK
<1>1. LockInv => LockTypeOK
  BY DEF LockInv
<1>. QED  BY <1>1, LockInductive, PTL

(* Whoever reads a held lock file learns who holds its lock.               *)
THEOREM HolderIsNamed == LockSpec => []FileNamesHolder
<1>1. LockInv => FileNamesHolder
  BY DEF LockInv, FileNamesHolder
<1>. QED  BY <1>1, LockInductive, PTL

-----------------------------------------------------------------------------
(* 3. The layout migration.                                                *)

Migration == [pc : {"clear", "move", "copy", "remove", "done", "failed"},
              plan : SUBSET Move, k : Move, force : BOOLEAN]

Typed ==
  /\ src \in [Source -> Piece \ {"theirs"}]
  /\ dst \in [Zone -> Piece]
  /\ late \subseteq Zone
  /\ m \in Migration \union {Idle}
  /\ m.pc # "idle" => m.k \in m.plan

(* At work on the k-th move.                                               *)
AtWork == m.pc \in {"clear", "move", "copy", "remove"}

Gone(i) == src[Moves[i].from] = "absent"

(* What the plan says of the sources: it has every move that can still be  *)
(* made, and a cluster that has been left out will not be found again.     *)
Planning ==
  m.pc # "idle" =>
    /\ \A i \in Move \ m.plan : Gone(i) \/ ~Finds(i)
    /\ \A s \in Source : Present(s) /\ s.of \notin Cluster \ WithInfrastructure
         => \E i \in m.plan : Moves[i].from = s

Passed ==
  m.pc # "idle" => \A i \in m.plan : i < m.k \/ m.pc = "done" => Gone(i)

(* A planned source is missing only when an earlier move took it.          *)
Taken ==
  AtWork => \A i \in m.plan : Gone(i) =>
    \E j \in m.plan : Moves[j].from = Moves[i].from /\ j < m.k

InfraLast ==
  WithInfrastructure # {} /\ src[Infra] # "whole" => src[Git] = "absent"

Rivals(j, i) == Moves[j].from = Moves[i].from /\ j < i

(* A move that has been made or begun is the first of its source that any  *)
(* later plan has.                                                         *)
Settled ==
  \A i, j \in Move :
    Rivals(j, i) /\ dst[Moves[i].to] \in {"whole", "part"} =>
      ~Finds(j) /\ (m.pc # "idle" => j \notin m.plan)

(* No move has been here.                                                  *)
Untouched == {"absent", "theirs"}

Target ==
  /\ m.pc = "clear" => m.force
  /\ m.pc = "move" => dst[To] \in Untouched
  /\ m.pc = "copy" => dst[To] = "part"
  /\ m.pc = "remove" => (src[From] = "whole" => dst[To] = "whole")
  /\ AtWork /\ ~m.force => \A i \in m.plan : i > m.k => dst[Moves[i].to] \in Untouched

Unforced ==
  m.pc # "idle" =>
    m.force \/ \A i \in m.plan : dst[Moves[i].to] = "theirs" => Moves[i].to \in late

LayoutInv ==
  Typed /\ Planning /\ Passed /\ Taken /\ InfraLast /\ Settled /\ Target /\ Unforced

-----------------------------------------------------------------------------
(* What the steps do.                                                      *)

(* Moves join sources and places in the zones.                             *)
LEMMA MovesAreTyped ==
  /\ Len(Moves) \in Nat /\ Move \subseteq Nat
  /\ \A i \in Move : Moves[i].from \in Source /\ Moves[i].to \in Zone
  /\ Git \in Source /\ Infra \in Source /\ Git # Infra
BY LayoutConstants DEF Move, Source, Zone, Git, Infra

(* A migration in progress is a record of it.                              *)
LEMMA InProgress ==
  ASSUME Typed
  PROVE  m.pc # "idle" <=> m \in Migration
BY DEF Typed, Migration, Idle

(* The migration is at another stage of the same move.                     *)
Stays(stage) ==
  /\ m' \in Migration
  /\ m'.pc = stage /\ m'.plan = m.plan /\ m'.force = m.force /\ m'.k = m.k

(* It is at the next move of its plan, or done.                            *)
Goes ==
  /\ m' \in Migration /\ m'.plan = m.plan /\ m'.force = m.force /\ m'.k \in m.plan
  /\ \/ m'.pc = "done" /\ m'.k = m.k /\ \A i \in m.plan : i <= m.k
     \/ /\ m'.pc = (IF m.force THEN "clear" ELSE "move")
        /\ m'.k > m.k
        /\ \A i \in m.plan : i < m'.k => i <= m.k

LEMMA StageChanges ==
  ASSUME Typed, m.pc # "idle", NEW stage \in {"move", "copy", "remove", "done", "failed"},
         GoTo(stage)
  PROVE  Stays(stage)
BY InProgress DEF GoTo, Stays, Migration

LEMMA MovedGoes ==
  ASSUME Typed, m.pc # "idle", Moved
  PROVE  Goes
<1>1. m \in Migration /\ m.k \in m.plan /\ m.plan \subseteq Nat
  BY InProgress, MovesAreTyped DEF Typed, Migration
<1>2. CASE Later = {} /\ GoTo("done")
  <2>1. \A i \in m.plan : ~(i > m.k)
    BY <1>2 DEF Later
  <2>2. \A i \in m.plan : i <= m.k
    BY <2>1, <1>1
  <2>. QED
    BY <1>1, <1>2, <2>2, StageChanges DEF Goes, Stays
<1>3. ASSUME NEW i \in Later, First(Later, i),
             m' = [m EXCEPT !.pc = IF m.force THEN "clear" ELSE "move", !.k = i]
      PROVE  Goes
  <2>1. i \in m.plan /\ i > m.k /\ i \in Move
    BY <1>1, <1>3 DEF Later, Migration
  <2>2. m' \in Migration /\ m'.plan = m.plan /\ m'.force = m.force /\ m'.k = i
        /\ m'.pc = (IF m.force THEN "clear" ELSE "move")
    BY <1>1, <1>3, <2>1 DEF Migration
  <2>3. ASSUME NEW j \in m.plan, j < i PROVE j <= m.k
    <3>1. j \in Later => i <= j
      BY <1>3 DEF First
    <3>. QED
      BY <3>1, <2>3, <2>1, <1>1 DEF Later
  <2>. QED
    BY <2>1, <2>2, <2>3 DEF Goes
<1>. QED
  BY <1>2, <1>3 DEF Moved

-----------------------------------------------------------------------------
(* The source of the current move and its destination.                     *)
LEMMA AtAMove ==
  ASSUME Typed, m.pc # "idle"
  PROVE  /\ m \in Migration /\ m.k \in m.plan /\ m.k \in Move
         /\ From = Moves[m.k].from /\ To = Moves[m.k].to
         /\ From \in Source /\ To \in Zone
         /\ src[From] \in {"absent", "part", "whole"} /\ dst[To] \in Piece
BY InProgress, MovesAreTyped DEF Typed, Migration, From, To, Piece

(* A step takes pieces away from the sources and never adds one; a whole   *)
(* source is taken at the current move only.                               *)
Shrinks ==
  /\ src' \in [Source -> Piece \ {"theirs"}]
  /\ \A s \in Source : src'[s] = src[s] \/ src'[s] = "absent" \/ src[s] = "whole"
  /\ \A s \in Source : src[s] = "absent" => src'[s] = "absent"

(* What happens at the source and the destination of the current move.     *)
SrcAt(piece) == src' = [src EXCEPT ![From] = piece]
DstAt(piece) == dst' = [dst EXCEPT ![To] = piece]
Same(x) == x' = x

(* The effects of the actions, apart from their guards.                    *)
Starts ==
  \E force \in BOOLEAN :
    /\ m.pc = "idle" /\ Same(src) /\ Same(dst) /\ late' = {}
    /\ m' \in Migration /\ m'.plan = Planned /\ m'.k \in Planned /\ m'.force = force
    /\ m'.pc = (IF force THEN "clear" ELSE "move")
    /\ \A i \in Planned : m'.k <= i
    /\ Present(Git)
    /\ force \/ Free(Planned)

Clears ==
  /\ m.pc = "clear" /\ Same(src) /\ Same(late)
  /\ \/ DstAt("absent") /\ Stays("move")
     \/ dst[To] = "whole" /\ DstAt("part") /\ Same(m)

Renames ==
  /\ m.pc = "move" /\ Present(From) /\ Same(late)
  /\ DstAt(src[From]) /\ SrcAt("absent") /\ Goes

Copies ==
  /\ Present(From) /\ Same(src) /\ Same(late)
  /\ \/ m.pc = "move" /\ DstAt("part") /\ Stays("copy")
     \/ m.pc = "copy" /\ DstAt(src[From]) /\ Stays("remove")

Removes ==
  /\ m.pc = "remove" /\ Same(dst) /\ Same(late)
  /\ \/ SrcAt("absent") /\ Goes
     \/ src[From] = "whole" /\ SrcAt("part") /\ Same(m)

Leaves ==
  /\ Same(src) /\ Same(dst) /\ Same(late)
  /\ \/ m' = Idle
     \/ m.pc = "move" /\ Stays("failed")
     \/ Same(m)

Does == Starts \/ Clears \/ Renames \/ Copies \/ Removes \/ Leaves

(* Somebody else fills a place in the zones.                               *)
Fills ==
  \E d \in Zone :
    /\ dst[d] = "absent" /\ dst' = [dst EXCEPT ![d] = "theirs"]
    /\ Same(src) /\ Same(m) /\ late' = late \union {d}

LEMMA StartStarts ==
  ASSUME Typed, NEW force \in BOOLEAN, Start(force)
  PROVE  Starts
<1>1. PICK i \in Planned :
        /\ First(Planned, i)
        /\ m' = [pc |-> IF force THEN "clear" ELSE "move", plan |-> Planned, k |-> i,
                 force |-> force]
  BY DEF Start
<1>2. Planned \subseteq Move
  BY DEF Planned
<1>3. m' \in Migration
  BY <1>1, <1>2 DEF Migration
<1>. QED
  BY <1>1, <1>3 DEF Start, Starts, Same, First

LEMMA NextDoes ==
  ASSUME Typed, [LayoutNext]_layoutVars
  PROVE  Does \/ Fills
<1>1. ASSUME NEW force \in BOOLEAN, Start(force) PROVE Does
  BY <1>1, StartStarts DEF Does
<1>2. CASE Clear
  <2>1. m.pc # "idle"
    BY <1>2 DEF Clear
  <2>2. Clears
    BY <1>2, <2>1, StageChanges DEF Clear, Clears, In, DstAt, Same
  <2>. QED
    BY <2>2 DEF Does
<1>3. CASE Rename
  BY <1>3, MovedGoes DEF Rename, Renames, In, At, DstAt, SrcAt, Same, Does
<1>4. CASE Copy
  BY <1>4, StageChanges DEF Copy, Copies, In, DstAt, Same, Does
<1>5. CASE Remove
  BY <1>5, MovedGoes DEF Remove, Removes, At, SrcAt, Same, Does
<1>6. CASE SourceGone
  <2>1. Stays("failed")
    BY <1>6, InProgress DEF SourceGone, Stays, Migration
  <2>. QED
    BY <1>6, <2>1 DEF SourceGone, Leaves, Same, Does
<1>7. CASE Stop \/ End \/ UNCHANGED layoutVars
  BY <1>7 DEF Stop, End, layoutVars, Leaves, Same, Does
<1>8. CASE SomebodyWrites
  BY <1>8 DEF SomebodyWrites, In, Fills, Same
<1>. QED
  BY <1>1, <1>2, <1>3, <1>4, <1>5, <1>6, <1>7, <1>8 DEF LayoutNext

(* The sources shrink and the places in the zones stay typed.              *)
LEMMA DoesShrink ==
  ASSUME Typed, Does
  PROVE  Shrinks /\ dst' \in [Zone -> Piece]
<1>1. src \in [Source -> Piece \ {"theirs"}] /\ dst \in [Zone -> Piece]
  BY DEF Typed
<1>2. CASE Starts \/ Clears \/ Leaves
  <2>1. Same(src)
    BY <1>2 DEF Starts, Clears, Leaves
  <2>2. dst' \in [Zone -> Piece]
    BY <1>1, <1>2 DEF Starts, Clears, Leaves, Same, DstAt, Piece
  <2>. QED
    BY <1>1, <2>1, <2>2 DEF Same, Shrinks
<1>3. CASE Renames
  <2>1. From \in Source /\ To \in Zone /\ src[From] \in Piece
    BY <1>3, AtAMove DEF Renames, Piece
  <2>. QED
    BY <1>1, <1>3, <2>1 DEF Renames, SrcAt, DstAt, Shrinks, Piece
<1>4. CASE Copies
  <2>1. To \in Zone /\ src[From] \in Piece
    BY <1>4, AtAMove DEF Copies, Piece
  <2>. QED
    BY <1>1, <1>4, <2>1 DEF Copies, Same, DstAt, Shrinks, Piece
<1>5. CASE Removes
  <2>1. From \in Source
    BY <1>5, AtAMove DEF Removes
  <2>. QED
    BY <1>1, <1>5, <2>1 DEF Removes, Same, SrcAt, Shrinks, Piece
<1>. QED
  BY <1>2, <1>3, <1>4, <1>5 DEF Does

LEMMA DoesTyped ==
  ASSUME Typed, Does
  PROVE  Typed'
<1>1. src' \in [Source -> Piece \ {"theirs"}] /\ dst' \in [Zone -> Piece]
  BY DoesShrink DEF Shrinks
<1>2. m' \in Migration \union {Idle} /\ (m'.pc # "idle" => m'.k \in m'.plan)
  <2>1. CASE Starts
    BY <2>1 DEF Starts
  <2>2. CASE Clears \/ Renames \/ Copies \/ Removes \/ Leaves
    <3>1. m \in Migration \union {Idle} /\ (m.pc # "idle" => m.k \in m.plan)
      BY DEF Typed
    <3>2. Goes => m' \in Migration /\ m'.k \in m'.plan
      BY DEF Goes
    <3>3. Same(m) \/ m' = Idle =>
            m' \in Migration \union {Idle} /\ (m'.pc # "idle" => m'.k \in m'.plan)
      BY <3>1 DEF Same, Idle
    <3>4. ASSUME NEW stage, m.pc # "idle", Stays(stage)
          PROVE  m' \in Migration /\ m'.k \in m'.plan
      BY <3>1, <3>4 DEF Stays
    <3>. QED
      BY <2>2, <3>2, <3>3, <3>4 DEF Clears, Renames, Copies, Removes, Leaves
  <2>. QED
    BY <2>1, <2>2 DEF Does
<1>3. late' \subseteq Zone
  BY DEF Does, Starts, Clears, Renames, Copies, Removes, Leaves, Same, Typed
<1>. QED
  BY <1>1, <1>2, <1>3 DEF Typed

(* What is in progress after a step.                                       *)
LEMMA StillInProgress ==
  ASSUME Typed, Does, m'.pc # "idle"
  PROVE  /\ m' \in Migration /\ m'.k \in m'.plan /\ m'.k \in Move /\ m'.k \in Nat
         /\ m'.plan \subseteq Move /\ m'.plan \subseteq Nat
<1>1. Typed'
  BY DoesTyped
<1>2. m' \in Migration /\ m'.k \in m'.plan
  BY <1>1 DEF Typed, Idle
<1>3. m'.plan \subseteq Move
  BY <1>2 DEF Migration
<1>. QED
  BY <1>2, <1>3, MovesAreTyped

(* What is not found stays so.                                             *)
LEMMA FindsLess ==
  ASSUME Shrinks, NEW i \in Move, ~Finds(i)
  PROVE  ~Finds(i)'
<1>1. Moves[i].to[1] \in Cluster /\ ~Found(Moves[i].to[1])
  BY DEF Finds
<1>2. \A s \in Source : ~Present(s) => ~Present(s)'
  BY DEF Shrinks, Present
<1>3. Config(Moves[i].to[1]) \in Source /\ Infra \in Source
  BY <1>1, LayoutConstants
<1>4. ~Present(Config(Moves[i].to[1]))'
  BY <1>1, <1>2, <1>3 DEF Found
<1>5. Moves[i].to[1] \in WithInfrastructure => ~Present(Infra)'
  BY <1>1, <1>2, <1>3 DEF Found
<1>. QED
  BY <1>1, <1>4, <1>5 DEF Finds, Found

(* A migration in progress keeps its plan and its option.                  *)
LEMMA PlanStays ==
  ASSUME Typed, Does, m'.pc # "idle", ~Starts
  PROVE  m.pc # "idle" /\ m'.plan = m.plan /\ m'.force = m.force
<1>1. CASE Clears
  BY <1>1 DEF Clears, Stays, Same
<1>2. CASE Renames
  BY <1>2 DEF Renames, Goes
<1>3. CASE Copies
  BY <1>3 DEF Copies, Stays
<1>4. CASE Removes
  BY <1>4 DEF Removes, Goes, Same
<1>5. CASE Leaves
  BY <1>5 DEF Leaves, Stays, Same, Idle
<1>. QED
  BY <1>1, <1>2, <1>3, <1>4, <1>5 DEF Does

(* What is in the plan when the migration starts.                          *)
LEMMA PlannedIs ==
  ASSUME Typed, InfraLast, Present(Git)
  PROVE  /\ \A i \in Move \ Planned : Gone(i) \/ ~Finds(i)
         /\ \A s \in Source : Present(s) /\ s.of \notin Cluster \ WithInfrastructure
              => \E i \in Planned : Moves[i].from = s
<1>1. \A i \in Move \ Planned : Gone(i) \/ ~Finds(i)
  BY DEF Planned, Gone, Present
<1>2. ASSUME NEW s \in Source, Present(s), s.of \notin Cluster \ WithInfrastructure
      PROVE  \E i \in Planned : Moves[i].from = s
  <2>1. PICK i \in Move : Moves[i].from = s /\ Moves[i].to[1] = s.of
    BY LayoutConstants
  <2>2. s.of \in Cluster => Present(Infra) /\ s.of \in WithInfrastructure
    BY <1>2 DEF InfraLast, Present
  <2>3. Finds(i)
    BY <2>1, <2>2 DEF Finds, Found
  <2>. QED
    BY <1>2, <2>1, <2>3 DEF Planned
<1>. QED
  BY <1>1, <1>2

LEMMA DoesPlanning ==
  ASSUME Typed, InfraLast, Planning, Does
  PROVE  Planning'
<1>1. Shrinks
  BY DoesShrink
<1>. SUFFICES ASSUME m'.pc # "idle"
     PROVE  /\ \A i \in Move \ m'.plan : Gone(i)' \/ ~Finds(i)'
            /\ \A s \in Source : Present(s)' /\ s.of \notin Cluster \ WithInfrastructure
                 => \E i \in m'.plan : Moves[i].from = s
  BY DEF Planning
<1>2. /\ \A i \in Move \ m'.plan : Gone(i) \/ ~Finds(i)
      /\ \A s \in Source : Present(s) /\ s.of \notin Cluster \ WithInfrastructure
           => \E i \in m'.plan : Moves[i].from = s
  <2>1. CASE Starts
    BY <2>1, PlannedIs DEF Starts
  <2>2. CASE ~Starts
    BY <2>2, PlanStays DEF Planning
  <2>. QED
    BY <2>1, <2>2
<1>3. \A s \in Source : Present(s)' => Present(s)
  BY <1>1 DEF Shrinks, Present
<1>4. \A i \in Move : Gone(i) => Gone(i)'
  BY <1>1, MovesAreTyped DEF Shrinks, Gone
<1>. QED
  BY <1>1, <1>2, <1>3, <1>4, FindsLess

(* The source of a move that has been made is gone.                        *)
LEMMA DoesPassed ==
  ASSUME Typed, Passed, Does
  PROVE  Passed'
<1>1. Shrinks
  BY DoesShrink
<1>2. \A i \in Move : Gone(i) => Gone(i)'
  BY <1>1, MovesAreTyped DEF Shrinks, Gone
<1>. SUFFICES ASSUME m'.pc # "idle", NEW i \in m'.plan, i < m'.k \/ m'.pc = "done"
     PROVE  Gone(i)'
  BY DEF Passed
<1>3. m' \in Migration /\ i \in Move /\ i \in Nat
  BY StillInProgress
<1>4. CASE Starts
  <2>1. m'.k <= i /\ m'.pc # "done" /\ m'.k \in Nat
    BY <1>3, <1>4, MovesAreTyped DEF Starts, Migration
  <2>. QED
    BY <1>3, <2>1
<1>5. CASE Goes /\ SrcAt("absent") /\ m.pc # "idle"
  <2>1. m \in Migration /\ m.k \in Nat /\ m'.k \in Nat /\ From \in Source
        /\ From = Moves[m.k].from
    BY <1>3, <1>5, AtAMove, MovesAreTyped DEF Migration
  <2>2. i \in m.plan /\ i <= m.k
    BY <1>3, <1>5, <2>1 DEF Goes
  <2>3. CASE i = m.k
    BY <1>5, <2>1, <2>3 DEF SrcAt, Gone, Typed
  <2>4. CASE i < m.k
    BY <1>2, <1>3, <1>5, <2>2, <2>4 DEF Passed
  <2>. QED
    BY <1>3, <2>1, <2>2, <2>3, <2>4
<1>6. CASE Same(m)
  BY <1>2, <1>3, <1>6 DEF Same, Passed
<1>7. ASSUME NEW stage \in {"move", "copy", "remove", "failed"}, Stays(stage), m.pc # "idle"
      PROVE  Gone(i)'
  BY <1>2, <1>3, <1>7 DEF Stays, Passed
<1>8. m' # Idle
  BY DEF Idle
<1>. QED
  BY <1>4, <1>5, <1>6, <1>7, <1>8 DEF Does, Clears, Renames, Copies, Removes, Leaves

(* What the plan takes has not been taken before its turn.                 *)
LEMMA DoesTaken ==
  ASSUME Typed, Taken, Does
  PROVE  Taken'
<1>1. Shrinks
  BY DoesShrink
<1>. SUFFICES ASSUME AtWork', NEW i \in m'.plan, Gone(i)'
     PROVE  \E j \in m'.plan : Moves[j].from = Moves[i].from /\ j < m'.k
  BY DEF Taken
<1>2. m'.pc # "idle"
  BY DEF AtWork
<1>3. m' \in Migration /\ m'.k \in Nat /\ i \in Move /\ m'.plan \subseteq Nat
  BY <1>2, StillInProgress
<1>4. CASE Starts
  BY <1>3, <1>4 DEF Starts, Planned, Present, Same, Gone
<1>5. CASE Goes /\ SrcAt("absent") /\ AtWork
  <2>1. m.k \in Nat /\ m.k \in m.plan /\ From \in Source /\ From = Moves[m.k].from
        /\ m.plan \subseteq Nat
    BY <1>5, AtAMove, MovesAreTyped DEF AtWork, Migration
  <2>2. m'.plan = m.plan /\ m.k < m'.k
    BY <1>3, <1>5, <2>1 DEF Goes, AtWork
  <2>3. CASE Moves[i].from = From
    BY <2>1, <2>2, <2>3
  <2>4. CASE Moves[i].from # From
    <3>1. Gone(i)
      BY <1>3, <1>5, <2>1, <2>4, MovesAreTyped DEF SrcAt, Gone, Typed
    <3>2. PICK j \in m.plan : Moves[j].from = Moves[i].from /\ j < m.k
      BY <1>5, <2>2, <3>1 DEF Taken
    <3>. QED
      BY <1>3, <2>1, <2>2, <3>2
  <2>. QED
    BY <2>3, <2>4
<1>6. ASSUME Same(src) \/ (SrcAt("part") /\ From \in Source), AtWork,
             m'.plan = m.plan, m'.k = m.k
      PROVE  \E j \in m'.plan : Moves[j].from = Moves[i].from /\ j < m'.k
  <2>1. Gone(i)
    BY <1>3, <1>6, MovesAreTyped DEF Same, SrcAt, Gone, Typed
  <2>. QED
    BY <1>6, <2>1 DEF Taken
<1>7. CASE Clears \/ Copies
  BY <1>6, <1>7 DEF Clears, Copies, Stays, Same, AtWork
<1>8. CASE Renames
  BY <1>5, <1>8 DEF Renames, AtWork
<1>9. CASE Removes
  <2>1. From \in Source
    BY <1>9, AtAMove DEF Removes
  <2>. QED
    BY <1>5, <1>6, <1>9, <2>1 DEF Removes, Same, AtWork
<1>10. CASE Leaves
  BY <1>2, <1>6, <1>10 DEF Leaves, Stays, Same, AtWork, Idle
<1>. QED
  BY <1>4, <1>7, <1>8, <1>9, <1>10 DEF Does

(* .git goes before infrastructure.                                        *)
LEMMA DoesInfraLast ==
  ASSUME Typed, Planning, Passed, InfraLast, Does
  PROVE  InfraLast'
<1>1. Shrinks
  BY DoesShrink
<1>. SUFFICES ASSUME WithInfrastructure # {}, src'[Infra] # "whole"
     PROVE  src'[Git] = "absent"
  BY DEF InfraLast
<1>2. CASE src[Infra] # "whole"
  BY <1>1, <1>2, MovesAreTyped DEF InfraLast, Shrinks
<1>3. CASE src[Infra] = "whole"
  <2>1. m.pc # "idle" /\ From = Infra
    BY <1>3, MovesAreTyped
       DEF Does, Starts, Clears, Renames, Copies, Removes, Leaves, Same, SrcAt, Typed
  <2>2. m.k \in m.plan /\ m.k \in Move /\ Moves[m.k].from = Infra /\ m.plan \subseteq Move
    BY <2>1, AtAMove DEF Migration
  <2>3. src[Git] = "absent"
    <3>. SUFFICES ASSUME Present(Git) PROVE FALSE
      BY DEF Present
    <3>1. Git.of \notin Cluster \ WithInfrastructure
      BY LayoutConstants DEF Git
    <3>2. PICK i \in m.plan : Moves[i].from = Git
      BY <2>1, <3>1, MovesAreTyped DEF Planning
    <3>3. i < m.k
      BY <2>2, <3>2, LayoutConstants
    <3>. QED
      BY <2>1, <3>2, <3>3 DEF Passed, Gone, Present
  <2>. QED
    BY <1>1, <2>3, MovesAreTyped DEF Shrinks
<1>. QED
  BY <1>2, <1>3

(* Only the destination of the current move changes, and it gets no more   *)
(* than the source has.                                                    *)
LEMMA OnlyTo ==
  ASSUME Typed, Does
  PROVE  \A i \in Move :
           \/ dst'[Moves[i].to] = dst[Moves[i].to]
           \/ /\ AtWork /\ i = m.k
              /\ dst'[Moves[i].to] # "theirs"
              /\ \/ m.pc = "clear"
                 \/ Present(From) /\ m.pc \in {"move", "copy"}
<1>. SUFFICES ASSUME NEW i \in Move, dst'[Moves[i].to] # dst[Moves[i].to]
     PROVE  /\ AtWork /\ i = m.k
            /\ dst'[Moves[i].to] # "theirs"
            /\ \/ m.pc = "clear"
               \/ Present(From) /\ m.pc \in {"move", "copy"}
  OBVIOUS
<1>1. Clears \/ Renames \/ Copies
  BY DEF Does, Starts, Removes, Leaves, Same
<1>2. AtWork /\ m.pc # "idle"
  BY <1>1 DEF Clears, Renames, Copies, AtWork
<1>3. PICK x \in Piece \ {"theirs"} : DstAt(x)
  <2>1. src[From] \in Piece \ {"theirs"}
    BY <1>2, AtAMove DEF Piece
  <2>2. "absent" \in Piece \ {"theirs"} /\ "part" \in Piece \ {"theirs"}
    BY DEF Piece
  <2>3. ~Same(dst)
    BY DEF Same
  <2>. QED
    BY <1>1, <2>1, <2>2 DEF Clears, Renames, Copies
<1>4. Moves[i].to \in Zone /\ dst \in [Zone -> Piece] /\ To = Moves[m.k].to /\ m.k \in Move
  BY <1>2, AtAMove, MovesAreTyped DEF Typed
<1>5. Moves[i].to = To /\ dst'[Moves[i].to] = x
  BY <1>3, <1>4 DEF DstAt
<1>6. i = m.k
  BY <1>4, <1>5, LayoutConstants DEF Move
<1>. QED
  BY <1>1, <1>2, <1>3, <1>5, <1>6 DEF Clears, Renames, Copies

(* A move is made for the first of its source that can be planned.         *)
LEMMA DoesSettled ==
  ASSUME Typed, Planning, Passed, Settled, Does
  PROVE  Settled'
<1>1. Shrinks
  BY DoesShrink
<1>. SUFFICES ASSUME NEW i \in Move, NEW j \in Move, Rivals(j, i),
                     dst'[Moves[i].to] \in {"whole", "part"}
     PROVE  ~Finds(j)' /\ (m'.pc # "idle" => j \notin m'.plan)
  BY DEF Settled
<1>2. ~Finds(j) /\ (m.pc # "idle" => j \notin m.plan)
  <2>1. CASE dst'[Moves[i].to] = dst[Moves[i].to]
    BY <2>1 DEF Settled
  <2>2. CASE AtWork /\ i = m.k /\ Present(From) /\ m.pc \in {"move", "copy"}
    <3>1. m.pc # "idle" /\ Moves[j].from = From /\ j < m.k
      BY <2>2, AtAMove DEF AtWork, Rivals
    <3>2. ~Gone(j)
      BY <2>2, <3>1 DEF Gone, Present
    <3>3. j \notin m.plan
      BY <3>1, <3>2 DEF Passed
    <3>. QED
      BY <3>1, <3>2, <3>3 DEF Planning
  <2>3. CASE m.pc = "clear" /\ i = m.k /\ dst'[Moves[i].to] # dst[Moves[i].to]
    <3>1. To = Moves[i].to /\ To \in Zone /\ dst \in [Zone -> Piece]
      BY <2>3, AtAMove DEF Typed
    <3>2. dst[To] = "whole"
      BY <2>3, <3>1
         DEF Does, Starts, Clears, Renames, Copies, Removes, Leaves, Same, DstAt
    <3>. QED
      BY <3>1, <3>2 DEF Settled
  <2>. QED
    BY <2>1, <2>2, <2>3, OnlyTo
<1>3. ~Finds(j)'
  BY <1>1, <1>2, FindsLess
<1>4. ASSUME m'.pc # "idle" PROVE j \notin m'.plan
  <2>1. CASE Starts
    BY <1>2, <2>1 DEF Starts, Planned
  <2>2. CASE ~Starts
    BY <1>2, <1>4, <2>2, PlanStays
  <2>. QED
    BY <2>1, <2>2
<1>. QED
  BY <1>3, <1>4

(* What is not to be overwritten is not planned over, unless it came after *)
(* the plan was made.                                                      *)
LEMMA DoesUnforced ==
  ASSUME Typed, Unforced, Does
  PROVE  Unforced'
<1>. SUFFICES ASSUME m'.pc # "idle", ~m'.force, NEW i \in m'.plan,
                     dst'[Moves[i].to] = "theirs"
     PROVE  Moves[i].to \in late'
  BY DEF Unforced
<1>1. dst[Moves[i].to] = "theirs"
  BY StillInProgress, OnlyTo
<1>2. CASE Starts
  BY <1>1, <1>2 DEF Starts, Free
<1>3. CASE ~Starts
  <2>1. late' = late
    BY <1>3 DEF Does, Clears, Renames, Copies, Removes, Leaves, Same
  <2>. QED
    BY <1>1, <1>3, <2>1, PlanStays DEF Unforced
<1>. QED
  BY <1>2, <1>3

(* The destination is free when the move is made.                          *)
LEMMA DoesTarget ==
  ASSUME Typed, Target, Does
  PROVE  Target'
<1>1. CASE m'.pc = "idle"
  BY <1>1 DEF Target, AtWork
<1>2. CASE Starts
  <2>1. m' \in Migration /\ m'.k \in Planned
    BY <1>2 DEF Starts
  <2>2. ~m'.force => \A i \in m'.plan : dst'[Moves[i].to] \in Untouched
    BY <1>2 DEF Starts, Free, Same, Untouched
  <2>3. m'.pc = (IF m'.force THEN "clear" ELSE "move") /\ m'.k \in m'.plan
    BY <1>2 DEF Starts
  <2>4. m'.pc # "copy" /\ m'.pc # "remove" /\ (m'.pc = "clear" => m'.force)
        /\ (m'.pc = "move" => ~m'.force)
    BY <2>3
  <2>. QED
    BY <2>2, <2>3, <2>4 DEF Target, To
<1>3. ASSUME m.pc # "idle", Goes, AtWork PROVE Target'
  <2>1. m \in Migration /\ m.k \in Nat /\ m'.k \in Nat /\ m.plan \subseteq Move
        /\ m.plan \subseteq Nat /\ m'.plan = m.plan /\ m'.force = m.force
    BY <1>3, AtAMove, StillInProgress, MovesAreTyped DEF Goes, Migration
  <2>2. CASE m'.pc = "done"
    BY <2>2 DEF Target, AtWork
  <2>3. CASE m'.pc # "done"
    <3>1. m'.pc = (IF m.force THEN "clear" ELSE "move") /\ m'.k > m.k /\ m'.k \in m.plan
      BY <1>3, <2>3 DEF Goes
    <3>2. ASSUME ~m.force, NEW i \in m.plan, i > m.k
          PROVE  dst'[Moves[i].to] \in Untouched
      <4>1. dst[Moves[i].to] \in Untouched
        BY <1>3, <3>2 DEF Target
      <4>2. i # m.k
        BY <2>1, <3>2
      <4>. QED
        BY <2>1, <3>2, <4>1, <4>2, OnlyTo
    <3>3. m'.pc # "copy" /\ m'.pc # "remove" /\ (m'.pc = "clear" => m'.force)
          /\ (m'.pc = "move" => ~m'.force)
      BY <2>1, <3>1
    <3>4. m'.pc = "move" => dst'[To'] \in Untouched
      BY <2>1, <3>1, <3>2, <3>3 DEF To
    <3>5. ~m'.force => \A i \in m'.plan : i > m'.k => dst'[Moves[i].to] \in Untouched
      <4>1. \A i \in m.plan : i > m'.k => i > m.k
        BY <2>1, <3>1
      <4>. QED
        BY <2>1, <3>2, <4>1
    <3>. QED
      BY <3>3, <3>4, <3>5 DEF Target
  <2>. QED
    BY <2>2, <2>3
<1>4. ASSUME NEW stage \in {"move", "copy", "remove", "failed"}, AtWork, Stays(stage) \/ Same(m),
             stage = "move" => dst'[To] \in Untouched,
             stage = "copy" => dst'[To] = "part",
             stage = "remove" => (src'[From] = "whole" => dst'[To] = "whole"),
             Same(m) => m.pc \in {"clear", stage}
      PROVE  Target'
  <2>1. m.pc # "idle" /\ m \in Migration /\ m.k \in Nat /\ m.plan \subseteq Move
        /\ m.plan \subseteq Nat
    BY <1>4, AtAMove, MovesAreTyped DEF AtWork, Migration
  <2>2. m'.plan = m.plan /\ m'.force = m.force /\ m'.k = m.k /\ m'.pc \in {m.pc, stage}
    BY <1>4 DEF Stays, Same
  <2>3. To' = To /\ From' = From
    BY <2>2 DEF To, From
  <2>4. ~m.force => \A i \in m.plan : i > m.k => dst'[Moves[i].to] \in Untouched
    <3>1. ASSUME ~m.force, NEW i \in m.plan, i > m.k PROVE dst'[Moves[i].to] \in Untouched
      <4>1. dst[Moves[i].to] \in Untouched
        BY <1>4, <3>1 DEF Target
      <4>. QED
        BY <2>1, <3>1, <4>1, OnlyTo
    <3>. QED
      BY <3>1
  <2>5. m'.pc = "clear" => m'.force
    BY <1>4, <2>2 DEF Target
  <2>6. m'.pc \in {"clear", stage}
    BY <1>4 DEF Stays, Same
  <2>. QED
    BY <1>4, <2>2, <2>3, <2>4, <2>5, <2>6 DEF Target
<1>5. CASE Clears
  <2>1. AtWork /\ To \in Zone /\ dst \in [Zone -> Piece]
    BY <1>5, AtAMove DEF Clears, AtWork, Typed
  <2>2. CASE DstAt("absent") /\ Stays("move")
    <3>1. dst'[To] \in Untouched
      BY <2>1, <2>2 DEF DstAt, Untouched
    <3>. QED
      BY <1>4, <1>5, <2>1, <2>2, <3>1 DEF Clears, Stays, Same
  <2>3. CASE Same(m)
    BY <1>4, <1>5, <2>1, <2>3 DEF Clears, Same
  <2>. QED
    BY <1>5, <2>2, <2>3 DEF Clears
<1>6. CASE Renames
  BY <1>3, <1>6 DEF Renames, AtWork
<1>7. CASE Copies
  <2>1. AtWork /\ To \in Zone /\ dst \in [Zone -> Piece]
    BY <1>7, AtAMove DEF Copies, AtWork, Typed
  <2>2. CASE m.pc = "move" /\ DstAt("part") /\ Stays("copy")
    BY <1>4, <2>1, <2>2 DEF DstAt, Stays, Same
  <2>3. CASE m.pc = "copy" /\ DstAt(src[From]) /\ Stays("remove")
    <3>1. src'[From] = dst'[To]
      BY <1>7, <2>1, <2>3 DEF DstAt, Copies, Same
    <3>. QED
      BY <1>4, <2>1, <2>3, <3>1 DEF Stays, Same
  <2>. QED
    BY <1>7, <2>2, <2>3 DEF Copies
<1>8. CASE Removes
  <2>1. AtWork /\ m.pc # "idle" /\ From \in Source /\ src \in [Source -> Piece \ {"theirs"}]
    BY <1>8, AtAMove DEF Removes, AtWork, Typed
  <2>2. CASE Goes
    BY <1>3, <2>1, <2>2
  <2>3. CASE SrcAt("part") /\ Same(m)
    <3>1. src'[From] = "part"
      BY <2>1, <2>3 DEF SrcAt
    <3>. QED
      BY <1>4, <1>8, <2>1, <2>3, <3>1 DEF Removes, Same
  <2>. QED
    BY <1>8, <2>2, <2>3 DEF Removes
<1>9. CASE Leaves
  <2>1. CASE m' = Idle
    BY <1>1, <2>1 DEF Idle
  <2>2. CASE m.pc = "move" /\ Stays("failed")
    BY <1>4, <2>2 DEF AtWork, Stays, Same
  <2>3. CASE Same(m)
    BY <1>9, <2>3 DEF Leaves, Same, Target, AtWork, To, From
  <2>. QED
    BY <1>9, <2>1, <2>2, <2>3 DEF Leaves
<1>. QED
  BY <1>2, <1>5, <1>6, <1>7, <1>8, <1>9 DEF Does

(* What somebody else puts into a free place disturbs nothing.             *)
LEMMA FillsIs ==
  ASSUME Typed, Fills
  PROVE  /\ src' = src /\ m' = m /\ late \subseteq late'
         /\ \A d \in Zone : \/ dst'[d] = dst[d]
                            \/ dst[d] = "absent" /\ dst'[d] = "theirs" /\ d \in late'
BY DEF Typed, Fills, Same

LEMMA FillsKeeps ==
  ASSUME LayoutInv, Fills
  PROVE  LayoutInv'
<1>1. /\ src' = src /\ m' = m /\ late \subseteq late'
      /\ \A d \in Zone : \/ dst'[d] = dst[d]
                         \/ dst[d] = "absent" /\ dst'[d] = "theirs" /\ d \in late'
  BY FillsIs DEF LayoutInv
<1>2. Typed'
  BY DEF LayoutInv, Typed, Fills, Same, Piece
<1>3. Planning' /\ Passed' /\ Taken' /\ InfraLast'
  BY <1>1 DEF LayoutInv, Planning, Passed, Taken, InfraLast, Gone, Finds, Found, Present,
              AtWork
<1>4. \A i \in Move : Finds(i)' <=> Finds(i)
  BY <1>1 DEF Finds, Found, Present
<1>5. Settled'
  BY <1>1, <1>4, MovesAreTyped DEF LayoutInv, Settled
<1>6. Target'
  <2>1. m.pc # "idle" => To \in Zone /\ \A i \in m.plan : Moves[i].to \in Zone
    BY AtAMove, MovesAreTyped DEF LayoutInv, Migration
  <2>2. To' = To /\ From' = From
    BY <1>1 DEF To, From
  <2>. QED
    BY <1>1, <2>1, <2>2 DEF LayoutInv, Target, Untouched, AtWork
<1>7. Unforced'
  <2>1. m.pc # "idle" => \A i \in m.plan : Moves[i].to \in Zone
    BY AtAMove, MovesAreTyped DEF LayoutInv, Migration
  <2>. QED
    BY <1>1, <2>1 DEF LayoutInv, Unforced
<1>. QED
  BY <1>2, <1>3, <1>5, <1>6, <1>7 DEF LayoutInv

-----------------------------------------------------------------------------
(* The inductive invariant.                                                *)

LEMMA InitLayoutInv == LayoutInit => LayoutInv
<1>. SUFFICES ASSUME LayoutInit PROVE LayoutInv
  OBVIOUS
<1>1. m = Idle /\ m.pc = "idle"
  BY DEF LayoutInit, Idle
<1>2. PICK lacking \in SUBSET Optional :
        src = [s \in Source |-> IF s \in lacking THEN "absent" ELSE "whole"]
  BY DEF LayoutInit
<1>3. Typed
  BY <1>1, <1>2 DEF LayoutInit, Typed, Piece
<1>4. WithInfrastructure # {} => src[Infra] = "whole"
  BY <1>2, LayoutConstants
<1>5. \A i \in Move : dst[Moves[i].to] \in {"absent", "theirs"}
  BY MovesAreTyped DEF LayoutInit
<1>. QED
  BY <1>1, <1>3, <1>4, <1>5
     DEF LayoutInv, Planning, Passed, Taken, InfraLast, Settled, Target, Unforced, AtWork

LEMMA NextLayoutInv == LayoutInv /\ [LayoutNext]_layoutVars => LayoutInv'
<1>. SUFFICES ASSUME LayoutInv, [LayoutNext]_layoutVars PROVE LayoutInv'
  OBVIOUS
<1>1. CASE Does
  BY <1>1, DoesTyped, DoesPlanning, DoesPassed, DoesTaken, DoesInfraLast, DoesSettled,
     DoesTarget, DoesUnforced
     DEF LayoutInv
<1>. QED
  BY <1>1, NextDoes, FillsKeeps DEF LayoutInv

LEMMA LayoutInvariant == LayoutSpec => []LayoutInv
BY InitLayoutInv, NextLayoutInv, PTL DEF LayoutSpec

(* Every variable of the migration has its type, and the current move is   *)
(* one of the plan.                                                        *)
THEOREM LayoutTypeCorrect == LayoutSpec => []LayoutTypeOK
<1>1. LayoutInv => LayoutTypeOK
  BY DEF LayoutInv, Typed, Migration, Idle, LayoutTypeOK
<1>. QED
  BY <1>1, LayoutInvariant, PTL

(* A migration that reports success has left nothing behind but what       *)
(* belongs to a cluster it could not find.                                 *)
THEOREM SuccessLeavesNothing == LayoutSpec => []SuccessIsComplete
<1>1. LayoutInv => SuccessIsComplete
  <2>. SUFFICES ASSUME LayoutInv, m.pc = "done", NEW s \in Source,
                       Present(s), s.of \notin Cluster \ WithInfrastructure
       PROVE  FALSE
    BY DEF SuccessIsComplete, Present
  <2>1. PICK i \in m.plan : Moves[i].from = s
    BY DEF LayoutInv, Planning
  <2>. QED
    BY <2>1 DEF LayoutInv, Passed, Gone, Present
<1>. QED
  BY <1>1, LayoutInvariant, PTL

(* What others put into the zones is overwritten with --force only, unless *)
(* it came while a migration was under way.                                *)
THEOREM TheirsStay == LayoutSpec => TheirsAreKept
<1>1. LayoutInv /\ [LayoutNext]_layoutVars =>
        \A d \in Zone : dst[d] = "theirs" /\ dst'[d] # "theirs" => m.force \/ d \in late
  <2>. SUFFICES ASSUME LayoutInv, [LayoutNext]_layoutVars, NEW d \in Zone,
                       dst[d] = "theirs", dst'[d] # "theirs"
       PROVE  m.force \/ d \in late
    OBVIOUS
  <2>1. Does
    <3>1. ~Fills
      BY FillsIs DEF LayoutInv
    <3>. QED
      BY <3>1, NextDoes DEF LayoutInv
  <2>2. PICK i \in Move : d = Moves[i].to
    BY DEF Zone
  <2>3. AtWork /\ i = m.k
    BY <2>1, <2>2, OnlyTo DEF LayoutInv
  <2>. QED
    BY <2>2, <2>3 DEF LayoutInv, Typed, Unforced, AtWork
<1>. QED
  BY <1>1, LayoutInvariant, PTL DEF LayoutSpec, TheirsAreKept

-----------------------------------------------------------------------------
(* Nothing is lost.                                                        *)

(* A whole copy in the zone that --force takes is a copy of a source that  *)
(* is still there: no other planned move could have taken it.              *)
LEMMA ClearedIsPresent ==
  ASSUME LayoutInv, AtWork, dst[To] = "whole"
  PROVE  Present(From)
<1>1. m.pc # "idle" /\ m \in Migration /\ m.k \in m.plan /\ m.k \in Move
      /\ From = Moves[m.k].from /\ To = Moves[m.k].to /\ m.plan \subseteq Move
  BY AtAMove DEF LayoutInv, AtWork, Migration
<1>. SUFFICES ASSUME Gone(m.k) PROVE FALSE
  BY <1>1 DEF Gone, Present
<1>2. PICK j \in m.plan : Moves[j].from = From /\ j < m.k
  BY <1>1 DEF LayoutInv, Taken
<1>3. Rivals(j, m.k) /\ j \in Move
  BY <1>1, <1>2 DEF Rivals
<1>. QED
  BY <1>1, <1>2, <1>3 DEF LayoutInv, Settled

(* A step away from the current destination takes no copy.                 *)
LEMMA OtherCopiesStay ==
  ASSUME LayoutInv, Does, NEW s \in Source, InZone(s), ~InZone(s)'
  PROVE  AtWork /\ s = From /\ dst[To] = "whole" /\ dst'[To] # "whole"
<1>1. PICK i \in Move : Moves[i].from = s /\ dst[Moves[i].to] = "whole"
  BY DEF InZone
<1>2. dst'[Moves[i].to] # "whole"
  BY <1>1 DEF InZone
<1>3. AtWork /\ i = m.k
  BY <1>1, <1>2, OnlyTo DEF LayoutInv
<1>. QED
  BY <1>1, <1>2, <1>3 DEF From, To

LEMMA StepLosesNothing ==
  ASSUME LayoutInv, Does, NEW s \in Source, Whole(s)
  PROVE  Whole(s)' \/ (m.force /\ src[s] = "part")
<1>. SUFFICES ASSUME ~Whole(s)' PROVE m.force /\ src[s] = "part"
  OBVIOUS
<1>1. src'[s] # "whole" /\ ~InZone(s)'
  BY DEF Whole
<1>2. CASE src[s] = "whole"
  <2>1. AtWork /\ From = s /\ (Renames \/ Removes)
    BY <1>1, <1>2 DEF LayoutInv, Does, Starts, Clears, Renames, Copies, Removes, Leaves,
       Same, SrcAt, Typed, AtWork
  <2>2. m.k \in Move /\ To = Moves[m.k].to /\ From = Moves[m.k].from /\ To \in Zone
        /\ dst \in [Zone -> Piece]
    BY <2>1, AtAMove DEF AtWork, LayoutInv, Typed
  <2>3. dst'[To] = "whole"
    <3>1. CASE Renames
      BY <1>2, <2>1, <2>2, <3>1 DEF Renames, DstAt
    <3>2. CASE Removes
      BY <1>2, <2>1, <3>2 DEF Removes, Same, LayoutInv, Target
    <3>. QED
      BY <2>1, <3>1, <3>2
  <2>. QED
    BY <1>1, <2>1, <2>2, <2>3 DEF InZone
<1>3. CASE src[s] # "whole"
  <2>1. InZone(s)
    BY <1>3 DEF Whole
  <2>2. AtWork /\ s = From /\ dst[To] = "whole" /\ dst'[To] # "whole"
    BY <1>1, <2>1, OtherCopiesStay
  <2>3. m.pc \notin {"move", "copy"}
    BY <2>2 DEF LayoutInv, Target, Untouched
  <2>4. Present(From)
    BY <2>2, ClearedIsPresent
  <2>5. m.pc = "clear"
    BY <2>2, <2>3 DEF Does, Starts, Renames, Copies, Removes, Leaves, Same, AtWork, Clears
  <2>6. src[From] \in {"absent", "part", "whole"}
    BY <2>2, AtAMove DEF AtWork, LayoutInv
  <2>. QED
    BY <1>3, <2>2, <2>4, <2>5, <2>6 DEF LayoutInv, Target, Present
<1>. QED
  BY <1>2, <1>3

(* Wherever a migration stops and however often it is started again, every *)
(* file is whole somewhere, unless --force takes a source of which an      *)
(* interrupted removal left a part.                                        *)
THEOREM MigrationLosesNothing == LayoutSpec => NothingLost
<1>1. LayoutInv /\ [LayoutNext]_layoutVars =>
        \A s \in Source : Whole(s) => Whole(s)' \/ (m.force /\ src[s] = "part")
  <2>. SUFFICES ASSUME LayoutInv, [LayoutNext]_layoutVars, NEW s \in Source, Whole(s)
       PROVE  Whole(s)' \/ (m.force /\ src[s] = "part")
    OBVIOUS
  <2>1. CASE Fills
    <3>1. src' = src /\ \A d \in Zone : dst[d] = "whole" => dst'[d] = "whole"
      BY <2>1, FillsIs DEF LayoutInv
    <3>. QED
      BY <3>1, MovesAreTyped DEF Whole, InZone
  <2>. QED
    BY <2>1, NextDoes, StepLosesNothing DEF LayoutInv
<1>. QED
  BY <1>1, LayoutInvariant, PTL DEF LayoutSpec, NothingLost
=============================================================================
