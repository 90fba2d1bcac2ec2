--------------------------- MODULE SecretsSyncProofs ---------------------------
(***************************************************************************)
(* For any commands, manifests, configurations and number of faults: a     *)
(* sync owns exactly what it recorded, keeps what is somebody else's,      *)
(* stays within its filter, and tells the truth when it reports no error.  *)
(*                                                                         *)
(* The invariant follows one sync through its phases.  The mutations that  *)
(* are still to be recorded or undone touch each manifest once, and for    *)
(* each of them the manifest is as the sync left it and its snapshot is    *)
(* what the state file still says; every other manifest is as recorded.    *)
(* Base, Users, Owned and Truthful are its four parts: Base is inductive   *)
(* by itself, each of the others together with Base.                       *)
(***************************************************************************)
EXTENDS SecretsSync, TLAPS

Writing   == {"kept", "writing", "written"}
Working   == {"artifacts", "pruning", "unpruning", "saving", "undoing"} \cup Writing
Locked    == {"loading", "releasing"} \cup Working
Phases    == {"idle", "waiting"} \cup Locked

Entries == [path : Path, before : Contents, after : 0..MaxId]

Records == [Path -> 0..MaxId]

Runs ==
  [pc : Phases, version : 0..Len(Plans), only : SUBSET Path,
   force : BOOLEAN, errors : BOOLEAN, todo : SUBSET Path, cur : SUBSET Path,
   before : Contents, prev : Records, made : Records,
   journal : Seq(Entries), undo : Seq(Entries)]

Typed ==
  /\ version \in 1..Len(Plans)
  /\ file \in [Path -> Contents]
  /\ owner \in Records
  /\ lock \in Process \cup {Nobody}
  /\ faults \subseteq Faults
  /\ run \in [Process -> Runs]

(* Every manifest is mutated once.                                         *)
Once(s) == \A i, j \in 1..Len(s) : s[i].path = s[j].path => i = j

Mutations(r) == Range(r.journal) \cup Range(r.undo)

(* What a sync has in hand, phase by phase.                                *)
Shape(p) ==
  /\ run[p].pc \in Locked <=> lock = p
  /\ run[p].pc # "idle" => run[p].version \in 1..Len(Plans)
  /\ run[p].todo \subseteq run[p].only /\ run[p].cur \subseteq run[p].only
  /\ run[p].pc \in {"idle", "waiting", "loading"} =>
       /\ run[p].todo = {} /\ run[p].cur = {}
       /\ run[p].made = [q \in Path |-> None]
       /\ run[p].journal = <<>> /\ run[p].undo = <<>>
  /\ run[p].pc \in Working => run[p].prev = owner
  /\ run[p].pc \in {"artifacts", "pruning"} => run[p].cur = {}
  /\ run[p].pc \in Writing => \E q \in run[p].todo : run[p].cur = {q}
  /\ run[p].pc \in {"artifacts"} \cup Writing => run[p].todo \subseteq Planned(p)
  /\ run[p].pc \in {"pruning", "unpruning"} => run[p].todo \subseteq Stale(p)
  /\ run[p].pc \notin {"pruning", "unpruning", "undoing"} => run[p].undo = <<>>

(* The manifests that were mutated.                                        *)
Mutated(p) ==
  /\ \A q \in Path : run[p].made[q] # None => q \in Planned(p)
  /\ Once(run[p].journal) /\ Once(run[p].undo)
  /\ \A e \in Mutations(run[p]) : e.path \in run[p].only
  /\ run[p].pc \in {"artifacts"} \cup Writing =>
       \A e \in Range(run[p].journal) : e.path \in Planned(p) \ run[p].todo
  /\ run[p].pc \in {"pruning", "unpruning"} =>
       /\ \A e \in Range(run[p].journal) : e.path \in Planned(p)
       /\ \A e \in Range(run[p].undo) : e.path \in Stale(p) \ run[p].todo /\ e.after = None

(* What is somebody else's is not on record, and no sync has it in hand.   *)
UsersApart(p) ==
  /\ \A q \in Path : file[q].by = "user" =>
       /\ run[p].made[q] = None
       /\ \A e \in Mutations(run[p]) : e.path # q
       /\ run[p].pc \in Writing => q \notin run[p].cur
  /\ \A e \in Mutations(run[p]) : e.before.by # "user"
  /\ run[p].pc \in {"writing", "written"} => run[p].before.by # "user"

Users ==
  "race" \notin faults =>
    /\ \A q \in Path : file[q].by = "user" => There(file[q]) /\ owner[q] # file[q].hash
    /\ \A p \in Process : UsersApart(p)

(* What is still to be recorded or undone.                                 *)
Pending(r) == IF r.pc = "undoing" THEN Range(r.undo) ELSE Mutations(r)

AsRecorded == \A q \in Path : file[q].hash = owner[q]

(* The manifests between the recorded state and the one to be recorded:    *)
(* untouched, or as the mutation that is pending for them left them.       *)
Clear(p, q) ==
  /\ run[p].pc = "written" => q \notin run[p].cur
  /\ \A e \in Pending(run[p]) : e.path # q

Settled(p, q) ==
  /\ file[q].hash = run[p].prev[q]
  /\ run[p].pc # "undoing" => run[p].made[q] \in {None, file[q].hash}

Left(p, e) ==
  /\ e.before.hash = run[p].prev[e.path] /\ file[e.path].hash = e.after
  /\ run[p].pc # "undoing" => run[p].made[e.path] = e.after

Between(p) ==
  /\ run[p].pc \in {"loading", "releasing"} => AsRecorded
  /\ run[p].pc \in Working =>
       /\ \A q \in Path : Clear(p, q) => Settled(p, q)
       /\ \A e \in Pending(run[p]) : Left(p, e)
  /\ run[p].pc = "writing" => \A q \in run[p].cur : run[p].before = file[q]
  /\ run[p].pc = "written" => \A q \in run[p].cur :
       run[p].before.hash = run[p].prev[q] /\ There(file[q])

Owned ==
  faults \cap Stranding = {} =>
    /\ lock = Nobody => AsRecorded
    /\ \A p \in Process : Between(p)

(* What an errorless sync has reached.                                     *)
Kept(p, q) == Compares(p) => file[q].val = Plan(p)[q]
Gone(p, s) == \A q \in Stale(p) \ run[p].todo : \E e \in Range(s) : e.path = q /\ e.after = None

Reached(p) ==
  /\ run[p].pc \in {"unpruning", "undoing"} => run[p].errors
  /\ ~run[p].errors =>
       /\ run[p].pc \in {"artifacts", "pruning", "saving", "releasing"} \cup Writing =>
            \A q \in Planned(p) :
              q \notin run[p].todo \/ run[p].pc \notin {"artifacts"} \cup Writing
                => Kept(p, q)
       /\ run[p].pc \in {"kept", "written"} => \A q \in run[p].cur : Kept(p, q)
       /\ run[p].pc = "pruning" => Gone(p, run[p].undo)
       /\ run[p].pc = "saving" => \A q \in Stale(p) :
            \E e \in Range(run[p].journal) : e.path = q /\ e.after = None
       /\ run[p].pc = "releasing" => \A q \in run[p].only \ DOMAIN Plan(p) : owner[q] = None

Truthful == "race" \notin faults => \A p \in Process : Reached(p)

Base == Typed /\ \A p \in Process : Shape(p) /\ Mutated(p)

-----------------------------------------------------------------------------
(* Nothing is in the empty journal.                                        *)
LEMMA EmptyJournal == Range(<<>>) = {} /\ Once(<<>>)
BY DEF Range, Once

(* A journal with one more entry, or with the removals, has the entries of *)
(* both parts, and touches each manifest once if the parts do.             *)
LEMMA JournalGrows ==
  ASSUME NEW S, NEW s \in Seq(S), NEW t \in Seq(S)
  PROVE  /\ s \o t \in Seq(S)
         /\ Range(s \o t) = Range(s) \cup Range(t)
         /\ Once(s) /\ Once(t) /\ (\A d \in Range(s), e \in Range(t) : d.path # e.path)
              => Once(s \o t)
<1>. DEFINE u == s \o t
<1>1. /\ u \in Seq(S) /\ Len(u) = Len(s) + Len(t)
      /\ \A i \in 1..Len(s) : u[i] = s[i]
      /\ \A i \in 1..Len(t) : u[Len(s) + i] = t[i]
  OBVIOUS
<1>2. /\ Len(s) \in Nat /\ DOMAIN s = 1..Len(s) /\ Len(t) \in Nat /\ DOMAIN t = 1..Len(t)
      /\ DOMAIN u = 1..Len(u)
  BY <1>1
<1>3. \A i \in 1..Len(u) :
        \/ i \in 1..Len(s) /\ u[i] = s[i]
        \/ i - Len(s) \in 1..Len(t) /\ u[i] = t[i - Len(s)]
  <2>. SUFFICES ASSUME NEW i \in 1..Len(u), i \notin 1..Len(s)
                PROVE  i - Len(s) \in 1..Len(t) /\ u[i] = t[i - Len(s)]
    BY <1>1
  <2>1. i - Len(s) \in 1..Len(t) /\ Len(s) + (i - Len(s)) = i
    BY <1>1, <1>2
  <2>. QED
    BY <1>1, <2>1
<1>. HIDE DEF u
<1>4. Range(u) = Range(s) \cup Range(t)
  <2>1. Range(u) \subseteq Range(s) \cup Range(t)
    BY <1>2, <1>3 DEF Range
  <2>2. Range(s) \subseteq Range(u)
    BY <1>1, <1>2 DEF Range
  <2>3. Range(t) \subseteq Range(u)
    <3>1. \A i \in 1..Len(t) : Len(s) + i \in 1..Len(u)
      BY <1>1, <1>2
    <3>. QED
      BY <1>1, <1>2, <3>1 DEF Range
  <2>. QED
    BY <2>1, <2>2, <2>3
<1>5. ASSUME Once(s), Once(t), \A d \in Range(s), e \in Range(t) : d.path # e.path
      PROVE  Once(u)
  <2>. SUFFICES ASSUME NEW i \in 1..Len(u), NEW j \in 1..Len(u), u[i].path = u[j].path
                PROVE  i = j
    BY DEF Once
  <2>1. \A k \in 1..Len(s), l \in 1..Len(t) : s[k].path # t[l].path
    BY <1>2, <1>5 DEF Range
  <2>2. CASE i \in 1..Len(s) /\ u[i] = s[i] /\ j \in 1..Len(s) /\ u[j] = s[j]
    BY <1>5, <2>2 DEF Once
  <2>3. CASE /\ i - Len(s) \in 1..Len(t) /\ u[i] = t[i - Len(s)]
             /\ j - Len(s) \in 1..Len(t) /\ u[j] = t[j - Len(s)]
    <3>1. i - Len(s) = j - Len(s)
      BY <1>5, <2>3 DEF Once
    <3>. QED
      BY <1>1, <1>2, <3>1
  <2>. QED
    BY <1>3, <2>1, <2>2, <2>3
<1>. QED
  BY <1>1, <1>4, <1>5 DEF u

(* A journal to which nothing is added.                                    *)
LEMMA NothingAdded ==
  ASSUME NEW S, NEW s \in Seq(S)
  PROVE  s \o <<>> = s
OBVIOUS

(* One entry as a journal.                                                 *)
LEMMA OneEntry ==
  ASSUME NEW S, NEW e \in S
  PROVE  <<e>> \in Seq(S) /\ Range(<<e>>) = {e} /\ Once(<<e>>)
BY DEF Range, Once

(* A journal without its last entry.                                       *)
LEMMA JournalShrinks ==
  ASSUME NEW S, NEW s \in Seq(S), s # <<>>
  PROVE  /\ s[Len(s)] \in S /\ s[Len(s)] \in Range(s)
         /\ SubSeq(s, 1, Len(s) - 1) \in Seq(S)
         /\ Range(SubSeq(s, 1, Len(s) - 1)) \subseteq Range(s)
         /\ Range(s) \subseteq Range(SubSeq(s, 1, Len(s) - 1)) \cup {s[Len(s)]}
         /\ Once(s) => /\ Once(SubSeq(s, 1, Len(s) - 1))
                       /\ \A e \in Range(SubSeq(s, 1, Len(s) - 1)) : e.path # s[Len(s)].path
<1>. DEFINE t == SubSeq(s, 1, Len(s) - 1)
<1>1. Len(s) \in Nat \ {0} /\ DOMAIN s = 1..Len(s) /\ \A i \in 1..Len(s) : s[i] \in S
  OBVIOUS
<1>2. /\ t \in Seq(S) /\ Len(t) = Len(s) - 1 /\ DOMAIN t = 1..Len(t)
      /\ \A i \in 1..Len(t) : t[i] = s[i]
  BY <1>1
<1>3. /\ 1..Len(t) \subseteq 1..Len(s) /\ Len(s) \notin 1..Len(t)
      /\ 1..Len(s) = 1..Len(t) \cup {Len(s)}
  BY <1>1, <1>2
<1>. HIDE DEF t
<1>4. Range(t) \subseteq Range(s) /\ Range(s) \subseteq Range(t) \cup {s[Len(s)]}
  BY <1>1, <1>2, <1>3 DEF Range
<1>5. s[Len(s)] \in S /\ s[Len(s)] \in Range(s)
  BY <1>1 DEF Range
<1>6. ASSUME Once(s)
      PROVE  Once(t) /\ \A e \in Range(t) : e.path # s[Len(s)].path
  <2>1. Once(t)
    BY <1>2, <1>3, <1>6 DEF Once
  <2>2. \A i \in 1..Len(t) : t[i].path # s[Len(s)].path
    BY <1>1, <1>2, <1>3, <1>6 DEF Once
  <2>. QED
    BY <1>2, <2>1, <2>2 DEF Range
<1>. QED
  BY <1>2, <1>4, <1>5, <1>6 DEF t

-----------------------------------------------------------------------------
(* What each step does to the run of its command, field by field.          *)

Frame(p) ==
  /\ run' \in [Process -> Runs] /\ \A o \in Process \ {p} : run'[o] = run[o]

SameGoal(p)    ==
  /\ run'[p].version = run[p].version /\ run'[p].only = run[p].only
  /\ run'[p].force = run[p].force
SameRecords(p) == run'[p].prev = run[p].prev /\ run'[p].made = run[p].made
SameWork(p)    == run'[p].journal = run[p].journal /\ run'[p].undo = run[p].undo
SameHand(p)    ==
  /\ run'[p].todo = run[p].todo /\ run'[p].cur = run[p].cur /\ run'[p].before = run[p].before

Skipped(p, q) ==
  /\ Frame(p) /\ SameGoal(p) /\ SameRecords(p) /\ SameWork(p)
  /\ run'[p].pc = "artifacts" /\ run'[p].errors = TRUE
  /\ run'[p].todo = run[p].todo \ {q} /\ run'[p].cur = {}

Moved(p, pc) ==
  /\ Frame(p) /\ SameGoal(p) /\ SameRecords(p) /\ SameWork(p) /\ SameHand(p)
  /\ run'[p].pc = pc

(* The phases by name.                                                     *)
LEMMA PhasesAre ==
  /\ "idle" \in Phases /\ "waiting" \in Phases /\ "loading" \in Phases /\ "artifacts" \in Phases
  /\ "kept" \in Phases /\ "writing" \in Phases /\ "written" \in Phases /\ "pruning" \in Phases
  /\ "unpruning" \in Phases /\ "saving" \in Phases /\ "undoing" \in Phases
  /\ "releasing" \in Phases
<1>1. "kept" \in Writing /\ "writing" \in Writing /\ "written" \in Writing
  BY DEF Writing
<1>2. /\ Writing \subseteq Working /\ "artifacts" \in Working /\ "pruning" \in Working
      /\ "unpruning" \in Working /\ "saving" \in Working /\ "undoing" \in Working
  BY DEF Working
<1>3. Working \subseteq Locked /\ "loading" \in Locked /\ "releasing" \in Locked
  BY DEF Locked
<1>4. Locked \subseteq Phases /\ "idle" \in Phases /\ "waiting" \in Phases
  BY DEF Phases
<1>. QED
  BY <1>1, <1>2, <1>3, <1>4

(* No file is a content.                                                   *)
LEMMA AbsentIsContent ==
  /\ Absent \in Contents /\ ~There(Absent) /\ Absent.by = "nobody" /\ Absent.hash = None
  /\ None \in 0..MaxId
BY SyncConstants DEF SyncConstants, Absent, Contents, None, There

(* A command that does nothing.                                            *)
LEMMA IdleIs ==
  /\ Idle \in Runs /\ Idle.pc = "idle" /\ Idle.todo = {} /\ Idle.cur = {} /\ Idle.only = {}
  /\ Idle.made = [q \in Path |-> None] /\ Idle.journal = <<>> /\ Idle.undo = <<>>
<1>1. Len(Plans) \in Nat
  BY SyncConstants DEF SyncConstants
<1>2. [q \in Path |-> None] \in Records
  BY AbsentIsContent DEF Records
<1>. QED
  BY <1>1, <1>2, AbsentIsContent, PhasesAre DEF Idle, Runs

(* The fields of a run.                                                    *)
LEMMA RunIs ==
  ASSUME Typed, NEW p \in Process
  PROVE  /\ run[p] \in Runs
         /\ run[p].pc \in Phases /\ run[p].version \in 0..Len(Plans)
         /\ run[p].only \in SUBSET Path /\ run[p].todo \in SUBSET Path
         /\ run[p].cur \in SUBSET Path /\ run[p].before \in Contents
         /\ run[p].prev \in Records /\ run[p].made \in Records
         /\ run[p].journal \in Seq(Entries) /\ run[p].undo \in Seq(Entries)
BY DEF Typed, Runs

(* Only the command that takes the step changes its run.                   *)
LEMMA BecomesIs ==
  ASSUME Typed, NEW p \in Process, NEW r \in Runs, Becomes(p, r)
  PROVE  Frame(p) /\ run'[p] = r
BY DEF Typed, Becomes, Frame

(* Leaving a manifest with an error.                                       *)
LEMMA SkipIs ==
  ASSUME Typed, NEW p \in Process, NEW q, Skip(p, q)
  PROVE  Skipped(p, q)
<1>. DEFINE r == [run[p] EXCEPT !.pc = "artifacts", !.todo = run[p].todo \ {q}, !.cur = {},
                                !.before = Absent, !.errors = TRUE]
<1>1. r \in Runs
  BY RunIs, AbsentIsContent, PhasesAre DEF Runs
<1>2. /\ r.version = run[p].version /\ r.only = run[p].only
        /\ r.force = run[p].force
      /\ r.pc = "artifacts" /\ r.errors = TRUE /\ r.todo = run[p].todo \ {q} /\ r.cur = {}
      /\ r.prev = run[p].prev /\ r.made = run[p].made
      /\ r.journal = run[p].journal /\ r.undo = run[p].undo
  BY RunIs DEF Runs
<1>3. Becomes(p, r)
  BY DEF Skip
<1>. HIDE DEF r
<1>. QED
  BY <1>1, <1>2, <1>3, BecomesIs DEF Skipped, SameGoal, SameRecords, SameWork

(* Moving on.                                                              *)
LEMMA GotoIs ==
  ASSUME Typed, NEW p \in Process, NEW pc \in Phases, Goto(p, pc)
  PROVE  Moved(p, pc) /\ run'[p].errors = run[p].errors
<1>. DEFINE r == [run[p] EXCEPT !.pc = pc]
<1>1. r \in Runs
  BY RunIs DEF Runs
<1>2. /\ r.version = run[p].version /\ r.only = run[p].only
        /\ r.force = run[p].force /\ r.errors = run[p].errors
      /\ r.pc = pc /\ r.todo = run[p].todo /\ r.cur = run[p].cur /\ r.before = run[p].before
      /\ r.prev = run[p].prev /\ r.made = run[p].made
      /\ r.journal = run[p].journal /\ r.undo = run[p].undo
  BY RunIs DEF Runs
<1>3. Becomes(p, r)
  BY DEF Goto
<1>. HIDE DEF r
<1>. QED
  BY <1>1, <1>2, <1>3, BecomesIs DEF Moved, SameGoal, SameRecords, SameWork, SameHand

(* Moving on with an error.                                                *)
LEMMA FailIs ==
  ASSUME Typed, NEW p \in Process, NEW pc \in Phases,
         Becomes(p, [run[p] EXCEPT !.pc = pc, !.errors = TRUE])
  PROVE  Moved(p, pc) /\ run'[p].errors = TRUE
<1>. DEFINE r == [run[p] EXCEPT !.pc = pc, !.errors = TRUE]
<1>1. r \in Runs
  BY RunIs DEF Runs
<1>2. /\ r.version = run[p].version /\ r.only = run[p].only
        /\ r.force = run[p].force /\ r.errors = TRUE
      /\ r.pc = pc /\ r.todo = run[p].todo /\ r.cur = run[p].cur /\ r.before = run[p].before
      /\ r.prev = run[p].prev /\ r.made = run[p].made
      /\ r.journal = run[p].journal /\ r.undo = run[p].undo
  BY RunIs DEF Runs
<1>3. Becomes(p, r)
  OBVIOUS
<1>. HIDE DEF r
<1>. QED
  BY <1>1, <1>2, <1>3, BecomesIs DEF Moved, SameGoal, SameRecords, SameWork, SameHand

(* Reading the configuration.                                              *)
LEMMA BeginIs ==
  ASSUME Typed, NEW p \in Process, NEW only \in Filters, NEW force \in BOOLEAN,
         Begin(p, only, force)
  PROVE  /\ Frame(p) /\ SameRecords(p) /\ SameWork(p) /\ SameHand(p)
         /\ run[p].pc = "idle" /\ run'[p].pc = "waiting"
         /\ run'[p].version = version /\ run'[p].only = only /\ only \subseteq Path
<1>. DEFINE r == [run[p] EXCEPT !.pc = "waiting", !.version = version,
                                !.only = only, !.force = force]
<1>1. only \in SUBSET Path /\ version \in 0..Len(Plans)
  BY SyncConstants DEF SyncConstants, Typed
<1>2. r \in Runs
  BY <1>1, RunIs, PhasesAre DEF Runs
<1>3. /\ r.version = version /\ r.only = only
      /\ r.pc = "waiting" /\ r.todo = run[p].todo /\ r.cur = run[p].cur
      /\ r.before = run[p].before /\ r.prev = run[p].prev /\ r.made = run[p].made
      /\ r.journal = run[p].journal /\ r.undo = run[p].undo
  BY RunIs DEF Runs
<1>4. Becomes(p, r) /\ run[p].pc = "idle"
  BY DEF Begin, At
<1>. HIDE DEF r
<1>. QED
  BY <1>1, <1>2, <1>3, <1>4, BecomesIs DEF SameRecords, SameWork, SameHand

(* Loading the state.                                                      *)
LEMMA LoadIs ==
  ASSUME Typed, NEW p \in Process, loadOwnership(p)
  PROVE  /\ run[p].pc = "loading"
         /\ \/ /\ Frame(p) /\ SameGoal(p) /\ SameWork(p)
               /\ run'[p].pc = "artifacts"
               /\ run'[p].prev = owner /\ run'[p].made = run[p].made
               /\ run'[p].todo = Planned(p) /\ run'[p].cur = run[p].cur
            \/ Moved(p, "releasing") /\ run'[p].errors = TRUE
<1>1. Planned(p) \in SUBSET Path /\ run[p].pc = "loading" /\ owner \in Records
  BY RunIs DEF Planned, loadOwnership, At, Typed
<1>2. ASSUME NEW wrong \in BOOLEAN,
             Becomes(p, [run[p] EXCEPT !.pc = "artifacts", !.prev = owner,
                                       !.todo = Planned(p), !.errors = wrong])
      PROVE  /\ Frame(p) /\ SameGoal(p) /\ SameWork(p)
             /\ run'[p].pc = "artifacts"
             /\ run'[p].prev = owner /\ run'[p].made = run[p].made
             /\ run'[p].todo = Planned(p) /\ run'[p].cur = run[p].cur
  <2>. DEFINE r == [run[p] EXCEPT !.pc = "artifacts", !.prev = owner,
                                  !.todo = Planned(p), !.errors = wrong]
  <2>1. r \in Runs
    BY <1>1, RunIs, PhasesAre DEF Runs
  <2>2. /\ r.version = run[p].version /\ r.only = run[p].only
        /\ r.force = run[p].force
        /\ r.pc = "artifacts" /\ r.todo = Planned(p) /\ r.cur = run[p].cur
        /\ r.prev = owner /\ r.made = run[p].made
        /\ r.journal = run[p].journal /\ r.undo = run[p].undo
    BY RunIs DEF Runs
  <2>3. Becomes(p, r)
    BY <1>2
  <2>. HIDE DEF r
  <2>. QED
    BY <2>1, <2>2, <2>3, BecomesIs DEF SameGoal, SameWork
<1>3. \/ \E wrong \in BOOLEAN :
           Becomes(p, [run[p] EXCEPT !.pc = "artifacts", !.prev = owner,
                                     !.todo = Planned(p), !.errors = wrong])
      \/ Becomes(p, [run[p] EXCEPT !.pc = "releasing", !.errors = TRUE])
  <2>. DEFINE wrong == \E q \in run[p].only \ DOMAIN Plan(p) :
                         owner[q] # None /\ file[q].hash # owner[q]
  <2>1. wrong \in BOOLEAN
    BY Zenon
  <2>. QED
    BY <2>1, Zenon DEF loadOwnership
<1>. QED
  BY <1>1, <1>2, <1>3, FailIs, PhasesAre

(* Looking at one manifest.                                                *)
LEMMA CheckIs ==
  ASSUME Typed, NEW p \in Process, CheckArtifact(p)
  PROVE  /\ run[p].pc = "artifacts"
         /\ \E q \in run[p].todo :
              \/ Skipped(p, q)
              \/ /\ Ours(p, q)
                 /\ Frame(p) /\ SameGoal(p) /\ SameRecords(p) /\ SameWork(p)
                 /\ run'[p].errors = run[p].errors
                 /\ run'[p].todo = run[p].todo /\ run'[p].cur = {q}
                 /\ \/ /\ run'[p].pc = "kept" /\ There(file[q])
                       /\ Compares(p) => file[q].val = Plan(p)[q]
                    \/ run'[p].pc = "writing" /\ run'[p].before = file[q]
<1>1. run[p].pc = "artifacts" /\ run[p].todo \subseteq Path
  BY RunIs DEF CheckArtifact, At
<1>2. PICK q \in run[p].todo :
         \/ Skip(p, q)
         \/ /\ Ours(p, q) /\ There(file[q]) /\ ~run[p].force
            /\ p \notin KeyFound \/ file[q].val = Plan(p)[q]
            /\ Becomes(p, [run[p] EXCEPT !.pc = "kept", !.cur = {q}])
         \/ /\ Ours(p, q)
            /\ Becomes(p, [run[p] EXCEPT !.pc = "writing", !.cur = {q}, !.before = file[q]])
  BY Zenon DEF CheckArtifact
<1>3. {q} \in SUBSET Path /\ file[q] \in Contents
  BY <1>1 DEF Typed
<1>4. ASSUME Becomes(p, [run[p] EXCEPT !.pc = "kept", !.cur = {q}])
      PROVE  /\ Frame(p) /\ SameGoal(p) /\ SameRecords(p) /\ SameWork(p)
             /\ run'[p].errors = run[p].errors
             /\ run'[p].todo = run[p].todo /\ run'[p].cur = {q} /\ run'[p].pc = "kept"
  <2>. DEFINE r == [run[p] EXCEPT !.pc = "kept", !.cur = {q}]
  <2>1. r \in Runs
    BY <1>3, RunIs, PhasesAre DEF Runs
  <2>2. /\ r.version = run[p].version /\ r.only = run[p].only
        /\ r.force = run[p].force /\ r.errors = run[p].errors
        /\ r.pc = "kept" /\ r.todo = run[p].todo /\ r.cur = {q}
        /\ r.prev = run[p].prev /\ r.made = run[p].made
        /\ r.journal = run[p].journal /\ r.undo = run[p].undo
    BY RunIs DEF Runs
  <2>3. Becomes(p, r)
    BY <1>4
  <2>. HIDE DEF r
  <2>. QED
    BY <2>1, <2>2, <2>3, BecomesIs DEF SameGoal, SameRecords, SameWork
<1>5. ASSUME Becomes(p, [run[p] EXCEPT !.pc = "writing", !.cur = {q}, !.before = file[q]])
      PROVE  /\ Frame(p) /\ SameGoal(p) /\ SameRecords(p) /\ SameWork(p)
             /\ run'[p].errors = run[p].errors
             /\ run'[p].todo = run[p].todo /\ run'[p].cur = {q} /\ run'[p].pc = "writing"
             /\ run'[p].before = file[q]
  <2>. DEFINE r == [run[p] EXCEPT !.pc = "writing", !.cur = {q}, !.before = file[q]]
  <2>1. r \in Runs
    BY <1>3, RunIs, PhasesAre DEF Runs
  <2>2. /\ r.version = run[p].version /\ r.only = run[p].only
        /\ r.force = run[p].force /\ r.errors = run[p].errors
        /\ r.pc = "writing" /\ r.todo = run[p].todo /\ r.cur = {q} /\ r.before = file[q]
        /\ r.prev = run[p].prev /\ r.made = run[p].made
        /\ r.journal = run[p].journal /\ r.undo = run[p].undo
    BY RunIs DEF Runs
  <2>3. Becomes(p, r)
    BY <1>5
  <2>. HIDE DEF r
  <2>. QED
    BY <2>1, <2>2, <2>3, BecomesIs DEF SameGoal, SameRecords, SameWork
<1>. QED
  BY <1>1, <1>2, <1>4, <1>5, SkipIs DEF Compares

(* Writing one manifest.                                                   *)
LEMMA WriteIs ==
  ASSUME Typed, NEW p \in Process, writeEncryptedManifest(p)
  PROVE  /\ run[p].pc = "writing"
         /\ \E q \in run[p].cur :
              \/ /\ \E n \in Fresh(q) :
                      file' = [file EXCEPT ![q] = [hash |-> n, val |-> Plan(p)[q], by |-> "sync"]]
                 /\ Moved(p, "written") /\ run'[p].errors = run[p].errors
              \/ Skipped(p, q) /\ file' = file
BY GotoIs, SkipIs, PhasesAre DEF writeEncryptedManifest, At

(* Reading one manifest back.                                              *)
LEMMA ReadBackIs ==
  ASSUME Typed, NEW p \in Process, ReadBack(p)
  PROVE  /\ run[p].pc \in {"kept", "written"}
         /\ \E q \in run[p].cur :
              \/ /\ There(file[q])
                 /\ Frame(p) /\ SameGoal(p) /\ run'[p].errors = run[p].errors
                 /\ run'[p].pc = "artifacts"
                 /\ run'[p].todo = run[p].todo \ {q} /\ run'[p].cur = {}
                 /\ run'[p].prev = run[p].prev
                 /\ run'[p].made = [run[p].made EXCEPT ![q] = file[q].hash]
                 /\ run'[p].undo = run[p].undo
                 /\ run'[p].journal = IF run[p].pc = "written"
                                      THEN run[p].journal \o Entry(q, run[p].before, file[q].hash)
                                      ELSE run[p].journal
              \/ /\ Skipped(p, q)
                 /\ run[p].pc = "written" => ~There(file[q]) \/ "readback" \in faults'
<1>. DEFINE entry(q)   == IF At(p, "written") THEN Entry(q, run[p].before, file[q].hash) ELSE <<>>
            journal(q) == IF run[p].pc = "written"
                          THEN run[p].journal \o Entry(q, run[p].before, file[q].hash)
                          ELSE run[p].journal
            r(q)       == [run[p] EXCEPT
                             !.pc = "artifacts", !.todo = run[p].todo \ {q}, !.cur = {},
                             !.before = Absent,
                             !.made[q] = file[q].hash,
                             !.journal = run[p].journal \o entry(q)]
<1>1. PICK q \in run[p].cur :
         \/ There(file[q]) /\ Becomes(p, r(q))
         \/ /\ Skip(p, q)
            /\ ~There(file[q]) \/ Fault(IF At(p, "written") THEN "readback" ELSE "check")
  BY Zenon DEF ReadBack
<1>2. run[p].pc \in {"kept", "written"}
  BY DEF ReadBack
<1>3. CASE There(file[q]) /\ Becomes(p, r(q))
  <2>1. q \in Path /\ file[q] \in Contents /\ file[q].hash \in 0..MaxId
    BY RunIs DEF Typed, Contents
  <2>2. run[p].journal \o entry(q) = journal(q) /\ journal(q) \in Seq(Entries)
    <3>1. CASE run[p].pc = "written"
      <4>1. [path |-> q, before |-> run[p].before, after |-> file[q].hash] \in Entries
        BY <2>1, RunIs DEF Entries
      <4>. QED
        BY <3>1, <4>1, RunIs DEF At, Entry
    <3>2. CASE run[p].pc # "written"
      <4>1. entry(q) = <<>>
        BY <3>2 DEF At
      <4>. QED
        BY <3>2, <4>1, RunIs, NothingAdded
    <3>. QED
      BY <3>1, <3>2
  <2>3. [run[p].made EXCEPT ![q] = file[q].hash] \in Records
    BY <2>1, RunIs DEF Records
  <2>. HIDE DEF journal, entry
  <2>. DEFINE s == [run[p] EXCEPT !.pc = "artifacts", !.todo = run[p].todo \ {q}, !.cur = {},
                      !.before = Absent, !.made = [run[p].made EXCEPT ![q] = file[q].hash],
                      !.journal = journal(q)]
  <2>4. r(q) = s
    BY <2>2, RunIs DEF Runs
  <2>5. s \in Runs
    BY <2>2, <2>3, RunIs, PhasesAre, AbsentIsContent DEF Runs
  <2>6. /\ s.version = run[p].version /\ s.only = run[p].only
        /\ s.force = run[p].force /\ s.errors = run[p].errors
        /\ s.pc = "artifacts" /\ s.todo = run[p].todo \ {q} /\ s.cur = {}
        /\ s.prev = run[p].prev /\ s.made = [run[p].made EXCEPT ![q] = file[q].hash]
        /\ s.journal = journal(q) /\ s.undo = run[p].undo
    BY RunIs DEF Runs
  <2>7. Becomes(p, s)
    BY <1>3, <2>4
  <2>. HIDE DEF s, r
  <2>8. Frame(p) /\ run'[p] = s
    BY <2>5, <2>7, BecomesIs
  <2>. QED
    BY <1>2, <1>3, <2>6, <2>8 DEF SameGoal, journal
<1>4. CASE /\ Skip(p, q)
           /\ ~There(file[q]) \/ Fault(IF At(p, "written") THEN "readback" ELSE "check")
  <2>1. run[p].pc = "written" => ~There(file[q]) \/ "readback" \in faults'
    BY <1>4 DEF Fault, At
  <2>. QED
    BY <1>2, <1>4, <2>1, SkipIs
<1>. QED
  BY <1>1, <1>3, <1>4

(* Turning to the stale manifests, or leaving them all.                    *)
LEMMA StartPruningIs ==
  ASSUME Typed, NEW p \in Process, StartPruning(p)
  PROVE  /\ run[p].pc = "artifacts" /\ run[p].todo = {}
         /\ \/ Moved(p, "saving") /\ run'[p].errors = TRUE
            \/ /\ ~run[p].errors
               /\ Frame(p) /\ SameGoal(p) /\ SameRecords(p) /\ SameWork(p)
               /\ run'[p].pc = "pruning" /\ run'[p].errors = run[p].errors
               /\ run'[p].todo = Stale(p) /\ run'[p].cur = run[p].cur
<1>1. run[p].pc = "artifacts" /\ run[p].todo = {}
  BY DEF StartPruning, At
<1>2. \/ Becomes(p, [run[p] EXCEPT !.pc = "saving", !.errors = TRUE])
      \/ ~run[p].errors /\ Becomes(p, [run[p] EXCEPT !.pc = "pruning", !.todo = Stale(p)])
  BY Zenon DEF StartPruning
<1>3. ASSUME Becomes(p, [run[p] EXCEPT !.pc = "pruning", !.todo = Stale(p)])
      PROVE  /\ Frame(p) /\ SameGoal(p) /\ SameRecords(p) /\ SameWork(p)
             /\ run'[p].pc = "pruning" /\ run'[p].errors = run[p].errors
             /\ run'[p].todo = Stale(p) /\ run'[p].cur = run[p].cur
  <2>. DEFINE r == [run[p] EXCEPT !.pc = "pruning", !.todo = Stale(p)]
  <2>1. Stale(p) \in SUBSET Path
    BY RunIs DEF Stale
  <2>2. r \in Runs
    BY <2>1, RunIs, PhasesAre DEF Runs
  <2>3. /\ r.version = run[p].version /\ r.only = run[p].only
        /\ r.force = run[p].force /\ r.errors = run[p].errors
        /\ r.pc = "pruning" /\ r.todo = Stale(p) /\ r.cur = run[p].cur
        /\ r.prev = run[p].prev /\ r.made = run[p].made
        /\ r.journal = run[p].journal /\ r.undo = run[p].undo
    BY RunIs DEF Runs
  <2>4. Becomes(p, r)
    BY <1>3
  <2>. HIDE DEF r
  <2>. QED
    BY <2>2, <2>3, <2>4, BecomesIs DEF SameGoal, SameRecords, SameWork
<1>. QED
  BY <1>1, <1>2, <1>3, FailIs, PhasesAre

(* Removing one stale manifest, or giving up.                              *)
LEMMA PruneIs ==
  ASSUME Typed, NEW p \in Process, Prune(p)
  PROVE  /\ run[p].pc = "pruning"
         /\ \/ /\ Frame(p) /\ SameGoal(p) /\ SameRecords(p)
               /\ run'[p].pc = "unpruning" /\ run'[p].errors = TRUE
               /\ run'[p].todo = {} /\ run'[p].cur = run[p].cur
               /\ run'[p].journal = run[p].journal /\ run'[p].undo = run[p].undo
               /\ file' = file
            \/ \E q \in run[p].todo :
                 /\ file[q].hash = run[p].prev[q]
                 /\ file' = [file EXCEPT ![q] = Absent]
                 /\ Frame(p) /\ SameGoal(p) /\ SameRecords(p)
                 /\ run'[p].pc = "pruning" /\ run'[p].errors = run[p].errors
                 /\ run'[p].todo = run[p].todo \ {q} /\ run'[p].cur = run[p].cur
                 /\ run'[p].journal = run[p].journal
                 /\ run'[p].undo = run[p].undo \o Entry(q, file[q], None)
<1>1. run[p].pc = "pruning"
  BY DEF Prune, At
<1>2. PICK q \in run[p].todo :
         \/ /\ file[q].hash = run[p].prev[q]
            /\ file' = [file EXCEPT ![q] = Absent]
            /\ Becomes(p, [run[p] EXCEPT !.todo = run[p].todo \ {q},
                                         !.undo = run[p].undo \o Entry(q, file[q], None)])
         \/ PruneFails(p) /\ file' = file
  BY Zenon DEF Prune
<1>3. CASE PruneFails(p) /\ file' = file
  <2>. DEFINE r == [run[p] EXCEPT !.pc = "unpruning", !.todo = {}, !.errors = TRUE]
  <2>1. r \in Runs
    BY RunIs, PhasesAre DEF Runs
  <2>2. /\ r.version = run[p].version /\ r.only = run[p].only
        /\ r.force = run[p].force /\ r.errors = TRUE
        /\ r.pc = "unpruning" /\ r.todo = {} /\ r.cur = run[p].cur
        /\ r.prev = run[p].prev /\ r.made = run[p].made
        /\ r.journal = run[p].journal /\ r.undo = run[p].undo
    BY RunIs DEF Runs
  <2>3. Becomes(p, r)
    BY <1>3 DEF PruneFails
  <2>. HIDE DEF r
  <2>. QED
    BY <1>1, <1>3, <2>1, <2>2, <2>3, BecomesIs DEF SameGoal, SameRecords
<1>4. CASE /\ file[q].hash = run[p].prev[q]
           /\ file' = [file EXCEPT ![q] = Absent]
           /\ Becomes(p, [run[p] EXCEPT !.todo = run[p].todo \ {q},
                                        !.undo = run[p].undo \o Entry(q, file[q], None)])
  <2>1. q \in Path /\ file[q] \in Contents
    BY RunIs DEF Typed
  <2>. DEFINE u == run[p].undo \o Entry(q, file[q], None)
  <2>2. u \in Seq(Entries)
    <3>1. [path |-> q, before |-> file[q], after |-> None] \in Entries
      BY <2>1, AbsentIsContent DEF Entries
    <3>. QED
      BY <3>1, RunIs DEF Entry
  <2>. DEFINE r == [run[p] EXCEPT !.todo = run[p].todo \ {q}, !.undo = u]
  <2>3. Becomes(p, r)
    BY <1>4
  <2>. HIDE DEF u
  <2>4. r \in Runs
    BY <2>2, RunIs DEF Runs
  <2>5. /\ r.version = run[p].version /\ r.only = run[p].only
        /\ r.force = run[p].force /\ r.errors = run[p].errors
        /\ r.pc = run[p].pc /\ r.todo = run[p].todo \ {q} /\ r.cur = run[p].cur
        /\ r.prev = run[p].prev /\ r.made = run[p].made
        /\ r.journal = run[p].journal /\ r.undo = u
    BY RunIs DEF Runs
  <2>. HIDE DEF r
  <2>6. Frame(p) /\ run'[p] = r
    BY <2>3, <2>4, BecomesIs
  <2>. QED
    BY <1>1, <1>4, <2>5, <2>6 DEF SameGoal, SameRecords, u
<1>. QED
  BY <1>2, <1>3, <1>4

(* The removals join what has to be recorded.                              *)
LEMMA PruningDoneIs ==
  ASSUME Typed, NEW p \in Process, PruningDone(p)
  PROVE  /\ run[p].pc = "pruning" /\ run[p].todo = {}
         /\ Frame(p) /\ SameGoal(p) /\ SameRecords(p) /\ SameHand(p)
         /\ run'[p].pc = "saving" /\ run'[p].errors = run[p].errors
         /\ run'[p].journal = run[p].journal \o run[p].undo /\ run'[p].undo = <<>>
<1>. DEFINE j == run[p].journal \o run[p].undo
<1>1. j \in Seq(Entries)
  BY RunIs, JournalGrows
<1>. DEFINE r == [run[p] EXCEPT !.pc = "saving", !.undo = <<>>, !.journal = j]
<1>2. Becomes(p, r) /\ run[p].pc = "pruning" /\ run[p].todo = {}
  BY DEF PruningDone, At
<1>. HIDE DEF j
<1>3. r \in Runs
  <2>1. run[p] \in Runs /\ "saving" \in Phases /\ <<>> \in Seq(Entries)
    BY RunIs, PhasesAre
  <2>. QED
    BY <1>1, <2>1 DEF Runs
<1>4. /\ r.version = run[p].version /\ r.only = run[p].only
        /\ r.force = run[p].force /\ r.errors = run[p].errors
      /\ r.pc = "saving" /\ r.todo = run[p].todo /\ r.cur = run[p].cur
      /\ r.before = run[p].before /\ r.prev = run[p].prev /\ r.made = run[p].made
      /\ r.journal = j /\ r.undo = <<>>
  BY RunIs DEF Runs
<1>. HIDE DEF r
<1>5. Frame(p) /\ run'[p] = r
  BY <1>2, <1>3, BecomesIs
<1>. QED
  BY <1>2, <1>4, <1>5 DEF SameGoal, SameRecords, SameHand, j

(* Saving the records.                                                     *)
LEMMA SaveIs ==
  ASSUME Typed, NEW p \in Process, writeOwnershipState(p)
  PROVE  /\ run[p].pc = "saving"
         /\ \/ /\ owner' = [q \in Path |-> IF q \in Removed(p) THEN None
                                           ELSE IF run[p].made[q] # None THEN run[p].made[q]
                                           ELSE run[p].prev[q]]
               /\ Moved(p, "releasing") /\ run'[p].errors = run[p].errors
            \/ /\ owner' = owner
               /\ Frame(p) /\ SameGoal(p) /\ SameRecords(p) /\ SameHand(p)
               /\ run'[p].pc = "undoing" /\ run'[p].errors = TRUE
               /\ run'[p].journal = run[p].journal /\ run'[p].undo = run[p].journal
<1>. DEFINE r == [run[p] EXCEPT !.pc = "undoing", !.errors = TRUE, !.undo = run[p].journal]
<1>1. run[p].pc = "saving"
  BY DEF writeOwnershipState, At
<1>2. \/ /\ owner' = [q \in Path |-> IF q \in Removed(p) THEN None
                                     ELSE IF run[p].made[q] # None THEN run[p].made[q]
                                     ELSE run[p].prev[q]]
         /\ Goto(p, "releasing")
      \/ Becomes(p, r) /\ owner' = owner
  BY DEF writeOwnershipState
<1>3. r \in Runs
  BY RunIs, PhasesAre DEF Runs
<1>4. /\ r.version = run[p].version /\ r.only = run[p].only
        /\ r.force = run[p].force /\ r.errors = TRUE
      /\ r.pc = "undoing" /\ r.todo = run[p].todo /\ r.cur = run[p].cur
      /\ r.before = run[p].before /\ r.prev = run[p].prev /\ r.made = run[p].made
      /\ r.journal = run[p].journal /\ r.undo = run[p].journal
  BY RunIs DEF Runs
<1>. HIDE DEF r
<1>5. Becomes(p, r) => Frame(p) /\ run'[p] = r
  BY <1>3, BecomesIs
<1>. QED
  BY <1>1, <1>2, <1>4, <1>5, GotoIs, PhasesAre DEF SameGoal, SameRecords, SameHand

(* Undoing the last mutation.                                              *)
LEMMA RollbackIs ==
  ASSUME Typed, NEW p \in Process, Rollback(p)
  PROVE  /\ run[p].pc \in {"unpruning", "undoing"} /\ run[p].undo # <<>>
         /\ Frame(p) /\ SameGoal(p) /\ SameRecords(p) /\ SameHand(p)
         /\ run'[p].pc = run[p].pc /\ run'[p].errors = run[p].errors
         /\ run'[p].journal = run[p].journal
         /\ run'[p].undo = SubSeq(run[p].undo, 1, Len(run[p].undo) - 1)
         /\ \/ file' = [file EXCEPT
                          ![run[p].undo[Len(run[p].undo)].path] =
                             IF @.hash = run[p].undo[Len(run[p].undo)].after
                             THEN run[p].undo[Len(run[p].undo)].before ELSE @]
            \/ file' = file /\ "restore" \in faults'
<1>. DEFINE u == SubSeq(run[p].undo, 1, Len(run[p].undo) - 1)
            r == [run[p] EXCEPT !.undo = u]
<1>1. /\ run[p].pc \in {"unpruning", "undoing"} /\ run[p].undo # <<>>
      /\ Becomes(p, r)
      /\ \/ file' = [file EXCEPT
                       ![run[p].undo[Len(run[p].undo)].path] =
                          IF @.hash = run[p].undo[Len(run[p].undo)].after
                          THEN run[p].undo[Len(run[p].undo)].before ELSE @]
         \/ file' = file /\ "restore" \in faults'
  BY DEF Rollback, Fault
<1>2. u \in Seq(Entries)
  BY <1>1, RunIs, JournalShrinks
<1>. HIDE DEF u
<1>3. r \in Runs
  BY <1>2, RunIs DEF Runs
<1>4. /\ r.version = run[p].version /\ r.only = run[p].only
        /\ r.force = run[p].force /\ r.errors = run[p].errors
      /\ r.pc = run[p].pc /\ r.todo = run[p].todo /\ r.cur = run[p].cur
      /\ r.before = run[p].before /\ r.prev = run[p].prev /\ r.made = run[p].made
      /\ r.journal = run[p].journal /\ r.undo = u
  BY RunIs DEF Runs
<1>. HIDE DEF r
<1>5. Frame(p) /\ run'[p] = r
  BY <1>1, <1>3, BecomesIs
<1>6. SameGoal(p) /\ SameRecords(p) /\ SameHand(p)
  BY <1>4, <1>5 DEF SameGoal, SameRecords, SameHand
<1>. QED
  BY <1>1, <1>4, <1>5, <1>6 DEF u

(* The end of an undo.                                                     *)
LEMMA RollbackDoneIs ==
  ASSUME Typed, NEW p \in Process, RollbackDone(p)
  PROVE  /\ run[p].undo = <<>> /\ run'[p].errors = run[p].errors
         /\ \/ run[p].pc = "unpruning" /\ Moved(p, "saving")
            \/ run[p].pc = "undoing" /\ Moved(p, "releasing")
<1>1. /\ run[p].undo = <<>>
      /\ \/ run[p].pc = "unpruning" /\ Goto(p, "saving")
         \/ run[p].pc = "undoing" /\ Goto(p, "releasing")
  BY DEF RollbackDone, At
<1>. QED
  BY <1>1, GotoIs, PhasesAre

(* Finishing, dying and giving up.                                         *)
LEMMA IdledIs ==
  ASSUME Typed, NEW p \in Process, Becomes(p, Idle)
  PROVE  Frame(p) /\ run'[p] = Idle
BY IdleIs, BecomesIs

-----------------------------------------------------------------------------
(* One step seen from a command.                                           *)

(* The plan of a command stays while it reads no other configuration.      *)
LEMMA GoalStays ==
  ASSUME NEW p, SameGoal(p)
  PROVE  /\ Plan(p)' = Plan(p) /\ Planned(p)' = Planned(p)
         /\ run'[p].force = run[p].force
         /\ run'[p].prev = run[p].prev => Stale(p)' = Stale(p)
BY DEF SameGoal, Plan, Planned, Stale

(* A command outside the lock has nothing in hand.                         *)
LEMMA RestIsFine ==
  ASSUME NEW o, run'[o].pc \in {"idle", "waiting"}, lock' # o,
         run'[o].pc # "idle" => run'[o].version \in 1..Len(Plans),
         run'[o].todo = {}, run'[o].cur = {}, run'[o].made = [q \in Path |-> None],
         run'[o].journal = <<>>, run'[o].undo = <<>>
  PROVE  Shape(o)' /\ Mutated(o)' /\ UsersApart(o)' /\ Between(o)' /\ Reached(o)'
<1>1. Mutations(run'[o]) = {}
  BY EmptyJournal DEF Mutations
<1>2. /\ run'[o].pc \notin Locked /\ run'[o].pc \notin Working /\ run'[o].pc \notin Writing
      /\ run'[o].pc \notin {"artifacts", "pruning", "unpruning", "saving", "undoing",
                            "loading", "releasing", "kept", "writing", "written"}
  BY DEF Locked, Working, Writing
<1>3. Shape(o)'
  BY <1>2 DEF Shape
<1>4. Mutated(o)'
  BY <1>1, <1>2, EmptyJournal DEF Mutated
<1>5. UsersApart(o)'
  BY <1>1, <1>2 DEF UsersApart
<1>6. Between(o)'
  BY <1>2 DEF Between
<1>7. Reached(o)'
  BY <1>2 DEF Reached
<1>. QED
  BY <1>3, <1>4, <1>5, <1>6, <1>7

(* While one command takes its step under the lock the others rest.        *)
LEMMA OthersRest ==
  ASSUME Base, NEW p \in Process, Frame(p), lock \in {p, Nobody}, lock' \in {p, Nobody},
         NEW o \in Process \ {p}
  PROVE  Shape(o)' /\ Mutated(o)' /\ UsersApart(o)' /\ Between(o)' /\ Reached(o)'
<1>1. run'[o] = run[o] /\ lock # o /\ lock' # o /\ Shape(o) /\ run[o].pc \in Phases
  BY SyncConstants, RunIs DEF SyncConstants, Frame, Base
<1>2. run[o].pc \in {"idle", "waiting"}
  BY <1>1 DEF Shape, Phases
<1>. QED
  BY <1>1, <1>2, RestIsFine DEF Shape

(* A command that has just gone idle rests too.                            *)
LEMMA IdleRests ==
  ASSUME NEW p, run'[p] = Idle, lock' # p
  PROVE  Shape(p)' /\ Mutated(p)' /\ UsersApart(p)' /\ Between(p)' /\ Reached(p)'
BY IdleIs, RestIsFine

(* What a command in hand sees of the steps of others.                     *)
LEMMA Undisturbed ==
  ASSUME NEW o, run'[o] = run[o], owner' = owner
  PROVE  /\ Shape(o) /\ lock' = lock => Shape(o)'
         /\ Mutated(o) => Mutated(o)'
         /\ UsersApart(o) /\ file' = file => UsersApart(o)'
         /\ Between(o) /\ file' = file => Between(o)'
         /\ Reached(o) /\ file' = file => Reached(o)'
<1>1. Plan(o)' = Plan(o) /\ Planned(o)' = Planned(o) /\ Stale(o)' = Stale(o)
  BY DEF Plan, Planned, Stale
<1>2. Shape(o) /\ lock' = lock => Shape(o)'
  BY <1>1 DEF Shape
<1>3. Mutated(o) => Mutated(o)'
  BY <1>1 DEF Mutated
<1>4. UsersApart(o) /\ file' = file => UsersApart(o)'
  BY DEF UsersApart
<1>5. Between(o) /\ file' = file => Between(o)'
  BY DEF Between, Clear, Settled, Left, AsRecorded
<1>6. Reached(o) /\ file' = file => Reached(o)'
  BY <1>1 DEF Reached, Kept, Compares, Gone
<1>. QED
  BY <1>2, <1>3, <1>4, <1>5, <1>6

(* A step that leaves a manifest behind with an error.                     *)
LEMMA SkippedKeeps ==
  ASSUME NEW p \in Process, Typed, Shape(p), Mutated(p), NEW q, Skipped(p, q),
         run[p].pc \in {"artifacts"} \cup Writing, lock' = lock, owner' = owner
  PROVE  Shape(p)' /\ Mutated(p)'
<1>. USE DEF Skipped, SameRecords, SameWork
<1>1. SameGoal(p) /\ Plan(p)' = Plan(p) /\ Planned(p)' = Planned(p) /\ Stale(p)' = Stale(p)
  BY GoalStays
<1>2. "artifacts" \in Locked /\ "artifacts" \in Working /\ "artifacts" \notin Writing
  BY DEF Locked, Working, Writing
<1>3. run[p].pc \in Locked /\ run[p].pc \in Working /\ run[p].undo = <<>>
  BY DEF Locked, Working, Writing, Shape
<1>4. Shape(p)'
  BY <1>1, <1>2, <1>3 DEF Shape, SameGoal
<1>5. Mutated(p)'
  BY <1>1, <1>2, <1>3 DEF Mutated, Mutations, SameGoal
<1>. QED
  BY <1>4, <1>5

(* A new content has a hash that nothing on record has.                    *)
LEMMA FreshIs ==
  ASSUME NEW q, NEW n \in Fresh(q)
  PROVE  n \in 0..MaxId /\ n # None /\ n # owner[q] /\ n # file[q].hash
BY SyncConstants DEF SyncConstants, Fresh, Remembered, None

(* What a manifest may hold.                                               *)
LEMMA ContentsAre ==
  ASSUME NEW n \in 0..MaxId, NEW v \in Values \cup {"theirs"},
         NEW by \in {"user", "sync", "rotation"}
  PROVE  [hash |-> n, val |-> v, by |-> by] \in Contents
BY DEF Contents

(* The planned value of a manifest is one of the configuration's.          *)
LEMMA PlannedValue ==
  ASSUME NEW p, run[p].version \in 1..Len(Plans), NEW q \in Planned(p)
  PROVE  Plan(p)[q] \in Values
BY DEF Planned, Plan, Values

(* The history of the faults.                                              *)
LEMMA FaultsAre ==
  Typed /\ [Next]_vars => faults \subseteq faults' /\ faults' \subseteq Faults
<1>. SUFFICES ASSUME Typed, [Next]_vars
              PROVE  faults \subseteq faults' /\ faults' \subseteq Faults
  OBVIOUS
<1>. USE DEF Typed, Fault
<1>1. CASE UNCHANGED vars
  BY <1>1 DEF vars
<1>2. ASSUME NEW p \in Process, NEW only \in Filters, NEW force \in BOOLEAN, Begin(p, only, force)
      PROVE  faults \subseteq faults' /\ faults' \subseteq Faults
  BY <1>2 DEF Begin
<1>3. ASSUME NEW p \in Process, acquireSyncLock(p) \/ GiveUp(p) \/ Crash(p)
      PROVE  faults \subseteq faults' /\ faults' \subseteq Faults
  BY <1>3 DEF acquireSyncLock, GiveUp, Crash
<1>4. ASSUME NEW p \in Process, Proceed(p)
      PROVE  faults \subseteq faults' /\ faults' \subseteq Faults
  BY <1>4, Zenon
  DEF Proceed, loadOwnership, CheckArtifact, writeEncryptedManifest, ReadBack, StartPruning,
      Prune, PruningDone, writeOwnershipState, Rollback, RollbackDone, releaseSyncLock
<1>5. CASE ConfigChanges \/ Edit \/ Rotate
  BY <1>5 DEF ConfigChanges, Edit, Rotate
<1>. QED
  BY <1>1, <1>2, <1>3, <1>4, <1>5 DEF Next

-----------------------------------------------------------------------------
(* Types and phases are kept.                                              *)

(* What has to be shown of a step under the lock.                          *)
LEMMA HolderBase ==
  ASSUME Base, NEW p \in Process, Frame(p), lock \in {p, Nobody}, lock' \in {p, Nobody},
         version' = version, file' \in [Path -> Contents], owner' \in Records,
         faults' \subseteq Faults, Shape(p)', Mutated(p)'
  PROVE  Base'
<1>1. Typed'
  BY DEF Base, Typed, Frame
<1>2. \A o \in Process : Shape(o)' /\ Mutated(o)'
  BY OthersRest
<1>. QED
  BY <1>1, <1>2 DEF Base

(* Who is in which phase.                                                  *)
LEMMA HolderIs ==
  ASSUME Base, NEW p \in Process
  PROVE  /\ Typed /\ Shape(p) /\ Mutated(p)
         /\ run[p].pc \in {"idle", "waiting"} => lock # p
         /\ run[p].pc \in {"loading", "artifacts", "kept", "writing", "written", "pruning",
                           "unpruning", "saving", "undoing", "releasing"} => lock = p
         /\ file \in [Path -> Contents] /\ owner \in Records
BY DEF Base, Typed, Shape, Locked, Working, Writing

(* Loading the state.                                                      *)
LEMMA LoadKeepsBase ==
  ASSUME Base, NEW p \in Process, loadOwnership(p), faults' \subseteq Faults
  PROVE  Base'
<1>1. /\ version' = version /\ file' = file /\ owner' = owner /\ lock' = lock
  BY DEF loadOwnership
<1>2. run[p].pc = "loading" /\ Typed /\ Shape(p) /\ Mutated(p) /\ lock = p
  BY HolderIs, LoadIs
<1>3. CASE /\ Frame(p) /\ SameGoal(p) /\ SameWork(p)
           /\ run'[p].pc = "artifacts"
           /\ run'[p].prev = owner /\ run'[p].made = run[p].made
           /\ run'[p].todo = Planned(p) /\ run'[p].cur = run[p].cur
  <2>1. Planned(p)' = Planned(p) /\ Planned(p) \subseteq run[p].only
    BY <1>3, GoalStays DEF Planned
  <2>2. "artifacts" \in Working /\ "artifacts" \in Locked /\ "artifacts" \notin Writing
    BY DEF Working, Locked, Writing
  <2>3. Shape(p)'
    BY <1>1, <1>2, <1>3, <2>1, <2>2 DEF Shape, SameGoal, SameWork
  <2>4. Mutated(p)'
    BY <1>2, <1>3, <2>1, <2>2, EmptyJournal DEF Shape, Mutated, Mutations, SameGoal, SameWork
  <2>. QED
    BY <1>1, <1>2, <1>3, <2>3, <2>4, HolderIs, HolderBase
<1>4. CASE Moved(p, "releasing")
  <2>. USE DEF Moved, SameRecords, SameWork, SameHand
  <2>1. Planned(p)' = Planned(p)
    BY <1>4, GoalStays
  <2>2. "releasing" \notin Working /\ "releasing" \in Locked /\ "releasing" \notin Writing
    BY DEF Working, Locked, Writing
  <2>3. Shape(p)'
    BY <1>1, <1>2, <1>4, <2>1, <2>2 DEF Shape, SameGoal
  <2>4. Mutated(p)'
    BY <1>2, <1>4, <2>1, <2>2 DEF Mutated, Mutations, SameGoal
  <2>. QED
    BY <1>1, <1>2, <1>4, <2>3, <2>4, HolderIs, HolderBase
<1>. QED
  BY <1>2, <1>3, <1>4, LoadIs

(* Looking at a manifest.                                                  *)
LEMMA CheckKeepsBase ==
  ASSUME Base, NEW p \in Process, CheckArtifact(p), faults' \subseteq Faults
  PROVE  Base'
<1>1. /\ version' = version /\ file' = file /\ owner' = owner /\ lock' = lock
  BY DEF CheckArtifact
<1>2. run[p].pc = "artifacts" /\ Typed /\ Shape(p) /\ Mutated(p) /\ lock = p
  BY HolderIs, CheckIs
<1>3. PICK q \in run[p].todo :
        \/ Skipped(p, q)
        \/ /\ Frame(p) /\ SameGoal(p) /\ SameRecords(p) /\ SameWork(p)
           /\ run'[p].todo = run[p].todo /\ run'[p].cur = {q}
           /\ run'[p].pc \in {"kept", "writing"}
  BY <1>2, CheckIs
<1>4. CASE Skipped(p, q)
  <2>1. Shape(p)' /\ Mutated(p)'
    BY <1>1, <1>2, <1>4, SkippedKeeps
  <2>. QED
    BY <1>1, <1>2, <1>4, <2>1, HolderIs, HolderBase DEF Skipped
<1>5. CASE /\ Frame(p) /\ SameGoal(p) /\ SameRecords(p) /\ SameWork(p)
           /\ run'[p].todo = run[p].todo /\ run'[p].cur = {q}
           /\ run'[p].pc \in {"kept", "writing"}
  <2>. USE DEF SameRecords, SameWork
  <2>1. Planned(p)' = Planned(p)
    BY <1>5, GoalStays
  <2>2. /\ run'[p].pc \in Working /\ run'[p].pc \in Locked /\ run'[p].pc \in Writing
        /\ run[p].pc \in Working
    BY <1>2, <1>5 DEF Working, Locked, Writing
  <2>3. Shape(p)'
    BY <1>1, <1>2, <1>5, <2>1, <2>2 DEF Shape, SameGoal
  <2>4. Mutated(p)'
    BY <1>2, <1>5, <2>1, <2>2 DEF Mutated, Mutations, SameGoal
  <2>. QED
    BY <1>1, <1>2, <1>5, <2>3, <2>4, HolderIs, HolderBase
<1>. QED
  BY <1>3, <1>4, <1>5

(* Writing a manifest.                                                     *)
LEMMA WriteKeepsBase ==
  ASSUME Base, NEW p \in Process, writeEncryptedManifest(p), faults' \subseteq Faults
  PROVE  Base'
<1>1. /\ version' = version /\ owner' = owner /\ lock' = lock
  BY DEF writeEncryptedManifest
<1>2. run[p].pc = "writing" /\ Typed /\ Shape(p) /\ Mutated(p) /\ lock = p
  BY HolderIs, WriteIs
<1>3. PICK q \in run[p].cur :
        \/ /\ \E n \in Fresh(q) :
                file' = [file EXCEPT ![q] = [hash |-> n, val |-> Plan(p)[q], by |-> "sync"]]
           /\ Moved(p, "written")
        \/ Skipped(p, q) /\ file' = file
  BY <1>2, WriteIs
<1>4. run[p].pc \in Writing /\ run[p].pc \in Working
  BY <1>2 DEF Writing, Working
<1>5. CASE Skipped(p, q) /\ file' = file
  <2>1. Shape(p)' /\ Mutated(p)'
    BY <1>1, <1>2, <1>4, <1>5, SkippedKeeps
  <2>. QED
    BY <1>1, <1>2, <1>5, <2>1, HolderIs, HolderBase DEF Skipped
<1>6. ASSUME NEW n \in Fresh(q),
             file' = [file EXCEPT ![q] = [hash |-> n, val |-> Plan(p)[q], by |-> "sync"]],
             Moved(p, "written")
      PROVE  Base'
  <2>. USE DEF Moved, SameRecords, SameWork, SameHand
  <2>1. Planned(p)' = Planned(p)
    BY <1>6, GoalStays
  <2>2. "written" \in Working /\ "written" \in Locked /\ "written" \in Writing
    BY DEF Working, Locked, Writing
  <2>3. Shape(p)'
    BY <1>1, <1>2, <1>4, <1>6, <2>1, <2>2 DEF Shape, SameGoal
  <2>4. Mutated(p)'
    BY <1>2, <1>4, <1>6, <2>1, <2>2 DEF Mutated, Mutations, SameGoal
  <2>5. q \in Planned(p) /\ run[p].version \in 1..Len(Plans)
    BY <1>2, <1>4 DEF Shape
  <2>6. file' \in [Path -> Contents]
    <3>1. Plan(p)[q] \in Values
      BY <2>5, PlannedValue
    <3>2. [hash |-> n, val |-> Plan(p)[q], by |-> "sync"] \in Contents
      BY <3>1, FreshIs, ContentsAre
    <3>. QED
      BY <1>6, <3>2, HolderIs
  <2>. QED
    BY <1>1, <1>2, <1>6, <2>3, <2>4, <2>6, HolderIs, HolderBase
<1>. QED
  BY <1>3, <1>5, <1>6

(* An entry of the journal.                                                *)
Mutation(q, c, n) == [path |-> q, before |-> c, after |-> n]

(* What one more entry makes of the mutations.                             *)
LEMMA EntryAdded ==
  ASSUME NEW s \in Seq(Entries), NEW q \in Path, NEW c \in Contents, NEW n \in 0..MaxId
  PROVE  /\ Mutation(q, c, n) \in Entries /\ s \o Entry(q, c, n) \in Seq(Entries)
         /\ Mutation(q, c, n).path = q /\ Mutation(q, c, n).before = c
         /\ Mutation(q, c, n).after = n
         /\ Range(s \o Entry(q, c, n)) = Range(s) \cup {Mutation(q, c, n)}
         /\ Once(s) /\ (\A d \in Range(s) : d.path # q) => Once(s \o Entry(q, c, n))
<1>. DEFINE e == Mutation(q, c, n)
<1>1. e \in Entries /\ e.path = q /\ e.before = c /\ e.after = n
  BY DEF Entries, Mutation
<1>. DEFINE t == Entry(q, c, n)
<1>2. t = <<e>>
  BY DEF Entry, Mutation
<1>. HIDE DEF e
<1>3. t \in Seq(Entries) /\ Range(t) = {e} /\ Once(t)
  BY <1>1, <1>2, OneEntry
<1>. HIDE DEF t
<1>4. s \o t \in Seq(Entries) /\ Range(s \o t) = Range(s) \cup {e}
  BY <1>3, JournalGrows
<1>5. Once(s) /\ (\A d \in Range(s) : d.path # q) => Once(s \o t)
  BY <1>1, <1>3, JournalGrows
<1>. QED
  BY <1>1, <1>4, <1>5 DEF e, t

(* Reading a manifest back enters it once.                                 *)
LEMMA ReadBackKeepsBase ==
  ASSUME Base, NEW p \in Process, ReadBack(p), faults' \subseteq Faults
  PROVE  Base'
<1>1. /\ version' = version /\ owner' = owner /\ lock' = lock /\ file' = file
  BY DEF ReadBack
<1>2. /\ run[p].pc \in {"kept", "written"} /\ Typed /\ Shape(p) /\ Mutated(p) /\ lock = p
      /\ run[p].pc \in Writing /\ run[p].pc \in Working
  BY HolderIs, ReadBackIs DEF Writing, Working
<1>3. PICK q \in run[p].cur :
        \/ /\ Frame(p) /\ SameGoal(p)
           /\ run'[p].pc = "artifacts"
           /\ run'[p].todo = run[p].todo \ {q} /\ run'[p].cur = {}
           /\ run'[p].prev = run[p].prev
           /\ run'[p].made = [run[p].made EXCEPT ![q] = file[q].hash]
           /\ run'[p].undo = run[p].undo
           /\ run'[p].journal = IF run[p].pc = "written"
                                THEN run[p].journal \o Entry(q, run[p].before, file[q].hash)
                                ELSE run[p].journal
        \/ Skipped(p, q)
  BY <1>2, ReadBackIs
<1>4. CASE Skipped(p, q)
  <2>1. Shape(p)' /\ Mutated(p)'
    BY <1>1, <1>2, <1>4, SkippedKeeps
  <2>. QED
    BY <1>1, <1>2, <1>4, <2>1, HolderIs, HolderBase DEF Skipped
<1>5. CASE /\ Frame(p) /\ SameGoal(p)
           /\ run'[p].pc = "artifacts"
           /\ run'[p].todo = run[p].todo \ {q} /\ run'[p].cur = {}
           /\ run'[p].prev = run[p].prev
           /\ run'[p].made = [run[p].made EXCEPT ![q] = file[q].hash]
           /\ run'[p].undo = run[p].undo
           /\ run'[p].journal = IF run[p].pc = "written"
                                THEN run[p].journal \o Entry(q, run[p].before, file[q].hash)
                                ELSE run[p].journal
  <2>1. Planned(p)' = Planned(p) /\ Planned(p) \subseteq run[p].only
    BY <1>5, GoalStays DEF Planned
  <2>2. "artifacts" \in Working /\ "artifacts" \in Locked /\ "artifacts" \notin Writing
    BY DEF Working, Locked, Writing
  <2>3. q \in run[p].todo /\ q \in Planned(p) /\ q \in Path /\ run[p].undo = <<>>
    BY <1>2, RunIs DEF Shape
  <2>4. Shape(p)'
    BY <1>1, <1>2, <1>5, <2>1, <2>2, <2>3 DEF Shape, SameGoal
  <2>5. \A r \in Path : run'[p].made[r] # None => r \in Planned(p)'
    BY <1>2, <1>5, <2>1, <2>3, RunIs DEF Mutated, Records
  <2>6. /\ \A e \in Range(run'[p].journal) : e.path \in Planned(p) \ run'[p].todo
        /\ Once(run'[p].journal)
    <3>. DEFINE f == Mutation(q, run[p].before, file[q].hash)
    <3>1. \A e \in Range(run[p].journal) : e.path \in Planned(p) \ run[p].todo
      BY <1>2 DEF Mutated
    <3>2. CASE run[p].pc # "written"
      BY <1>2, <1>5, <3>1, <3>2 DEF Mutated
    <3>3. CASE run[p].pc = "written"
      <4>1. file[q].hash \in 0..MaxId
        BY <2>3, HolderIs DEF Contents
      <4>2. \A e \in Range(run[p].journal) : e.path # q
        BY <2>3, <3>1
      <4>3. /\ Range(run'[p].journal) = Range(run[p].journal) \cup {f}
            /\ Once(run'[p].journal)
        <5>1. /\ file[q] \in Contents /\ run[p].before \in Contents
              /\ run[p].journal \in Seq(Entries) /\ Once(run[p].journal)
          BY <1>2, <2>3, RunIs, HolderIs DEF Mutated
        <5>2. run'[p].journal = run[p].journal \o Entry(q, run[p].before, file[q].hash)
          BY <1>5, <3>3
        <5>. QED
          BY <2>3, <4>1, <4>2, <5>1, <5>2, EntryAdded
      <4>4. f.path = q
        BY DEF Mutation
      <4>. HIDE DEF f
      <4>. QED
        BY <1>5, <2>3, <3>1, <4>3, <4>4
    <3>. QED
      BY <3>2, <3>3
  <2>7. run'[p].undo = <<>> /\ Range(run'[p].undo) = {} /\ Once(run'[p].undo)
    BY <1>5, <2>3, EmptyJournal
  <2>8. Mutated(p)'
    BY <1>5, <2>1, <2>2, <2>5, <2>6, <2>7 DEF Mutated, Mutations, SameGoal
  <2>. QED
    BY <1>1, <1>2, <1>5, <2>4, <2>8, HolderIs, HolderBase
<1>. QED
  BY <1>3, <1>4, <1>5

(* Turning to the stale manifests.                                         *)
LEMMA StartPruningKeepsBase ==
  ASSUME Base, NEW p \in Process, StartPruning(p), faults' \subseteq Faults
  PROVE  Base'
<1>1. /\ version' = version /\ owner' = owner /\ lock' = lock /\ file' = file
  BY DEF StartPruning
<1>2. /\ run[p].pc = "artifacts" /\ run[p].todo = {} /\ Typed /\ Shape(p) /\ Mutated(p)
      /\ lock = p /\ run[p].pc \in Working
  BY HolderIs, StartPruningIs DEF Working
<1>3. run[p].undo = <<>> /\ Range(run[p].undo) = {}
  BY <1>2, EmptyJournal DEF Shape
<1>4. CASE Moved(p, "saving")
  <2>. USE DEF Moved, SameRecords, SameWork, SameHand
  <2>1. Planned(p)' = Planned(p)
    BY <1>4, GoalStays
  <2>2. "saving" \in Working /\ "saving" \in Locked /\ "saving" \notin Writing
    BY DEF Working, Locked, Writing
  <2>3. Shape(p)'
    BY <1>1, <1>2, <1>4, <2>1, <2>2 DEF Shape, SameGoal
  <2>4. Mutated(p)'
    BY <1>2, <1>4, <2>1, <2>2 DEF Mutated, Mutations, SameGoal
  <2>. QED
    BY <1>1, <1>2, <1>4, <2>3, <2>4, HolderIs, HolderBase
<1>5. CASE /\ Frame(p) /\ SameGoal(p) /\ SameRecords(p) /\ SameWork(p)
           /\ run'[p].pc = "pruning"
           /\ run'[p].todo = Stale(p) /\ run'[p].cur = run[p].cur
  <2>. USE DEF SameRecords, SameWork
  <2>1. /\ Planned(p)' = Planned(p) /\ Stale(p)' = Stale(p)
        /\ Stale(p) \subseteq run[p].only
    BY <1>5, GoalStays DEF Stale
  <2>2. "pruning" \in Working /\ "pruning" \in Locked /\ "pruning" \notin Writing
    BY DEF Working, Locked, Writing
  <2>3. Shape(p)'
    BY <1>1, <1>2, <1>5, <2>1, <2>2 DEF Shape, SameGoal
  <2>4. Mutated(p)'
    BY <1>2, <1>3, <1>5, <2>1, <2>2 DEF Mutated, Mutations, SameGoal
  <2>. QED
    BY <1>1, <1>2, <1>5, <2>3, <2>4, HolderIs, HolderBase
<1>. QED
  BY <1>4, <1>5, <1>2, StartPruningIs

(* Removing a stale manifest.                                              *)
LEMMA PruneKeepsBase ==
  ASSUME Base, NEW p \in Process, Prune(p), faults' \subseteq Faults
  PROVE  Base'
<1>1. /\ version' = version /\ owner' = owner /\ lock' = lock
  BY DEF Prune
<1>2. /\ run[p].pc = "pruning" /\ Typed /\ Shape(p) /\ Mutated(p) /\ lock = p
      /\ run[p].pc \in Working /\ run[p].cur = {} /\ run[p].todo \subseteq Stale(p)
  BY HolderIs, PruneIs DEF Working, Shape
<1>3. CASE /\ Frame(p) /\ SameGoal(p) /\ SameRecords(p)
           /\ run'[p].pc = "unpruning"
           /\ run'[p].todo = {} /\ run'[p].cur = run[p].cur
           /\ run'[p].journal = run[p].journal /\ run'[p].undo = run[p].undo
           /\ file' = file
  <2>. USE DEF SameRecords
  <2>1. Planned(p)' = Planned(p) /\ Stale(p)' = Stale(p)
    BY <1>3, GoalStays
  <2>2. "unpruning" \in Working /\ "unpruning" \in Locked /\ "unpruning" \notin Writing
    BY DEF Working, Locked, Writing
  <2>3. Shape(p)'
    BY <1>1, <1>2, <1>3, <2>1, <2>2 DEF Shape, SameGoal
  <2>4. Mutated(p)'
    BY <1>2, <1>3, <2>1, <2>2 DEF Mutated, Mutations, SameGoal
  <2>. QED
    BY <1>1, <1>2, <1>3, <2>3, <2>4, HolderIs, HolderBase
<1>4. ASSUME NEW q \in run[p].todo,
             file' = [file EXCEPT ![q] = Absent],
             Frame(p), SameGoal(p), SameRecords(p),
             run'[p].pc = "pruning",
             run'[p].todo = run[p].todo \ {q}, run'[p].cur = run[p].cur,
             run'[p].journal = run[p].journal,
             run'[p].undo = run[p].undo \o Entry(q, file[q], None)
      PROVE  Base'
  <2>. USE DEF SameRecords
  <2>. DEFINE f == Mutation(q, file[q], None)
  <2>1. Planned(p)' = Planned(p) /\ Stale(p)' = Stale(p) /\ Stale(p) \subseteq run[p].only
    BY <1>4, GoalStays DEF Stale
  <2>2. "pruning" \in Working /\ "pruning" \in Locked /\ "pruning" \notin Writing
    BY DEF Working, Locked, Writing
  <2>3. /\ q \in Path /\ q \in Stale(p) /\ file[q] \in Contents
        /\ f.path = q /\ f.after = None
    BY <1>2, RunIs, HolderIs, AbsentIsContent, EntryAdded
  <2>4. /\ Range(run'[p].undo) = Range(run[p].undo) \cup {f}
        /\ Once(run[p].undo) /\ (\A d \in Range(run[p].undo) : d.path # q) => Once(run'[p].undo)
    BY <1>4, <2>3, <1>2, RunIs, AbsentIsContent, EntryAdded
  <2>. HIDE DEF f
  <2>5. Shape(p)'
    BY <1>1, <1>2, <1>4, <2>1, <2>2 DEF Shape, SameGoal
  <2>6. Once(run'[p].undo)
    BY <1>2, <2>4 DEF Mutated
  <2>7. \A e \in Range(run'[p].undo) : e.path \in Stale(p) \ run'[p].todo /\ e.after = None
    BY <1>2, <1>4, <2>3, <2>4 DEF Mutated
  <2>8. Mutated(p)'
    BY <1>2, <1>4, <2>1, <2>2, <2>6, <2>7 DEF Mutated, Mutations, SameGoal
  <2>9. file' \in [Path -> Contents]
    BY <1>4, <2>3, HolderIs, AbsentIsContent
  <2>. QED
    BY <1>1, <1>2, <1>4, <2>5, <2>8, <2>9, HolderIs, HolderBase
<1>. QED
  BY <1>2, <1>3, <1>4, PruneIs

(* Entering the removals.                                                  *)
LEMMA PruningDoneKeepsBase ==
  ASSUME Base, NEW p \in Process, PruningDone(p), faults' \subseteq Faults
  PROVE  Base'
<1>1. /\ version' = version /\ owner' = owner /\ lock' = lock /\ file' = file
  BY DEF PruningDone
<1>2. /\ run[p].pc = "pruning" /\ Typed /\ Shape(p) /\ Mutated(p) /\ lock = p
      /\ run[p].pc \in Working
  BY HolderIs, PruningDoneIs DEF Working
<1>3. /\ Frame(p) /\ SameGoal(p) /\ SameRecords(p) /\ SameHand(p)
      /\ run'[p].pc = "saving"
      /\ run'[p].journal = run[p].journal \o run[p].undo /\ run'[p].undo = <<>>
  BY <1>2, PruningDoneIs
<1>4. Planned(p)' = Planned(p) /\ Stale(p) \cap Planned(p) = {}
  BY <1>3, GoalStays DEF Stale, Planned
<1>5. "saving" \in Working /\ "saving" \in Locked /\ "saving" \notin Writing
  BY DEF Working, Locked, Writing
<1>6. \A d \in Range(run[p].journal), e \in Range(run[p].undo) : d.path # e.path
  BY <1>2, <1>4 DEF Mutated
<1>7. /\ Range(run'[p].journal) = Range(run[p].journal) \cup Range(run[p].undo)
      /\ Once(run'[p].journal) /\ Range(run'[p].undo) = {} /\ Once(run'[p].undo)
  BY <1>2, <1>3, <1>6, RunIs, JournalGrows, EmptyJournal DEF Mutated
<1>8. Shape(p)'
  BY <1>1, <1>2, <1>3, <1>4, <1>5 DEF Shape, SameGoal, SameRecords, SameHand
<1>9. Mutated(p)'
  BY <1>2, <1>3, <1>4, <1>5, <1>7 DEF Mutated, Mutations, SameGoal, SameRecords
<1>. QED
  BY <1>1, <1>2, <1>3, <1>8, <1>9, HolderIs, HolderBase

(* Saving the records.                                                     *)
LEMMA SaveKeepsBase ==
  ASSUME Base, NEW p \in Process, writeOwnershipState(p), faults' \subseteq Faults
  PROVE  Base'
<1>1. /\ version' = version /\ lock' = lock /\ file' = file
  BY DEF writeOwnershipState
<1>2. /\ run[p].pc = "saving" /\ Typed /\ Shape(p) /\ Mutated(p) /\ lock = p
      /\ run[p].pc \in Working
  BY HolderIs, SaveIs DEF Working
<1>3. Planned(p)' = Planned(p)
  BY <1>2, SaveIs, GoalStays DEF Moved
<1>4. CASE /\ owner' = [q \in Path |-> IF q \in Removed(p) THEN None
                                       ELSE IF run[p].made[q] # None THEN run[p].made[q]
                                       ELSE run[p].prev[q]]
           /\ Moved(p, "releasing")
  <2>. USE DEF Moved, SameRecords, SameWork, SameHand
  <2>1. "releasing" \notin Working /\ "releasing" \in Locked /\ "releasing" \notin Writing
    BY DEF Working, Locked, Writing
  <2>2. Shape(p)'
    BY <1>1, <1>2, <1>4, <2>1 DEF Shape, SameGoal
  <2>3. Mutated(p)'
    BY <1>2, <1>3, <1>4, <2>1 DEF Mutated, Mutations, SameGoal
  <2>4. owner' \in Records
    BY <1>2, <1>4, RunIs, AbsentIsContent DEF Records
  <2>. QED
    BY <1>1, <1>2, <1>4, <2>2, <2>3, <2>4, HolderIs, HolderBase
<1>5. CASE /\ owner' = owner
           /\ Frame(p) /\ SameGoal(p) /\ SameRecords(p) /\ SameHand(p)
           /\ run'[p].pc = "undoing"
           /\ run'[p].journal = run[p].journal /\ run'[p].undo = run[p].journal
  <2>. USE DEF SameRecords, SameHand
  <2>1. "undoing" \in Working /\ "undoing" \in Locked /\ "undoing" \notin Writing
    BY DEF Working, Locked, Writing
  <2>2. Shape(p)'
    BY <1>1, <1>2, <1>5, <2>1 DEF Shape, SameGoal
  <2>3. Mutated(p)'
    BY <1>2, <1>3, <1>5, <2>1 DEF Mutated, Mutations, SameGoal
  <2>. QED
    BY <1>1, <1>2, <1>5, <2>2, <2>3, HolderIs, HolderBase
<1>. QED
  BY <1>2, <1>4, <1>5, SaveIs

(* Undoing a mutation.                                                     *)
LEMMA RollbackKeepsBase ==
  ASSUME Base, NEW p \in Process, Rollback(p), faults' \subseteq Faults
  PROVE  Base'
<1>. DEFINE last == run[p].undo[Len(run[p].undo)]
            rest == SubSeq(run[p].undo, 1, Len(run[p].undo) - 1)
<1>1. /\ version' = version /\ owner' = owner /\ lock' = lock
  BY DEF Rollback
<1>2. /\ run[p].pc \in {"unpruning", "undoing"} /\ Typed /\ Shape(p) /\ Mutated(p) /\ lock = p
      /\ run[p].pc \in Working /\ run[p].pc \in Locked /\ run[p].pc \notin Writing
      /\ run[p].undo # <<>>
  BY HolderIs, RollbackIs DEF Working, Locked, Writing
<1>3. /\ Frame(p) /\ SameGoal(p) /\ SameRecords(p) /\ SameHand(p)
      /\ run'[p].pc = run[p].pc /\ run'[p].journal = run[p].journal /\ run'[p].undo = rest
      /\ \/ file' = [file EXCEPT ![last.path] = IF @.hash = last.after THEN last.before ELSE @]
         \/ file' = file
  BY <1>2, RollbackIs
<1>4. /\ last \in Entries /\ Range(rest) \subseteq Range(run[p].undo)
      /\ Once(run[p].undo) => Once(rest)
  BY <1>2, RunIs, JournalShrinks
<1>. HIDE DEF last, rest
<1>5. Planned(p)' = Planned(p) /\ Stale(p)' = Stale(p)
  BY <1>3, GoalStays DEF SameRecords
<1>6. Shape(p)'
  BY <1>1, <1>2, <1>3, <1>5 DEF Shape, SameGoal, SameRecords, SameHand
<1>7. Mutated(p)'
  BY <1>2, <1>3, <1>4, <1>5 DEF Mutated, Mutations, SameGoal, SameRecords, SameHand
<1>8. file' \in [Path -> Contents]
  BY <1>2, <1>3, <1>4, HolderIs DEF Entries
<1>. QED
  BY <1>1, <1>2, <1>3, <1>6, <1>7, <1>8, HolderIs, HolderBase

(* The end of an undo.                                                     *)
LEMMA RollbackDoneKeepsBase ==
  ASSUME Base, NEW p \in Process, RollbackDone(p), faults' \subseteq Faults
  PROVE  Base'
<1>1. /\ version' = version /\ owner' = owner /\ lock' = lock /\ file' = file
  BY DEF RollbackDone
<1>2. /\ run[p].pc \in {"unpruning", "undoing"} /\ Typed /\ Shape(p) /\ Mutated(p) /\ lock = p
      /\ run[p].pc \in Working /\ run[p].undo = <<>>
  BY HolderIs, RollbackDoneIs DEF Working
<1>3. Moved(p, run'[p].pc) /\ run'[p].pc \in {"saving", "releasing"}
      /\ (run'[p].pc = "saving" => run[p].pc \in Working)
  BY <1>2, RollbackDoneIs DEF Moved
<1>4. Planned(p)' = Planned(p)
  BY <1>3, GoalStays DEF Moved
<1>5. /\ "saving" \in Working /\ "saving" \in Locked /\ "saving" \notin Writing
      /\ "releasing" \notin Working /\ "releasing" \in Locked /\ "releasing" \notin Writing
  BY DEF Working, Locked, Writing
<1>. USE DEF Moved, SameRecords, SameWork, SameHand
<1>6. Shape(p)'
  BY <1>1, <1>2, <1>3, <1>4, <1>5 DEF Shape, SameGoal
<1>7. Mutated(p)'
  BY <1>2, <1>3, <1>4, <1>5 DEF Mutated, Mutations, SameGoal
<1>. QED
  BY <1>1, <1>2, <1>3, <1>6, <1>7, HolderIs, HolderBase

(* Finishing and dying drop the lock and leave nothing in hand.            *)
LEMMA EndKeepsBase ==
  ASSUME Base, NEW p \in Process, releaseSyncLock(p) \/ Crash(p), faults' \subseteq Faults
  PROVE  Base'
<1>1. /\ version' = version /\ owner' = owner /\ file' = file /\ lock' = Nobody
      /\ Becomes(p, Idle)
      /\ run[p].pc = "releasing" \/ lock = p
  BY DEF releaseSyncLock, Crash, At
<1>2. Typed /\ lock = p
  BY <1>1, HolderIs
<1>3. Frame(p) /\ run'[p] = Idle
  BY <1>1, <1>2, IdledIs
<1>4. lock' # p
  BY <1>1, SyncConstants DEF SyncConstants
<1>5. Shape(p)' /\ Mutated(p)'
  BY <1>3, <1>4, IdleRests
<1>. QED
  BY <1>1, <1>2, <1>3, <1>5, HolderIs, HolderBase

(* Taking the free lock.                                                   *)
LEMMA AcquireKeepsBase ==
  ASSUME Base, NEW p \in Process, acquireSyncLock(p), faults' \subseteq Faults
  PROVE  Base'
<1>1. /\ version' = version /\ owner' = owner /\ file' = file /\ lock = Nobody /\ lock' = p
      /\ run[p].pc = "waiting" /\ Goto(p, "loading")
  BY DEF acquireSyncLock, At
<1>2. Typed /\ Shape(p) /\ Mutated(p)
  BY HolderIs
<1>3. Moved(p, "loading")
  BY <1>1, <1>2, GotoIs, PhasesAre
<1>. USE DEF Moved, SameRecords, SameWork, SameHand
<1>4. Planned(p)' = Planned(p)
  BY <1>3, GoalStays
<1>5. "loading" \notin Working /\ "loading" \in Locked /\ "loading" \notin Writing
  BY DEF Working, Locked, Writing
<1>6. Shape(p)'
  BY <1>1, <1>2, <1>3, <1>4, <1>5 DEF Shape, SameGoal
<1>7. Mutated(p)'
  BY <1>2, <1>3, <1>4, <1>5, <1>1, EmptyJournal DEF Shape, Mutated, Mutations, SameGoal
<1>. QED
  BY <1>1, <1>2, <1>3, <1>6, <1>7, HolderIs, HolderBase

(* A command that reads the configuration, or stops waiting.               *)
LEMMA OutsideKeeps ==
  ASSUME Base, NEW p \in Process,
         GiveUp(p) \/ \E only \in Filters, force \in BOOLEAN : Begin(p, only, force)
  PROVE  /\ Frame(p) /\ UNCHANGED <<version, file, owner, lock, faults>>
         /\ Shape(p)' /\ Mutated(p)' /\ UsersApart(p)' /\ Between(p)' /\ Reached(p)'
<1>1. UNCHANGED <<version, file, owner, lock, faults>> /\ run[p].pc \in {"idle", "waiting"}
  BY DEF GiveUp, Begin, At
<1>2. Typed /\ Shape(p) /\ lock # p
  BY <1>1, HolderIs
<1>3. CASE GiveUp(p)
  <2>1. Frame(p) /\ run'[p] = Idle
    BY <1>2, <1>3, IdledIs DEF GiveUp
  <2>. QED
    BY <1>1, <1>2, <2>1, IdleRests
<1>4. ASSUME NEW only \in Filters, NEW force \in BOOLEAN, Begin(p, only, force)
      PROVE  /\ Frame(p)
             /\ Shape(p)' /\ Mutated(p)' /\ UsersApart(p)' /\ Between(p)' /\ Reached(p)'
  <2>1. /\ Frame(p) /\ SameRecords(p) /\ SameWork(p) /\ SameHand(p)
        /\ run'[p].pc = "waiting" /\ run'[p].version = version /\ version \in 1..Len(Plans)
    BY <1>2, <1>4, BeginIs DEF Typed
  <2>2. /\ run'[p].todo = {} /\ run'[p].cur = {} /\ run'[p].made = [q \in Path |-> None]
        /\ run'[p].journal = <<>> /\ run'[p].undo = <<>>
    BY <1>1, <1>2, <2>1 DEF Shape, SameRecords, SameWork, SameHand
  <2>. QED
    BY <1>1, <1>2, <2>1, <2>2, RestIsFine
<1>. QED
  BY <1>1, <1>3, <1>4

(* Steps outside the lock.                                                 *)
LEMMA OutsideKeepsBase ==
  ASSUME Base, NEW p \in Process,
         GiveUp(p) \/ \E only \in Filters, force \in BOOLEAN : Begin(p, only, force)
  PROVE  Base'
<1>1. /\ Frame(p) /\ UNCHANGED <<version, file, owner, lock, faults>>
      /\ Shape(p)' /\ Mutated(p)'
  BY OutsideKeeps
<1>2. Typed'
  BY <1>1 DEF Base, Typed, Frame
<1>3. \A o \in Process \ {p} : Shape(o)' /\ Mutated(o)'
  BY <1>1, Undisturbed DEF Frame, Base
<1>. QED
  BY <1>1, <1>2, <1>3 DEF Base

(* What others do is not a step of any command.                            *)
LEMMA WorldKeepsBase ==
  ASSUME Base, ConfigChanges \/ Edit \/ Rotate, faults' \subseteq Faults
  PROVE  Base'
<1>1. owner' = owner /\ lock' = lock /\ run' = run
  BY DEF ConfigChanges, Edit, Rotate
<1>2. version' \in 1..Len(Plans)
  <2>1. Len(Plans) \in Nat /\ version \in 1..Len(Plans)
    BY SyncConstants DEF SyncConstants, Base, Typed
  <2>2. version' = version \/ (version < Len(Plans) /\ version' = version + 1)
    BY DEF ConfigChanges, Edit, Rotate
  <2>. QED
    BY <2>1, <2>2
<1>3. file' \in [Path -> Contents]
  <2>1. file \in [Path -> Contents]
    BY DEF Base, Typed
  <2>2. CASE ConfigChanges
    BY <2>1, <2>2 DEF ConfigChanges
  <2>3. CASE Edit
    <3>1. PICK q \in Path :
            \/ \E n \in Fresh(q) :
                 file' = [file EXCEPT ![q] = [hash |-> n, val |-> "theirs", by |-> "user"]]
            \/ file' = [file EXCEPT ![q] = Absent]
      BY <2>3 DEF Edit
    <3>2. ASSUME NEW n \in Fresh(q)
          PROVE  [hash |-> n, val |-> "theirs", by |-> "user"] \in Contents
      BY FreshIs, ContentsAre
    <3>. QED
      BY <2>1, <3>1, <3>2, AbsentIsContent
  <2>4. CASE Rotate
    <3>. DEFINE c(q) == [file[q] EXCEPT !.hash = CHOOSE n \in Fresh(q) : TRUE,
                                        !.by = IF @ = "user" THEN @ ELSE "rotation"]
    <3>1. \A q \in Path : There(file[q]) => c(q) \in Contents
      <4>1. SUFFICES ASSUME NEW q \in Path, There(file[q]) PROVE c(q) \in Contents
        OBVIOUS
      <4>2. (CHOOSE n \in Fresh(q) : TRUE) \in Fresh(q)
        BY <2>4, <4>1 DEF Rotate
      <4>3. (CHOOSE n \in Fresh(q) : TRUE) \in 0..MaxId
        BY <4>2, FreshIs
      <4>. HIDE DEF Fresh
      <4>. QED
        BY <2>1, <4>3 DEF Contents
    <3>2. file' = [q \in Path |-> IF There(file[q]) THEN c(q) ELSE Absent]
      BY <2>4 DEF Rotate
    <3>. HIDE DEF c
    <3>. QED
      BY <3>1, <3>2, AbsentIsContent
  <2>. QED
    BY <2>2, <2>3, <2>4
<1>4. Typed'
  BY <1>1, <1>2, <1>3 DEF Base, Typed
<1>5. \A o \in Process : Shape(o)' /\ Mutated(o)'
  BY <1>1, Undisturbed DEF Base
<1>. QED
  BY <1>4, <1>5 DEF Base

(* Types and phases hold at the start and after every step.                *)
LEMMA InitBase == Init => Base
<1>. SUFFICES ASSUME Init PROVE Base
  OBVIOUS
<1>1. Typed
  <2>1. 1 \in 1..Len(Plans) /\ Nobody \notin Process
    BY SyncConstants DEF SyncConstants
  <2>. QED
    BY <2>1, IdleIs, AbsentIsContent DEF Init, Typed, Records
<1>2. ASSUME NEW p \in Process
      PROVE  Shape(p) /\ Mutated(p)
  <2>1. run[p] = Idle /\ lock # p
    BY SyncConstants DEF SyncConstants, Init
  <2>2. /\ run[p].pc \notin Locked /\ run[p].pc \notin Working /\ run[p].pc \notin Writing
        /\ Mutations(run[p]) = {} /\ run[p].pc = "idle"
    BY <2>1, IdleIs, EmptyJournal DEF Locked, Working, Writing, Mutations
  <2>3. Shape(p)
    BY <2>1, <2>2, IdleIs DEF Shape
  <2>4. Mutated(p)
    BY <2>1, <2>2, IdleIs, EmptyJournal DEF Mutated
  <2>. QED
    BY <2>3, <2>4
<1>. QED
  BY <1>1, <1>2 DEF Base

(* Every step keeps types and phases.                                      *)
LEMMA NextBase == Base /\ [Next]_vars => Base'
<1>. SUFFICES ASSUME Base, [Next]_vars PROVE Base'
  OBVIOUS
<1>1. faults' \subseteq Faults
  BY FaultsAre DEF Base
<1>2. CASE UNCHANGED vars
  <2>1. Typed'
    BY <1>2 DEF vars, Base, Typed
  <2>2. \A p \in Process : Shape(p)' /\ Mutated(p)'
    BY <1>2, Undisturbed DEF vars, Base
  <2>. QED
    BY <2>1, <2>2 DEF Base
<1>3. ASSUME NEW p \in Process, Proceed(p)
      PROVE  Base'
  BY <1>1, <1>3, LoadKeepsBase, CheckKeepsBase, WriteKeepsBase, ReadBackKeepsBase,
     StartPruningKeepsBase, PruneKeepsBase, PruningDoneKeepsBase, SaveKeepsBase,
     RollbackKeepsBase, RollbackDoneKeepsBase, EndKeepsBase DEF Proceed
<1>4. ASSUME NEW p \in Process,
             \/ acquireSyncLock(p) \/ GiveUp(p) \/ Crash(p)
             \/ \E only \in Filters, force \in BOOLEAN : Begin(p, only, force)
      PROVE  Base'
  BY <1>1, <1>4, AcquireKeepsBase, OutsideKeepsBase, EndKeepsBase
<1>5. CASE ConfigChanges \/ Edit \/ Rotate
  BY <1>1, <1>5, WorldKeepsBase
<1>. QED
  BY <1>2, <1>3, <1>4, <1>5 DEF Next

(* Types and phases are invariant.                                         *)
LEMMA BaseHolds == Spec => []Base
BY InitBase, NextBase, PTL DEF Spec

(* Type correctness: the state file and the manifests stay what they are,  *)
(* and the lock of SyncSecrets is held exactly while a sync is under way.  *)
THEOREM TypesAreKept == Spec => []TypeOK
<1>1. Base => TypeOK
  <2>. SUFFICES ASSUME Base PROVE TypeOK
    OBVIOUS
  <2>1. ASSUME NEW p \in Process
        PROVE  /\ ~At(p, "idle") /\ ~At(p, "waiting") <=> lock = p
               /\ run[p].todo \cup run[p].cur \subseteq run[p].only
               /\ run[p].only \subseteq Path
    <3>1. Typed /\ Shape(p) /\ run[p].pc \in Phases /\ run[p].only \subseteq Path
      BY HolderIs, RunIs
    <3>2. run[p].pc \in Locked <=> run[p].pc \notin {"idle", "waiting"}
      BY <3>1 DEF Phases, Locked, Working, Writing
    <3>. QED
      BY <3>1, <3>2 DEF Shape, At
  <2>. QED
    BY <2>1 DEF Base, Typed, TypeOK, Records
<1>. QED
  BY <1>1, BaseHolds, PTL

-----------------------------------------------------------------------------
(* The filter.                                                             *)

(* The steps that change a manifest or a record while the lock is held.    *)
LEMMA WhoWrites ==
  ASSUME Base, [Next]_vars, lock # Nobody, "race" \notin faults'
  PROVE  \/ file' = file /\ owner' = owner
         \/ \E p \in Process :
              /\ lock = p
              /\ writeEncryptedManifest(p) \/ Prune(p) \/ writeOwnershipState(p) \/ Rollback(p)
<1>1. CASE UNCHANGED vars
  BY <1>1 DEF vars
<1>2. ASSUME NEW p \in Process,
             writeEncryptedManifest(p) \/ Prune(p) \/ writeOwnershipState(p) \/ Rollback(p)
      PROVE  lock = p
  BY <1>2, HolderIs DEF writeEncryptedManifest, Prune, writeOwnershipState, Rollback, At
<1>3. ASSUME NEW p \in Process,
             \/ loadOwnership(p) \/ CheckArtifact(p) \/ ReadBack(p) \/ StartPruning(p)
             \/ PruningDone(p) \/ RollbackDone(p) \/ releaseSyncLock(p)
      PROVE  file' = file /\ owner' = owner
  BY <1>3 DEF loadOwnership, CheckArtifact, ReadBack, StartPruning, PruningDone, RollbackDone,
              releaseSyncLock
<1>4. ASSUME NEW p \in Process,
             \/ acquireSyncLock(p) \/ GiveUp(p) \/ Crash(p)
             \/ \E only \in Filters, force \in BOOLEAN : Begin(p, only, force)
      PROVE  file' = file /\ owner' = owner
  BY <1>4 DEF acquireSyncLock, GiveUp, Crash, Begin
<1>5. CASE ConfigChanges
  BY <1>5 DEF ConfigChanges
<1>6. ~Edit /\ ~Rotate
  BY DEF Edit, Rotate, Fault
<1>. QED
  BY <1>1, <1>2, <1>3, <1>4, <1>5, <1>6 DEF Next, Proceed

(* A step under the lock touches what the command is about.                *)
LEMMA StepRespectsFilter ==
  ASSUME Base, [Next]_vars, lock # Nobody, "race" \notin faults',
         NEW q \in Path \ run[lock].only
  PROVE  file'[q] = file[q] /\ owner'[q] = owner[q]
<1>1. CASE file' = file /\ owner' = owner
  BY <1>1
<1>2. ASSUME NEW p \in Process, lock = p,
             writeEncryptedManifest(p) \/ Prune(p) \/ writeOwnershipState(p) \/ Rollback(p)
      PROVE  file'[q] = file[q] /\ owner'[q] = owner[q]
  <2>1. /\ Typed /\ Shape(p) /\ Mutated(p) /\ file \in [Path -> Contents] /\ owner \in Records
        /\ run[p].cur \subseteq run[p].only /\ run[p].todo \subseteq run[p].only
        /\ q \notin run[p].only
    BY <1>2, HolderIs DEF Shape
  <2>2. CASE writeEncryptedManifest(p)
    <3>1. owner' = owner
      BY <2>2 DEF writeEncryptedManifest
    <3>. QED
      BY <2>1, <2>2, <3>1, WriteIs
  <2>3. CASE Prune(p)
    <3>1. owner' = owner
      BY <2>3 DEF Prune
    <3>. QED
      BY <2>1, <2>3, <3>1, PruneIs
  <2>4. CASE Rollback(p)
    <3>. DEFINE last == run[p].undo[Len(run[p].undo)]
    <3>1. owner' = owner
      BY <2>4 DEF Rollback
    <3>2. /\ run[p].undo # <<>>
          /\ \/ file' = [file EXCEPT ![last.path] = IF @.hash = last.after THEN last.before ELSE @]
             \/ file' = file
      BY <2>1, <2>4, RollbackIs
    <3>3. last \in Range(run[p].undo)
      BY <2>1, <3>2, RunIs, JournalShrinks
    <3>. HIDE DEF last
    <3>4. last.path # q
      BY <2>1, <3>3 DEF Mutated, Mutations
    <3>. QED
      BY <2>1, <3>1, <3>2, <3>4
  <2>5. CASE writeOwnershipState(p)
    <3>1. /\ file' = file /\ run[p].pc = "saving"
      BY <2>5 DEF writeOwnershipState, At
    <3>2. run[p].prev = owner
      BY <2>1, <3>1 DEF Shape, Working
    <3>3. run[p].made[q] = None
      BY <2>1 DEF Mutated, Planned
    <3>4. q \notin Removed(p)
      BY <2>1 DEF Mutated, Mutations, Removed
    <3>. QED
      BY <2>1, <2>5, <3>1, <3>2, <3>3, <3>4, SaveIs
  <2>. QED
    BY <1>2, <2>2, <2>3, <2>4, <2>5
<1>. QED
  BY <1>1, <1>2, WhoWrites

(* A limited sync: SyncSecrets with a service filter never writes, prunes, *)
(* rolls back or re-records a manifest of a service outside the filter,    *)
(* whatever fails.                                                         *)
THEOREM FilterIsRespected == Spec => FilterRespected
<1>1. Base /\ [Next]_vars =>
        (lock # Nobody /\ "race" \notin faults' =>
           \A q \in Path \ run[lock].only : file'[q] = file[q] /\ owner'[q] = owner[q])
  BY StepRespectsFilter
<1>. QED
  BY <1>1, BaseHolds, PTL DEF Spec, FilterRespected

-----------------------------------------------------------------------------
(* What is somebody else's.                                                *)

(* A step under the lock keeps what a user wrote.                          *)
LEMMA StepKeepsTheirs ==
  ASSUME Base, Users, [Next]_vars, lock # Nobody, "race" \notin faults',
         NEW q \in Path, file[q].by = "user"
  PROVE  file'[q] = file[q]
<1>1. CASE file' = file /\ owner' = owner
  BY <1>1
<1>2. ASSUME NEW p \in Process, lock = p,
             writeEncryptedManifest(p) \/ Prune(p) \/ writeOwnershipState(p) \/ Rollback(p)
      PROVE  file'[q] = file[q]
  <2>1. /\ Typed /\ Shape(p) /\ Mutated(p) /\ file \in [Path -> Contents]
    BY <1>2, HolderIs
  <2>2. /\ UsersApart(p) /\ There(file[q]) /\ owner[q] # file[q].hash
    BY FaultsAre DEF Base, Users
  <2>3. CASE writeEncryptedManifest(p)
    BY <2>1, <2>2, <2>3, WriteIs DEF UsersApart, Writing
  <2>4. CASE Prune(p)
    <3>1. run[p].prev = owner
      BY <2>1, <2>4, PruneIs DEF Shape, Working
    <3>. QED
      BY <2>1, <2>2, <2>4, <3>1, PruneIs
  <2>5. CASE Rollback(p)
    <3>. DEFINE last == run[p].undo[Len(run[p].undo)]
    <3>1. /\ run[p].undo # <<>>
          /\ \/ file' = [file EXCEPT ![last.path] = IF @.hash = last.after THEN last.before ELSE @]
             \/ file' = file
      BY <2>1, <2>5, RollbackIs
    <3>2. last \in Range(run[p].undo)
      BY <2>1, <3>1, RunIs, JournalShrinks
    <3>. HIDE DEF last
    <3>3. last.path # q
      BY <2>2, <3>2 DEF UsersApart, Mutations
    <3>. QED
      BY <2>1, <3>1, <3>3
  <2>6. CASE writeOwnershipState(p)
    BY <2>6 DEF writeOwnershipState
  <2>. QED
    BY <1>2, <2>3, <2>4, <2>5, <2>6
<1>. QED
  BY <1>1, <1>2, WhoWrites

(* No step under the lock makes a manifest somebody else's.                *)
LEMMA NothingBecomesTheirs ==
  ASSUME Base, Users, [Next]_vars, lock # Nobody, "race" \notin faults',
         NEW q \in Path, file'[q].by = "user"
  PROVE  file'[q] = file[q]
<1>1. CASE file' = file /\ owner' = owner
  BY <1>1
<1>2. ASSUME NEW p \in Process, lock = p,
             writeEncryptedManifest(p) \/ Prune(p) \/ writeOwnershipState(p) \/ Rollback(p)
      PROVE  file'[q] = file[q]
  <2>1. /\ Typed /\ Shape(p) /\ Mutated(p) /\ file \in [Path -> Contents]
    BY <1>2, HolderIs
  <2>2. UsersApart(p)
    BY FaultsAre DEF Base, Users
  <2>3. CASE writeEncryptedManifest(p)
    <3>1. PICK r \in run[p].cur :
            \/ \E n \in Fresh(r) :
                 file' = [file EXCEPT ![r] = [hash |-> n, val |-> Plan(p)[r], by |-> "sync"]]
            \/ file' = file
      BY <2>1, <2>3, WriteIs
    <3>2. ASSUME NEW n \in Fresh(r),
                 file' = [file EXCEPT ![r] = [hash |-> n, val |-> Plan(p)[r], by |-> "sync"]]
          PROVE  file'[q] = file[q]
      <4>1. CASE r = q
        <5>1. file'[q].by = "sync"
          BY <2>1, <3>2, <4>1
        <5>. QED
          BY <5>1
      <4>2. CASE r # q
        BY <2>1, <3>2, <4>2
      <4>. QED
        BY <4>1, <4>2
    <3>. QED
      BY <3>1, <3>2
  <2>4. CASE Prune(p)
    BY <2>1, <2>4, PruneIs, AbsentIsContent
  <2>5. CASE Rollback(p)
    <3>. DEFINE last == run[p].undo[Len(run[p].undo)]
    <3>1. /\ run[p].undo # <<>>
          /\ \/ file' = [file EXCEPT ![last.path] = IF @.hash = last.after THEN last.before ELSE @]
             \/ file' = file
      BY <2>1, <2>5, RollbackIs
    <3>2. last \in Range(run[p].undo)
      BY <2>1, <3>1, RunIs, JournalShrinks
    <3>. HIDE DEF last
    <3>3. last.before.by # "user"
      BY <2>2, <3>2 DEF UsersApart, Mutations
    <3>. QED
      BY <2>1, <3>1, <3>3
  <2>6. CASE writeOwnershipState(p)
    BY <2>6 DEF writeOwnershipState
  <2>. QED
    BY <1>2, <2>3, <2>4, <2>5, <2>6
<1>. QED
  BY <1>1, <1>2, WhoWrites

(* No step under the lock puts what is somebody else's on record.          *)
LEMMA TheirsStayUnrecorded ==
  ASSUME Base, Users, [Next]_vars, lock # Nobody, "race" \notin faults',
         NEW q \in Path, file'[q].by = "user"
  PROVE  There(file'[q]) /\ owner'[q] # file'[q].hash
<1>1. file'[q] = file[q]
  BY NothingBecomesTheirs
<1>2. There(file[q]) /\ owner[q] # file[q].hash
  BY <1>1, FaultsAre DEF Base, Users
<1>3. CASE owner' = owner
  BY <1>1, <1>2, <1>3
<1>4. ASSUME NEW p \in Process, lock = p, writeOwnershipState(p)
      PROVE  owner'[q] # file[q].hash
  <2>1. /\ Typed /\ Shape(p) /\ run[p].pc = "saving" /\ UsersApart(p)
    BY <1>4, HolderIs, FaultsAre DEF writeOwnershipState, At, Base, Users
  <2>2. run[p].prev = owner
    BY <2>1 DEF Shape, Working
  <2>3. run[p].made[q] = None
    BY <1>1, <2>1 DEF UsersApart
  <2>4. owner'[q] \in {None, owner[q]}
    BY <1>4, <2>1, <2>2, <2>3, SaveIs
  <2>. QED
    BY <1>2, <2>4 DEF There
<1>5. ASSUME NEW p \in Process, writeEncryptedManifest(p) \/ Prune(p) \/ Rollback(p)
      PROVE  owner' = owner
  BY <1>5 DEF writeEncryptedManifest, Prune, Rollback
<1>. QED
  BY <1>1, <1>2, <1>3, <1>4, <1>5, WhoWrites

(* A sync takes nothing of somebody else's in hand.                        *)
LEMMA HandsOff ==
  ASSUME Base, Users, [Next]_vars, "race" \notin faults', NEW p \in Process, lock = p, Proceed(p)
  PROVE  UsersApart(p)'
<1>1. /\ Typed /\ Shape(p) /\ Mutated(p) /\ file \in [Path -> Contents] /\ UsersApart(p)
      /\ lock # Nobody
  BY HolderIs, FaultsAre, SyncConstants DEF SyncConstants, Base, Users
<1>2. \A q \in Path : file'[q].by = "user" =>
        /\ file'[q] = file[q] /\ There(file[q]) /\ owner[q] # file[q].hash
        /\ run[p].made[q] = None
        /\ \A e \in Mutations(run[p]) : e.path # q
        /\ run[p].pc \in Writing => q \notin run[p].cur
  BY <1>1, NothingBecomesTheirs, FaultsAre DEF Base, Users, UsersApart
<1>. USE DEF SameRecords, SameWork, SameHand
<1>3. ASSUME NEW q, Skipped(p, q)
      PROVE  UsersApart(p)'
  BY <1>1, <1>2, <1>3 DEF Skipped, UsersApart, Mutations, Writing
<1>4. ASSUME NEW pc, Moved(p, pc), pc \notin Writing
      PROVE  UsersApart(p)'
  BY <1>1, <1>2, <1>4 DEF Moved, UsersApart, Mutations, Writing
<1>5. CASE loadOwnership(p)
  <2>1. CASE SameWork(p) /\ run'[p].pc = "artifacts" /\ run'[p].made = run[p].made
    BY <1>1, <1>2, <2>1 DEF UsersApart, Mutations, Writing
  <2>2. CASE Moved(p, "releasing")
    BY <1>4, <2>2 DEF Writing
  <2>. QED
    BY <1>1, <1>5, <2>1, <2>2, LoadIs
<1>6. CASE CheckArtifact(p)
  <2>1. PICK q \in run[p].todo :
          \/ Skipped(p, q)
          \/ /\ Ours(p, q) /\ SameRecords(p) /\ SameWork(p) /\ run'[p].cur = {q}
             /\ run'[p].pc = "kept" \/ (run'[p].pc = "writing" /\ run'[p].before = file[q])
    BY <1>1, <1>6, CheckIs
  <2>2. q \in Path /\ run[p].prev = owner /\ file' = file
    BY <1>1, <1>6, RunIs, CheckIs DEF Shape, Working, CheckArtifact
  <2>3. ASSUME Ours(p, q)
        PROVE  file[q].by # "user"
    BY <1>2, <2>2, <2>3 DEF Ours
  <2>4. CASE /\ Ours(p, q) /\ SameRecords(p) /\ SameWork(p) /\ run'[p].cur = {q}
             /\ run'[p].pc = "kept" \/ (run'[p].pc = "writing" /\ run'[p].before = file[q])
    BY <1>1, <1>2, <2>2, <2>3, <2>4 DEF UsersApart, Mutations, Writing
  <2>. QED
    BY <1>3, <2>1, <2>4
<1>7. CASE writeEncryptedManifest(p)
  <2>1. run[p].pc = "writing" /\ run[p].pc \in Writing
    BY <1>1, <1>7, WriteIs DEF Writing
  <2>2. CASE Moved(p, "written")
    BY <1>1, <1>2, <2>1, <2>2 DEF Moved, UsersApart, Mutations
  <2>. QED
    BY <1>1, <1>3, <1>7, <2>2, WriteIs
<1>8. CASE ReadBack(p)
  <2>1. /\ run[p].pc \in {"kept", "written"} /\ run[p].pc \in Writing
        /\ run[p].undo = <<>> /\ file' = file
    BY <1>1, <1>8, ReadBackIs DEF Writing, Shape, ReadBack
  <2>2. PICK q \in run[p].cur :
          \/ Skipped(p, q)
          \/ /\ run'[p].pc = "artifacts"
             /\ run'[p].made = [run[p].made EXCEPT ![q] = file[q].hash]
             /\ run'[p].undo = run[p].undo
             /\ run'[p].journal = IF run[p].pc = "written"
                                  THEN run[p].journal \o Entry(q, run[p].before, file[q].hash)
                                  ELSE run[p].journal
    BY <1>1, <1>8, ReadBackIs
  <2>3. CASE /\ run'[p].pc = "artifacts"
             /\ run'[p].made = [run[p].made EXCEPT ![q] = file[q].hash]
             /\ run'[p].undo = run[p].undo
             /\ run'[p].journal = IF run[p].pc = "written"
                                  THEN run[p].journal \o Entry(q, run[p].before, file[q].hash)
                                  ELSE run[p].journal
    <3>1. /\ q \in Path /\ file[q].by # "user" /\ file[q] \in Contents /\ file[q].hash \in 0..MaxId
          /\ run[p].made \in Records /\ run[p].journal \in Seq(Entries)
          /\ run[p].before \in Contents
      BY <1>1, <1>2, <2>1, RunIs DEF Contents
    <3>2. \A r \in Path : file'[r].by = "user" => run'[p].made[r] = None
      BY <1>2, <2>1, <2>3, <3>1 DEF Records
    <3>3. \A e \in Range(run'[p].journal) :
            \/ e \in Range(run[p].journal)
            \/ e.path = q /\ e.before.by # "user"
      <4>1. CASE run[p].pc = "written"
        <5>1. run[p].before.by # "user"
          BY <1>1, <4>1 DEF UsersApart
        <5>2. /\ Range(run'[p].journal) =
                   Range(run[p].journal) \cup {Mutation(q, run[p].before, file[q].hash)}
              /\ Mutation(q, run[p].before, file[q].hash).path = q
              /\ Mutation(q, run[p].before, file[q].hash).before = run[p].before
          BY <2>3, <3>1, <4>1, EntryAdded
        <5>. QED
          BY <5>1, <5>2
      <4>. QED
        BY <2>3, <4>1
    <3>4. \A r \in Path : file'[r].by = "user" => \A e \in Mutations(run'[p]) : e.path # r
      BY <1>2, <2>1, <2>3, <3>1, <3>3 DEF Mutations
    <3>5. \A e \in Mutations(run'[p]) : e.before.by # "user"
      BY <1>1, <2>3, <3>3 DEF Mutations, UsersApart
    <3>6. run'[p].pc \notin Writing /\ run'[p].pc \notin {"writing", "written"}
      BY <2>3 DEF Writing
    <3>. QED
      BY <3>2, <3>4, <3>5, <3>6 DEF UsersApart
  <2>. QED
    BY <1>3, <2>2, <2>3
<1>9. CASE StartPruning(p)
  <2>1. CASE Moved(p, "saving")
    BY <1>4, <2>1 DEF Writing
  <2>2. CASE SameRecords(p) /\ SameWork(p) /\ run'[p].pc = "pruning"
    BY <1>1, <1>2, <2>2 DEF UsersApart, Mutations, Writing
  <2>. QED
    BY <1>1, <1>9, <2>1, <2>2, StartPruningIs
<1>10. CASE Prune(p)
  <2>1. /\ run[p].pc = "pruning" /\ run[p].prev = owner
    BY <1>1, <1>10, PruneIs DEF Shape, Working
  <2>2. CASE /\ SameRecords(p) /\ run'[p].pc = "unpruning"
             /\ run'[p].journal = run[p].journal /\ run'[p].undo = run[p].undo
    BY <1>1, <1>2, <2>2 DEF UsersApart, Mutations, Writing
  <2>3. ASSUME NEW q \in run[p].todo,
               file[q].hash = run[p].prev[q],
               SameRecords(p), run'[p].pc = "pruning",
               run'[p].journal = run[p].journal,
               run'[p].undo = run[p].undo \o Entry(q, file[q], None)
        PROVE  UsersApart(p)'
    <3>1. /\ q \in Path /\ file[q] \in Contents /\ run[p].undo \in Seq(Entries)
          /\ file[q].by # "user"
      BY <1>1, <2>1, <2>3, RunIs, FaultsAre DEF Base, Users
    <3>2. /\ Range(run'[p].undo) = Range(run[p].undo) \cup {Mutation(q, file[q], None)}
          /\ Mutation(q, file[q], None).path = q
          /\ Mutation(q, file[q], None).before = file[q]
      BY <2>3, <3>1, AbsentIsContent, EntryAdded
    <3>3. \A e \in Mutations(run'[p]) :
            e \in Mutations(run[p]) \/ (e.path = q /\ e.before.by # "user")
      BY <2>3, <3>1, <3>2 DEF Mutations
    <3>4. \A r \in Path : file'[r].by = "user" => r # q
      BY <1>2, <3>1
    <3>. QED
      BY <1>1, <1>2, <2>3, <3>3, <3>4 DEF UsersApart, Writing
  <2>. QED
    BY <1>1, <1>10, <2>2, <2>3, PruneIs
<1>11. CASE PruningDone(p)
  <2>1. /\ SameRecords(p) /\ run'[p].pc = "saving"
        /\ run'[p].journal = run[p].journal \o run[p].undo /\ run'[p].undo = <<>>
    BY <1>1, <1>11, PruningDoneIs
  <2>2. Mutations(run'[p]) = Mutations(run[p])
    BY <1>1, <2>1, RunIs, JournalGrows, EmptyJournal DEF Mutations
  <2>. QED
    BY <1>1, <1>2, <2>1, <2>2 DEF UsersApart, Writing
<1>12. CASE writeOwnershipState(p)
  <2>1. CASE Moved(p, "releasing")
    BY <1>4, <2>1 DEF Writing
  <2>2. CASE /\ SameRecords(p) /\ run'[p].pc = "undoing"
             /\ run'[p].journal = run[p].journal /\ run'[p].undo = run[p].journal
    BY <1>1, <1>2, <2>2 DEF UsersApart, Mutations, Writing
  <2>. QED
    BY <1>1, <1>12, <2>1, <2>2, SaveIs
<1>13. CASE Rollback(p)
  <2>1. /\ run[p].undo # <<>> /\ SameRecords(p) /\ SameHand(p)
        /\ run[p].pc \in {"unpruning", "undoing"}
        /\ run'[p].pc = run[p].pc /\ run'[p].journal = run[p].journal
        /\ run'[p].undo = SubSeq(run[p].undo, 1, Len(run[p].undo) - 1)
    BY <1>1, <1>13, RollbackIs
  <2>2. Range(run'[p].undo) \subseteq Range(run[p].undo)
    BY <1>1, <2>1, RunIs, JournalShrinks
  <2>. QED
    BY <1>1, <1>2, <2>1, <2>2 DEF UsersApart, Mutations, Writing
<1>14. CASE RollbackDone(p)
  BY <1>1, <1>4, <1>14, RollbackDoneIs DEF Writing
<1>15. CASE releaseSyncLock(p)
  <2>1. lock' # p /\ run'[p] = Idle
    BY <1>1, <1>15, IdledIs, SyncConstants DEF SyncConstants, releaseSyncLock
  <2>. QED
    BY <2>1, IdleRests
<1>. QED
  BY <1>5, <1>6, <1>7, <1>8, <1>9, <1>10, <1>11, <1>12, <1>13, <1>14, <1>15 DEF Proceed

(* While the lock is free every command rests.                             *)
LEMMA AllRest ==
  ASSUME Base, run' = run, lock = Nobody, lock' = Nobody, NEW o \in Process
  PROVE  Shape(o)' /\ Mutated(o)' /\ UsersApart(o)' /\ Between(o)' /\ Reached(o)'
<1>1. lock # o /\ lock' # o /\ Shape(o) /\ run[o].pc \in Phases
  BY SyncConstants, HolderIs, RunIs DEF SyncConstants
<1>2. run[o].pc \in {"idle", "waiting"}
  BY <1>1 DEF Shape, Phases
<1>. QED
  BY <1>1, <1>2, RestIsFine DEF Shape

(* A rotation gives every manifest a new hash, and leaves it to whom it    *)
(* belongs.                                                                *)
LEMMA RotatedIs ==
  ASSUME Base, Rotate, NEW q \in Path, There(file[q])
  PROVE  /\ file'[q].hash \in Fresh(q) /\ file'[q].val = file[q].val
         /\ file'[q].by = "user" <=> file[q].by = "user"
<1>1. (CHOOSE n \in Fresh(q) : TRUE) \in Fresh(q) /\ file[q] \in Contents
  BY DEF Rotate, Base, Typed
<1>2. file'[q] = [file[q] EXCEPT !.hash = CHOOSE n \in Fresh(q) : TRUE,
                                 !.by = IF @ = "user" THEN @ ELSE "rotation"]
  BY DEF Rotate
<1>. DEFINE h == CHOOSE n \in Fresh(q) : TRUE
<1>. HIDE DEF h
<1>3. file'[q] = [file[q] EXCEPT !.hash = h, !.by = IF @ = "user" THEN @ ELSE "rotation"]
  BY <1>2 DEF h
<1>4. h \in Fresh(q)
  BY <1>1 DEF h
<1>. HIDE DEF Fresh
<1>. QED
  BY <1>1, <1>3, <1>4 DEF Contents

(* A step of a sync under the lock is its own, and may end it.             *)
LEMMA ProceedIs ==
  ASSUME Base, NEW p \in Process, Proceed(p)
  PROVE  /\ lock = p /\ lock' \in {p, Nobody} /\ Frame(p) /\ version' = version
         /\ lock' = Nobody => releaseSyncLock(p)
<1>1. Typed /\ Nobody # p
  BY HolderIs, SyncConstants DEF SyncConstants
<1>2. CASE releaseSyncLock(p)
  BY <1>1, <1>2, IdledIs, HolderIs DEF releaseSyncLock, At
<1>3. CASE loadOwnership(p)
  BY <1>1, <1>3, LoadIs, HolderIs DEF Moved, loadOwnership
<1>4. CASE CheckArtifact(p)
  <2>1. lock' = lock /\ version' = version
    BY <1>4 DEF CheckArtifact
  <2>2. lock = p /\ Frame(p)
    BY <1>1, <1>4, CheckIs, HolderIs DEF Skipped
  <2>. QED
    BY <1>1, <2>1, <2>2
<1>5. CASE writeEncryptedManifest(p)
  <2>1. lock' = lock /\ version' = version
    BY <1>5 DEF writeEncryptedManifest
  <2>2. lock = p /\ Frame(p)
    BY <1>1, <1>5, WriteIs, HolderIs DEF Moved, Skipped
  <2>. QED
    BY <1>1, <2>1, <2>2
<1>6. CASE ReadBack(p)
  <2>1. lock' = lock /\ version' = version
    BY <1>6 DEF ReadBack
  <2>2. lock = p /\ Frame(p)
    BY <1>1, <1>6, ReadBackIs, HolderIs DEF Skipped
  <2>. QED
    BY <1>1, <2>1, <2>2
<1>7. CASE StartPruning(p)
  BY <1>1, <1>7, StartPruningIs, HolderIs DEF Moved, StartPruning
<1>8. CASE Prune(p)
  <2>1. lock' = lock /\ version' = version
    BY <1>8 DEF Prune
  <2>2. lock = p /\ Frame(p)
    BY <1>1, <1>8, PruneIs, HolderIs
  <2>. QED
    BY <1>1, <2>1, <2>2
<1>9. CASE PruningDone(p)
  BY <1>1, <1>9, PruningDoneIs, HolderIs DEF PruningDone
<1>10. CASE writeOwnershipState(p)
  BY <1>1, <1>10, SaveIs, HolderIs DEF Moved, writeOwnershipState
<1>11. CASE Rollback(p)
  <2>1. lock' = lock /\ version' = version
    BY <1>11 DEF Rollback
  <2>2. lock = p /\ Frame(p)
    BY <1>1, <1>11, RollbackIs, HolderIs
  <2>. QED
    BY <1>1, <2>1, <2>2
<1>12. CASE RollbackDone(p)
  BY <1>1, <1>12, RollbackDoneIs, HolderIs DEF Moved, RollbackDone
<1>. QED
  BY <1>2, <1>3, <1>4, <1>5, <1>6, <1>7, <1>8, <1>9, <1>10, <1>11, <1>12 DEF Proceed

(* Every step keeps what is somebody else's apart.                         *)
LEMMA NextUsers == Base /\ Users /\ [Next]_vars => Users'
<1>. SUFFICES ASSUME Base, Users, [Next]_vars, "race" \notin faults'
              PROVE  /\ \A q \in Path : file'[q].by = "user" =>
                          There(file'[q]) /\ owner'[q] # file'[q].hash
                     /\ \A o \in Process : UsersApart(o)'
  BY DEF Users, There
<1>1. /\ \A q \in Path : file[q].by = "user" => There(file[q]) /\ owner[q] # file[q].hash
      /\ \A o \in Process : UsersApart(o)
  BY FaultsAre DEF Base, Users
<1>2. CASE file' = file /\ owner' = owner /\ run' = run
  BY <1>1, <1>2, Undisturbed
<1>3. ASSUME NEW p \in Process,
             GiveUp(p) \/ \E only \in Filters, force \in BOOLEAN : Begin(p, only, force)
      PROVE  /\ \A q \in Path : file'[q].by = "user" =>
                  There(file'[q]) /\ owner'[q] # file'[q].hash
             /\ \A o \in Process : UsersApart(o)'
  <2>1. Frame(p) /\ UNCHANGED <<file, owner>> /\ UsersApart(p)'
    BY <1>3, OutsideKeeps
  <2>. QED
    BY <1>1, <2>1, Undisturbed DEF Frame
<1>4. ASSUME NEW p \in Process, acquireSyncLock(p)
      PROVE  /\ \A q \in Path : file'[q].by = "user" =>
                  There(file'[q]) /\ owner'[q] # file'[q].hash
             /\ \A o \in Process : UsersApart(o)'
  <2>1. Frame(p) /\ UNCHANGED <<file, owner>> /\ Moved(p, "loading")
    BY <1>4, HolderIs, GotoIs, PhasesAre DEF acquireSyncLock, Moved
  <2>2. UsersApart(p)'
    BY <1>1, <2>1 DEF Moved, SameRecords, SameWork, UsersApart, Mutations, Writing
  <2>. QED
    BY <1>1, <2>1, <2>2, Undisturbed DEF Frame
<1>5. ASSUME NEW p \in Process, Crash(p)
      PROVE  /\ \A q \in Path : file'[q].by = "user" =>
                  There(file'[q]) /\ owner'[q] # file'[q].hash
             /\ \A o \in Process : UsersApart(o)'
  <2>1. Frame(p) /\ UNCHANGED <<file, owner>> /\ run'[p] = Idle /\ lock' # p
    BY <1>5, HolderIs, IdledIs, SyncConstants DEF SyncConstants, Crash
  <2>2. UsersApart(p)'
    BY <2>1, IdleRests
  <2>. QED
    BY <1>1, <2>1, <2>2, Undisturbed DEF Frame
<1>6. ASSUME NEW p \in Process, Proceed(p)
      PROVE  /\ \A q \in Path : file'[q].by = "user" =>
                  There(file'[q]) /\ owner'[q] # file'[q].hash
             /\ \A o \in Process : UsersApart(o)'
  <2>1. lock = p /\ lock' \in {p, Nobody} /\ Frame(p)
    BY <1>6, ProceedIs
  <2>2. lock # Nobody
    BY <2>1, SyncConstants DEF SyncConstants
  <2>3. \A q \in Path : file'[q].by = "user" => There(file'[q]) /\ owner'[q] # file'[q].hash
    BY <2>2, TheirsStayUnrecorded
  <2>4. UsersApart(p)'
    BY <1>6, <2>1, HandsOff
  <2>. QED
    BY <2>1, <2>3, <2>4, OthersRest
<1>7. CASE Edit
  <2>1. lock = Nobody /\ lock' = Nobody /\ run' = run /\ owner' = owner
    BY <1>7 DEF Edit, Fault
  <2>2. PICK r \in Path :
          \/ \E n \in Fresh(r) :
               file' = [file EXCEPT ![r] = [hash |-> n, val |-> "theirs", by |-> "user"]]
          \/ file' = [file EXCEPT ![r] = Absent]
    BY <1>7 DEF Edit
  <2>3. ASSUME NEW q \in Path, file'[q].by = "user"
        PROVE  There(file'[q]) /\ owner'[q] # file'[q].hash
    <3>1. file \in [Path -> Contents]
      BY HolderIs DEF Base, Typed
    <3>2. CASE q # r
      BY <1>1, <2>1, <2>2, <2>3, <3>1, <3>2
    <3>3. CASE q = r
      <4>1. PICK n \in Fresh(r) : file'[q] = [hash |-> n, val |-> "theirs", by |-> "user"]
        BY <2>2, <2>3, <3>1, <3>3, AbsentIsContent
      <4>2. n # None /\ n # owner[r]
        BY FreshIs
      <4>. QED
        BY <2>1, <3>3, <4>1, <4>2 DEF There
    <3>. QED
      BY <3>2, <3>3
  <2>. QED
    BY <2>1, <2>3, AllRest
<1>8. CASE Rotate
  <2>1. lock = Nobody /\ lock' = Nobody /\ run' = run /\ owner' = owner
    BY <1>8 DEF Rotate
  <2>2. ASSUME NEW q \in Path, file'[q].by = "user"
        PROVE  There(file'[q]) /\ owner'[q] # file'[q].hash
    <3>1. There(file[q])
      <4>1. ~There(file[q]) => file'[q] = Absent
        BY <1>8 DEF Rotate
      <4>. QED
        BY <2>2, <4>1, AbsentIsContent
    <3>2. file'[q].hash # None /\ file'[q].hash # owner[q]
      BY <1>8, <3>1, RotatedIs, FreshIs
    <3>. QED
      BY <2>1, <3>2 DEF There
  <2>. QED
    BY <2>1, <2>2, AllRest
<1>9. CASE ConfigChanges \/ UNCHANGED vars
  BY <1>2, <1>9 DEF ConfigChanges, vars
<1>. QED
  BY <1>3, <1>4, <1>5, <1>6, <1>7, <1>8, <1>9 DEF Next

(* Nothing is a user's at the start.                                       *)
LEMMA InitUsers == Init => Users
<1>. SUFFICES ASSUME Init PROVE Users
  OBVIOUS
<1>1. \A q \in Path : file[q] = Absent /\ Absent.by # "user"
  BY AbsentIsContent DEF Init
<1>2. \A p \in Process : Mutations(run[p]) = {} /\ run[p].pc = "idle"
  BY IdleIs, EmptyJournal DEF Init, Mutations
<1>. QED
  BY <1>1, <1>2 DEF Users, UsersApart

(* A manifest that somebody wrote or changed between two syncs is not      *)
(* overwritten, removed or rolled back: SyncSecrets takes a file for its   *)
(* own by its recorded hash only.                                          *)
THEOREM TheirsAreSafe == Spec => TheirsAreKept
<1>1. Base /\ Users /\ [Next]_vars =>
        (lock # Nobody /\ "race" \notin faults' =>
           \A q \in Path : file[q].by = "user" => file'[q] = file[q])
  BY StepKeepsTheirs
<1>2. Spec => [](Base /\ Users)
  BY InitBase, NextBase, InitUsers, NextUsers, PTL DEF Spec
<1>. QED
  BY <1>1, <1>2, PTL DEF Spec, TheirsAreKept

-----------------------------------------------------------------------------
(* Manifests and records.                                                  *)

(* Steps that leave the manifests and what is pending as they are.         *)
LEMMA BetweenStays ==
  ASSUME NEW p, Between(p), file' = file, SameRecords(p),
         run[p].pc \in Working, run[p].pc # "written", run'[p].pc \in Working,
         run'[p].pc \notin {"writing", "written"},
         run'[p].pc = "undoing" \/ run[p].pc # "undoing",
         Pending(run'[p]) = Pending(run[p])
  PROVE  Between(p)'
<1>1. \A q \in Path : Clear(p, q)' => Clear(p, q)
  BY DEF Clear
<1>2. \A q \in Path : Settled(p, q) => Settled(p, q)'
  BY DEF Settled, SameRecords
<1>3. \A e \in Pending(run[p]) : Left(p, e) => Left(p, e)'
  BY DEF Left, SameRecords
<1>4. run'[p].pc \notin {"loading", "releasing"}
  BY DEF Working, Writing
<1>. QED
  BY <1>1, <1>2, <1>3, <1>4 DEF Between

(* Leaving a manifest that was not written, with an error.                 *)
LEMMA SkippedBetween ==
  ASSUME NEW p, Between(p), file' = file, NEW q, Skipped(p, q),
         run[p].pc \in {"artifacts", "kept", "writing"}
  PROVE  Between(p)'
<1>1. /\ run[p].pc \in Working /\ run[p].pc \notin {"written", "undoing"}
      /\ run'[p].pc \in Working /\ run'[p].pc \notin {"writing", "written", "undoing"}
      /\ SameRecords(p)
  BY DEF Skipped, Working, Writing
<1>2. Pending(run'[p]) = Pending(run[p])
  BY <1>1 DEF Skipped, SameWork, Pending, Mutations
<1>. QED
  BY <1>1, <1>2, BetweenStays

(* Loading: what was recorded is where the sync starts from.               *)
LEMMA LoadBetween ==
  ASSUME Base, NEW p \in Process, Between(p), loadOwnership(p)
  PROVE  Between(p)'
<1>1. /\ Typed /\ Shape(p) /\ run[p].pc = "loading" /\ file' = file /\ owner' = owner /\ AsRecorded
  BY HolderIs, LoadIs DEF loadOwnership, Between
<1>2. CASE /\ SameWork(p) /\ run'[p].pc = "artifacts"
           /\ run'[p].prev = owner /\ run'[p].made = run[p].made
  <2>1. run'[p].made = [q \in Path |-> None] /\ Pending(run'[p]) = {}
    BY <1>1, <1>2, EmptyJournal DEF Shape, SameWork, Pending, Mutations
  <2>2. \A q \in Path : Settled(p, q)'
    BY <1>1, <1>2, <2>1 DEF Settled, AsRecorded
  <2>. QED
    BY <1>2, <2>1, <2>2 DEF Between
<1>3. CASE Moved(p, "releasing")
  BY <1>1, <1>3 DEF Moved, Between, Working, Writing, AsRecorded
<1>. QED
  BY <1>1, <1>2, <1>3, LoadIs

(* Looking at a manifest changes nothing.                                  *)
LEMMA CheckBetween ==
  ASSUME Base, NEW p \in Process, Between(p), CheckArtifact(p)
  PROVE  Between(p)'
<1>1. Typed /\ Shape(p) /\ run[p].pc = "artifacts" /\ file' = file
  BY HolderIs, CheckIs DEF CheckArtifact
<1>2. PICK q \in run[p].todo :
        \/ Skipped(p, q)
        \/ /\ SameRecords(p) /\ SameWork(p) /\ run'[p].cur = {q}
           /\ run'[p].pc = "kept" \/ (run'[p].pc = "writing" /\ run'[p].before = file[q])
  BY <1>1, CheckIs
<1>3. CASE Skipped(p, q)
  BY <1>1, <1>3, SkippedBetween
<1>4. CASE /\ SameRecords(p) /\ SameWork(p) /\ run'[p].cur = {q}
           /\ run'[p].pc = "kept" \/ (run'[p].pc = "writing" /\ run'[p].before = file[q])
  <2>1. /\ Pending(run'[p]) = Pending(run[p]) /\ run[p].pc \in Working
        /\ run'[p].pc \notin {"loading", "releasing", "written", "undoing"}
    BY <1>1, <1>4 DEF SameWork, Pending, Mutations, Working
  <2>2. \A r \in Path : Clear(p, r)' => Clear(p, r)
    BY <1>1, <2>1 DEF Clear
  <2>3. \A r \in Path : Settled(p, r) => Settled(p, r)'
    BY <1>1, <1>4 DEF Settled, SameRecords
  <2>4. \A e \in Pending(run[p]) : Left(p, e) => Left(p, e)'
    BY <1>1, <1>4 DEF Left, SameRecords
  <2>. QED
    BY <1>1, <1>4, <2>1, <2>2, <2>3, <2>4 DEF Between
<1>. QED
  BY <1>2, <1>3, <1>4

(* Writing a manifest: its snapshot is what the state file still says.     *)
LEMMA WriteBetween ==
  ASSUME Base, NEW p \in Process, Between(p), writeEncryptedManifest(p)
  PROVE  Between(p)'
<1>1. /\ Typed /\ Shape(p) /\ Mutated(p) /\ run[p].pc = "writing" /\ run[p].pc \in Working
      /\ run[p].pc \in Writing /\ file \in [Path -> Contents]
  BY HolderIs, WriteIs DEF Working, Writing
<1>2. PICK q \in run[p].cur :
        \/ /\ \E n \in Fresh(q) :
                file' = [file EXCEPT ![q] = [hash |-> n, val |-> Plan(p)[q], by |-> "sync"]]
           /\ Moved(p, "written")
        \/ Skipped(p, q) /\ file' = file
  BY <1>1, WriteIs
<1>3. /\ run[p].cur = {q} /\ q \in run[p].todo /\ q \in Path /\ run[p].undo = <<>>
      /\ \A e \in Pending(run[p]) : e.path # q
  <2>1. run[p].cur = {q} /\ q \in run[p].todo /\ run[p].undo = <<>>
    BY <1>1, <1>2 DEF Shape
  <2>2. \A e \in Range(run[p].journal) : e.path # q
    BY <1>1, <2>1 DEF Mutated
  <2>. QED
    BY <1>1, <2>1, <2>2, RunIs, EmptyJournal DEF Pending, Mutations
<1>4. CASE Skipped(p, q) /\ file' = file
  BY <1>1, <1>4, SkippedBetween
<1>5. ASSUME NEW n \in Fresh(q),
             file' = [file EXCEPT ![q] = [hash |-> n, val |-> Plan(p)[q], by |-> "sync"]],
             Moved(p, "written")
      PROVE  Between(p)'
  <2>. USE DEF Moved, SameRecords, SameWork, SameHand
  <2>1. /\ Pending(run'[p]) = Pending(run[p])
        /\ run'[p].pc = "written"
        /\ run'[p].pc \notin {"loading", "releasing", "writing", "undoing"}
    BY <1>1, <1>5 DEF Pending, Mutations
  <2>2. \A r \in Path \ {q} : file'[r] = file[r]
    BY <1>1, <1>5
  <2>3. \A r \in Path : Clear(p, r)' => Clear(p, r) /\ r # q
    BY <1>1, <1>3, <1>5, <2>1 DEF Clear
  <2>4. \A r \in Path \ {q} : Settled(p, r) => Settled(p, r)'
    BY <1>1, <1>5, <2>2 DEF Settled
  <2>5. \A e \in Pending(run[p]) : Left(p, e) => Left(p, e)'
    <3>1. \A e \in Pending(run[p]) : e.path \in Path
      BY <1>1, RunIs DEF Mutated, Pending, Mutations
    <3>. QED
      BY <1>1, <1>3, <1>5, <2>2, <3>1 DEF Left
  <2>6. run'[p].before.hash = run'[p].prev[q] /\ There(file'[q])
    <3>1. Settled(p, q) /\ run[p].before = file[q]
      BY <1>1, <1>3 DEF Between, Clear
    <3>2. file'[q].hash = n /\ n # None
      BY <1>1, <1>3, <1>5, FreshIs
    <3>. QED
      BY <1>5, <3>1, <3>2 DEF Settled, There
  <2>. QED
    BY <1>1, <1>3, <1>5, <2>1, <2>3, <2>4, <2>5, <2>6 DEF Between
<1>. QED
  BY <1>2, <1>4, <1>5

(* Reading a manifest back: what was written is pending from now on.       *)
LEMMA ReadBackBetween ==
  ASSUME Base, NEW p \in Process, Between(p), ReadBack(p), faults' \cap Stranding = {}
  PROVE  Between(p)'
<1>1. /\ Typed /\ Shape(p) /\ Mutated(p) /\ run[p].pc \in {"kept", "written"}
      /\ run[p].pc \in Working /\ run[p].pc \in Writing /\ file \in [Path -> Contents]
      /\ file' = file /\ "readback" \notin faults'
  <2>1. file' = file /\ "readback" \notin faults'
    BY DEF ReadBack, Stranding
  <2>. QED
    BY <2>1, HolderIs, ReadBackIs DEF Working, Writing
<1>2. PICK q \in run[p].cur :
        \/ /\ run'[p].pc = "artifacts"
           /\ run'[p].prev = run[p].prev
           /\ run'[p].made = [run[p].made EXCEPT ![q] = file[q].hash]
           /\ run'[p].undo = run[p].undo
           /\ run'[p].journal = IF run[p].pc = "written"
                                THEN run[p].journal \o Entry(q, run[p].before, file[q].hash)
                                ELSE run[p].journal
        \/ Skipped(p, q) /\ (run[p].pc = "written" => ~There(file[q]))
  BY <1>1, ReadBackIs
<1>3. /\ run[p].cur = {q} /\ q \in run[p].todo /\ q \in Path /\ run[p].undo = <<>>
      /\ \A e \in Range(run[p].journal) : e.path # q
      /\ Pending(run[p]) = Range(run[p].journal)
  <2>1. run[p].cur = {q} /\ q \in run[p].todo /\ run[p].undo = <<>>
    BY <1>1, <1>2 DEF Shape
  <2>2. \A e \in Range(run[p].journal) : e.path # q
    BY <1>1, <2>1 DEF Mutated
  <2>. QED
    BY <1>1, <2>1, <2>2, RunIs, EmptyJournal DEF Pending, Mutations
<1>4. CASE Skipped(p, q) /\ (run[p].pc = "written" => ~There(file[q]))
  <2>1. run[p].pc = "kept"
    BY <1>1, <1>3, <1>4 DEF Between
  <2>. QED
    BY <1>1, <1>4, <2>1, SkippedBetween
<1>5. CASE /\ run'[p].pc = "artifacts"
           /\ run'[p].prev = run[p].prev
           /\ run'[p].made = [run[p].made EXCEPT ![q] = file[q].hash]
           /\ run'[p].undo = run[p].undo
           /\ run'[p].journal = IF run[p].pc = "written"
                                THEN run[p].journal \o Entry(q, run[p].before, file[q].hash)
                                ELSE run[p].journal
  <2>1. /\ run'[p].made[q] = file[q].hash /\ \A r \in Path \ {q} : run'[p].made[r] = run[p].made[r]
        /\ run[p].pc # "undoing"
    BY <1>1, <1>3, <1>5, RunIs DEF Records
  <2>2. /\ run'[p].pc \in Working
        /\ run'[p].pc \notin {"loading", "releasing", "writing", "written", "undoing"}
    BY <1>5 DEF Working
  <2>3. Pending(run'[p]) = Range(run'[p].journal)
    BY <1>3, <1>5, EmptyJournal DEF Pending, Mutations
  <2>4. \A r \in Path \ {q} : Settled(p, r) => Settled(p, r)'
    BY <1>1, <1>5, <2>1 DEF Settled
  <2>5. \A e \in Range(run[p].journal) : Left(p, e)'
    <3>1. \A e \in Range(run[p].journal) : e.path \in Path \ {q}
      BY <1>1, <1>3, RunIs DEF Mutated, Mutations
    <3>. QED
      BY <1>1, <1>3, <1>5, <2>1, <3>1 DEF Between, Left
  <2>6. CASE run[p].pc = "kept"
    <3>1. run'[p].journal = run[p].journal
      BY <1>5, <2>6
    <3>2. Clear(p, q) /\ Settled(p, q)
      BY <1>1, <1>3, <2>6 DEF Clear, Between
    <3>3. Settled(p, q)'
      BY <1>1, <1>5, <2>1, <3>2 DEF Settled
    <3>4. \A r \in Path : Clear(p, r)' => Settled(p, r)'
      BY <1>1, <1>3, <2>3, <2>4, <2>6, <3>1, <3>3 DEF Clear, Between
    <3>. QED
      BY <2>2, <2>3, <2>5, <3>1, <3>4 DEF Between
  <2>7. CASE run[p].pc = "written"
    <3>0. PICK f : f = Mutation(q, run[p].before, file[q].hash)
      OBVIOUS
    <3>1. /\ Range(run'[p].journal) = Range(run[p].journal) \cup {f}
          /\ f.path = q /\ f.before = run[p].before /\ f.after = file[q].hash
      <4>1. /\ file[q] \in Contents /\ file[q].hash \in 0..MaxId /\ run[p].before \in Contents
            /\ run[p].journal \in Seq(Entries)
        BY <1>1, <1>3, RunIs DEF Contents
      <4>2. run'[p].journal = run[p].journal \o Entry(q, run[p].before, file[q].hash)
        BY <1>5, <2>7
      <4>. QED
        BY <1>3, <3>0, <4>1, <4>2, EntryAdded
    <3>2. Left(p, f)'
      <4>1. run[p].before.hash = run[p].prev[q]
        BY <1>3, <2>7 DEF Between
      <4>. QED
        BY <1>1, <1>5, <2>1, <3>1, <4>1 DEF Left
    <3>3. \A r \in Path : Clear(p, r)' => r # q /\ Clear(p, r)
      BY <1>3, <2>3, <3>1 DEF Clear
    <3>4. \A r \in Path : Clear(p, r)' => Settled(p, r)'
      BY <1>1, <2>4, <3>3 DEF Between
    <3>. QED
      BY <2>2, <2>3, <2>5, <3>1, <3>2, <3>4 DEF Between
  <2>. QED
    BY <1>1, <2>6, <2>7
<1>. QED
  BY <1>2, <1>4, <1>5

(* Turning to the stale manifests changes nothing.                         *)
LEMMA StartPruningBetween ==
  ASSUME Base, NEW p \in Process, Between(p), StartPruning(p)
  PROVE  Between(p)'
<1>1. /\ Typed /\ run[p].pc = "artifacts" /\ run[p].pc \in Working /\ file' = file
  BY HolderIs, StartPruningIs DEF StartPruning, Working
<1>2. /\ SameRecords(p) /\ SameWork(p) /\ run'[p].pc \in {"saving", "pruning"}
  BY <1>1, StartPruningIs DEF Moved
<1>3. Pending(run'[p]) = Pending(run[p]) /\ run'[p].pc \in Working
  BY <1>1, <1>2 DEF SameWork, Pending, Mutations, Working
<1>. QED
  BY <1>1, <1>2, <1>3, BetweenStays

(* Removing a stale manifest: the removal is pending from now on.          *)
LEMMA PruneBetween ==
  ASSUME Base, NEW p \in Process, Between(p), Prune(p)
  PROVE  Between(p)'
<1>1. /\ Typed /\ Shape(p) /\ Mutated(p) /\ run[p].pc = "pruning" /\ run[p].pc \in Working
      /\ file \in [Path -> Contents]
  BY HolderIs, PruneIs DEF Working
<1>2. CASE /\ SameRecords(p) /\ run'[p].pc = "unpruning"
           /\ run'[p].journal = run[p].journal /\ run'[p].undo = run[p].undo
           /\ file' = file
  <2>1. /\ Pending(run'[p]) = Pending(run[p]) /\ run'[p].pc \in Working
    BY <1>1, <1>2 DEF Pending, Mutations, Working
  <2>. QED
    BY <1>1, <1>2, <2>1, BetweenStays
<1>3. ASSUME NEW q \in run[p].todo,
             file[q].hash = run[p].prev[q],
             file' = [file EXCEPT ![q] = Absent],
             SameRecords(p), run'[p].pc = "pruning", run'[p].journal = run[p].journal,
             run'[p].undo = run[p].undo \o Entry(q, file[q], None)
      PROVE  Between(p)'
  <2>1. /\ q \in Path /\ q \in Stale(p) /\ q \notin Planned(p)
        /\ \A e \in Range(run[p].journal) : e.path # q
        /\ \A e \in Range(run[p].undo) : e.path # q
    BY <1>1, RunIs DEF Shape, Mutated, Stale, Planned
  <2>2. run[p].made[q] = None
    BY <1>1, <2>1 DEF Mutated
  <2>3. PICK f : f = Mutation(q, file[q], None)
    OBVIOUS
  <2>4. /\ Range(run'[p].undo) = Range(run[p].undo) \cup {f}
        /\ f.path = q /\ f.before = file[q] /\ f.after = None
    <3>1. file[q] \in Contents /\ None \in 0..MaxId /\ run[p].undo \in Seq(Entries)
      BY <1>1, <2>1, RunIs, AbsentIsContent
    <3>. QED
      BY <1>3, <2>1, <2>3, <3>1, EntryAdded
  <2>5. Pending(run'[p]) = Pending(run[p]) \cup {f} /\ \A e \in Pending(run[p]) : e.path # q
    BY <1>1, <1>3, <2>1, <2>4 DEF Pending, Mutations
  <2>6. file'[q].hash = None /\ \A r \in Path \ {q} : file'[r] = file[r]
    BY <1>1, <1>3, <2>1, AbsentIsContent
  <2>7. run'[p].pc \in Working /\ run'[p].pc \notin {"loading", "releasing", "writing", "written"}
    BY <1>3 DEF Working
  <2>8. Left(p, f)'
    BY <1>3, <2>2, <2>4, <2>6 DEF Left, SameRecords
  <2>9. \A e \in Pending(run[p]) : Left(p, e)'
    <3>1. \A e \in Pending(run[p]) : e.path \in Path \ {q} /\ Left(p, e)
      BY <1>1, <2>5, RunIs DEF Mutated, Pending, Mutations, Between
    <3>. QED
      BY <1>1, <1>3, <2>6, <3>1 DEF Left, SameRecords
  <2>10. \A r \in Path : Clear(p, r)' => r # q /\ Clear(p, r)
    BY <1>1, <2>4, <2>5 DEF Clear
  <2>11. \A r \in Path \ {q} : Settled(p, r) => Settled(p, r)'
    BY <1>1, <1>3, <2>6 DEF Settled, SameRecords
  <2>12. \A r \in Path : Clear(p, r)' => Settled(p, r)'
    BY <1>1, <2>10, <2>11 DEF Between
  <2>. QED
    BY <2>5, <2>7, <2>8, <2>9, <2>12 DEF Between
<1>. QED
  BY <1>1, <1>2, <1>3, PruneIs

(* The removals that join the journal were pending before.                 *)
LEMMA PruningDoneBetween ==
  ASSUME Base, NEW p \in Process, Between(p), PruningDone(p)
  PROVE  Between(p)'
<1>1. /\ Typed /\ run[p].pc = "pruning" /\ run[p].pc \in Working /\ file' = file
      /\ SameRecords(p) /\ run'[p].pc = "saving" /\ run'[p].pc \in Working
      /\ run'[p].journal = run[p].journal \o run[p].undo /\ run'[p].undo = <<>>
  <2>1. file' = file
    BY DEF PruningDone
  <2>. QED
    BY <2>1, HolderIs, PruningDoneIs DEF Working
<1>2. Pending(run'[p]) = Pending(run[p])
  <2>1. Range(run'[p].journal) = Range(run[p].journal) \cup Range(run[p].undo)
    BY <1>1, RunIs, JournalGrows
  <2>2. Range(run'[p].undo) = {}
    BY <1>1, EmptyJournal
  <2>. QED
    BY <1>1, <2>1, <2>2 DEF Pending, Mutations
<1>. QED
  BY <1>1, <1>2, BetweenStays

(* Saving: what was left is recorded; when it cannot be, all of it is      *)
(* undone.                                                                 *)
LEMMA SaveBetween ==
  ASSUME Base, NEW p \in Process, Between(p), writeOwnershipState(p)
  PROVE  Between(p)'
<1>1. /\ Typed /\ Shape(p) /\ Mutated(p) /\ run[p].pc = "saving" /\ run[p].pc \in Working
      /\ file' = file /\ run[p].undo = <<>> /\ Pending(run[p]) = Range(run[p].journal)
  <2>1. file' = file
    BY DEF writeOwnershipState
  <2>2. Typed /\ Shape(p) /\ Mutated(p) /\ run[p].pc = "saving"
    BY HolderIs, SaveIs
  <2>3. run[p].undo = <<>>
    BY <2>2 DEF Shape
  <2>. QED
    BY <2>1, <2>2, <2>3, EmptyJournal DEF Working, Pending, Mutations
<1>2. CASE /\ owner' = [q \in Path |-> IF q \in Removed(p) THEN None
                                       ELSE IF run[p].made[q] # None THEN run[p].made[q]
                                       ELSE run[p].prev[q]]
           /\ Moved(p, "releasing")
  <2>1. ASSUME NEW q \in Path
        PROVE  file'[q].hash = owner'[q]
    <3>1. CASE \A e \in Range(run[p].journal) : e.path # q
      <4>1. Settled(p, q)
        BY <1>1, <3>1 DEF Between, Clear
      <4>2. q \notin Removed(p)
        BY <3>1 DEF Removed
      <4>. QED
        BY <1>1, <1>2, <4>1, <4>2 DEF Settled
    <3>2. ASSUME NEW e \in Range(run[p].journal), e.path = q
          PROVE  file'[q].hash = owner'[q]
      <4>1. file[q].hash = e.after /\ run[p].made[q] = e.after
        BY <1>1, <3>2 DEF Between, Left
      <4>2. e.after = None => q \in Removed(p)
        BY <3>2 DEF Removed
      <4>3. q \in Removed(p) => e.after = None
        BY <1>1, <3>2, <4>1 DEF Between, Left, Removed
      <4>. QED
        BY <1>1, <1>2, <4>1, <4>2, <4>3
    <3>. QED
      BY <3>1, <3>2
  <2>2. run'[p].pc \notin Working /\ run'[p].pc \notin {"writing", "written"}
    BY <1>2 DEF Moved, Working, Writing
  <2>. QED
    BY <2>1, <2>2 DEF Between, AsRecorded
<1>3. CASE /\ SameRecords(p)
           /\ run'[p].pc = "undoing"
           /\ run'[p].journal = run[p].journal /\ run'[p].undo = run[p].journal
  <2>1. Pending(run'[p]) = Pending(run[p]) /\ run'[p].pc \in Working
    BY <1>1, <1>3 DEF Pending, Working
  <2>. QED
    BY <1>1, <1>3, <2>1, BetweenStays
<1>. QED
  BY <1>1, <1>2, <1>3, SaveIs

(* Undoing a mutation: the manifest is as recorded again.                  *)
LEMMA RollbackBetween ==
  ASSUME Base, NEW p \in Process, Between(p), Rollback(p), faults' \cap Stranding = {}
  PROVE  Between(p)'
<1>1. /\ Typed /\ Shape(p) /\ Mutated(p) /\ run[p].pc \in {"unpruning", "undoing"}
      /\ run[p].pc \in Working /\ file \in [Path -> Contents] /\ "restore" \notin faults'
  BY HolderIs, RollbackIs DEF Working, Stranding
<1>2. PICK e : e = run[p].undo[Len(run[p].undo)]
  OBVIOUS
<1>3. /\ SameRecords(p) /\ run'[p].pc = run[p].pc /\ run'[p].journal = run[p].journal
      /\ run'[p].undo = SubSeq(run[p].undo, 1, Len(run[p].undo) - 1)
      /\ run[p].undo # <<>>
      /\ file' = [file EXCEPT ![e.path] = IF @.hash = e.after THEN e.before ELSE @]
  BY <1>1, <1>2, RollbackIs
<1>4. /\ e \in Range(run[p].undo) /\ e.path \in Path
      /\ Range(run[p].undo) = Range(run'[p].undo) \cup {e}
      /\ \A d \in Range(run'[p].undo) : d.path # e.path
  <2>1. run[p].undo \in Seq(Entries) /\ Once(run[p].undo)
    BY <1>1, RunIs DEF Mutated
  <2>2. e \in Range(run[p].undo) /\ e \in Entries
    BY <1>2, <1>3, <2>1, JournalShrinks
  <2>3. /\ Range(run'[p].undo) \subseteq Range(run[p].undo)
        /\ Range(run[p].undo) \subseteq Range(run'[p].undo) \cup {e}
        /\ \A d \in Range(run'[p].undo) : d.path # e.path
    BY <1>2, <1>3, <2>1, JournalShrinks
  <2>. QED
    BY <2>2, <2>3 DEF Entries
<1>5. /\ Pending(run[p]) = Pending(run'[p]) \cup {e}
      /\ \A d \in Pending(run'[p]) : d.path # e.path
      /\ run[p].pc # "undoing" => run[p].made[e.path] = None
  <2>1. CASE run[p].pc = "undoing"
    BY <1>3, <1>4, <2>1 DEF Pending
  <2>2. CASE run[p].pc = "unpruning"
    <3>1. e.path \in Stale(p) /\ \A d \in Range(run[p].journal) : d.path \in Planned(p)
      BY <1>1, <1>4, <2>2 DEF Mutated
    <3>2. e.path \notin Planned(p)
      BY <3>1 DEF Stale, Planned
    <3>3. run[p].made[e.path] = None
      BY <1>1, <1>4, <3>2 DEF Mutated
    <3>. QED
      BY <1>3, <1>4, <2>2, <3>1, <3>2, <3>3 DEF Pending, Mutations
  <2>. QED
    BY <1>1, <2>1, <2>2
<1>6. /\ file'[e.path] = e.before /\ e.before.hash = run[p].prev[e.path]
      /\ \A r \in Path \ {e.path} : file'[r] = file[r]
  <2>1. Left(p, e)
    BY <1>1, <1>5 DEF Between
  <2>. QED
    BY <1>1, <1>3, <1>4, <2>1 DEF Left
<1>7. Settled(p, e.path)'
  BY <1>3, <1>5, <1>6 DEF Settled, SameRecords
<1>8. ASSUME NEW r \in Path \ {e.path}, Clear(p, r)'
      PROVE  Settled(p, r)'
  <2>1. Clear(p, r)
    BY <1>1, <1>3, <1>5, <1>8 DEF Clear
  <2>2. Settled(p, r)
    BY <1>1, <1>8, <2>1 DEF Between
  <2>. QED
    BY <1>3, <1>6, <1>8, <2>2 DEF Settled, SameRecords
<1>9. ASSUME NEW d \in Pending(run'[p])
      PROVE  Left(p, d)'
  <2>1. Left(p, d) /\ d.path \in Path \ {e.path}
    BY <1>1, <1>5, <1>9, RunIs DEF Between, Mutated, Pending, Mutations
  <2>. QED
    BY <1>3, <1>6, <2>1 DEF Left, SameRecords
<1>10. /\ run'[p].pc \in Working
       /\ run'[p].pc \notin {"loading", "releasing", "writing", "written"}
  BY <1>1, <1>3
<1>. QED
  BY <1>7, <1>8, <1>9, <1>10 DEF Between

(* The end of an undo: with nothing left to undo all is as recorded.       *)
LEMMA RollbackDoneBetween ==
  ASSUME Base, NEW p \in Process, Between(p), RollbackDone(p)
  PROVE  Between(p)'
<1>1. /\ Typed /\ Shape(p) /\ run[p].undo = <<>> /\ Range(run[p].undo) = {}
      /\ file' = file /\ owner' = owner
  <2>1. file' = file /\ owner' = owner
    BY DEF RollbackDone
  <2>. QED
    BY <2>1, HolderIs, RollbackDoneIs, EmptyJournal
<1>2. CASE run[p].pc = "unpruning" /\ Moved(p, "saving")
  <2>1. /\ Pending(run'[p]) = Pending(run[p]) /\ SameRecords(p)
        /\ run[p].pc \in Working /\ run'[p].pc \in Working
    BY <1>2 DEF Moved, SameWork, Pending, Mutations, Working
  <2>. QED
    BY <1>1, <1>2, <2>1, BetweenStays DEF Moved
<1>3. CASE run[p].pc = "undoing" /\ Moved(p, "releasing")
  <2>1. run[p].pc \in Working /\ run[p].prev = owner /\ \A q \in Path : Clear(p, q)
    BY <1>1, <1>3 DEF Shape, Working, Clear, Pending
  <2>2. \A q \in Path : file[q].hash = owner[q]
    BY <2>1 DEF Between, Settled
  <2>3. /\ run'[p].pc \notin Working /\ run'[p].pc \notin {"writing", "written"}
    BY <1>3 DEF Moved, Working, Writing
  <2>. QED
    BY <1>1, <2>2, <2>3 DEF Between, AsRecorded
<1>. QED
  BY <1>1, <1>2, <1>3, RollbackDoneIs

(* A step of a sync: it stays between what is recorded and what will be,   *)
(* and releases the lock with everything as recorded.                      *)
LEMMA ProceedBetween ==
  ASSUME Base, NEW p \in Process, Between(p), Proceed(p), faults' \cap Stranding = {}
  PROVE  Between(p)' /\ (lock' = Nobody => AsRecorded')
<1>1. CASE releaseSyncLock(p)
  <2>1. /\ run[p].pc = "releasing" /\ Becomes(p, Idle) /\ lock' = Nobody
        /\ file' = file /\ owner' = owner
    BY <1>1 DEF releaseSyncLock, At
  <2>2. run'[p] = Idle /\ lock' # p
    BY <2>1, HolderIs, IdledIs, SyncConstants DEF SyncConstants
  <2>. QED
    BY <2>1, <2>2, IdleRests DEF Between, AsRecorded
<1>2. CASE ~releaseSyncLock(p)
  <2>1. lock' # Nobody
    BY <1>2, ProceedIs, SyncConstants DEF SyncConstants
  <2>. QED
    BY <1>2, <2>1, LoadBetween, CheckBetween, WriteBetween, ReadBackBetween,
       StartPruningBetween, PruneBetween, PruningDoneBetween, SaveBetween, RollbackBetween,
       RollbackDoneBetween DEF Proceed
<1>. QED
  BY <1>1, <1>2

(* Every step keeps the manifests and the records together.                *)
LEMMA NextOwned == Base /\ Owned /\ [Next]_vars => Owned'
<1>. SUFFICES ASSUME Base, Owned, [Next]_vars, faults' \cap Stranding = {}
              PROVE  /\ lock' = Nobody => AsRecorded'
                     /\ \A o \in Process : Between(o)'
  BY DEF Owned, Stranding
<1>1. /\ lock = Nobody => AsRecorded
      /\ \A o \in Process : Between(o)
  BY FaultsAre DEF Base, Owned
<1>2. CASE file' = file /\ owner' = owner /\ run' = run /\ lock' = lock
  BY <1>1, <1>2, Undisturbed DEF AsRecorded
<1>3. ASSUME NEW p \in Process,
             GiveUp(p) \/ \E only \in Filters, force \in BOOLEAN : Begin(p, only, force)
      PROVE  /\ lock' = Nobody => AsRecorded'
             /\ \A o \in Process : Between(o)'
  <2>1. Frame(p) /\ UNCHANGED <<file, owner, lock>> /\ Between(p)'
    BY <1>3, OutsideKeeps
  <2>2. \A o \in Process \ {p} : Between(o)'
    BY <1>1, <2>1, Undisturbed DEF Frame
  <2>. QED
    BY <1>1, <2>1, <2>2 DEF AsRecorded
<1>4. ASSUME NEW p \in Process, acquireSyncLock(p)
      PROVE  /\ lock' = Nobody => AsRecorded'
             /\ \A o \in Process : Between(o)'
  <2>1. lock = Nobody /\ lock' = p /\ p # Nobody /\ file' = file /\ owner' = owner
    BY <1>4, SyncConstants DEF SyncConstants, acquireSyncLock
  <2>2. Moved(p, "loading")
    BY <1>4, HolderIs, GotoIs, PhasesAre DEF acquireSyncLock
  <2>3. Between(p)'
    BY <1>1, <2>1, <2>2 DEF Moved, Between, AsRecorded, Working, Writing
  <2>4. \A o \in Process \ {p} : Between(o)'
    BY <1>1, <2>1, <2>2, Undisturbed DEF Moved, Frame
  <2>. QED
    BY <2>1, <2>3, <2>4
<1>5. ASSUME NEW p \in Process, Proceed(p)
      PROVE  /\ lock' = Nobody => AsRecorded'
             /\ \A o \in Process : Between(o)'
  <2>1. lock = p /\ lock' \in {p, Nobody} /\ Frame(p)
    BY <1>5, ProceedIs
  <2>2. Between(p)' /\ (lock' = Nobody => AsRecorded')
    BY <1>1, <1>5, ProceedBetween
  <2>3. \A o \in Process \ {p} : Between(o)'
    BY <2>1, OthersRest
  <2>. QED
    BY <2>2, <2>3
<1>6. \A p \in Process : ~Crash(p)
  BY DEF Crash, Fault, Stranding
<1>7. ~Edit /\ ~Rotate
  BY DEF Edit, Rotate, Fault, Stranding
<1>8. CASE ConfigChanges \/ UNCHANGED vars
  BY <1>2, <1>8 DEF ConfigChanges, vars
<1>. QED
  BY <1>3, <1>4, <1>5, <1>6, <1>7, <1>8 DEF Next

(* Nothing is there and nothing is recorded at the start.                  *)
LEMMA InitOwned == Init => Owned
<1>. SUFFICES ASSUME Init PROVE Owned
  OBVIOUS
<1>1. AsRecorded
  BY DEF Init, AsRecorded, Absent
<1>2. \A p \in Process : run[p].pc = "idle"
  BY IdleIs DEF Init
<1>. QED
  BY <1>1, <1>2 DEF Owned, Between, Working, Writing

(* SyncSecrets is all or nothing: whatever check, write, removal or save   *)
(* failed on the way and was rolled back, a manifest is there afterwards   *)
(* exactly if the state file records it, with the recorded hash.           *)
THEOREM OwnedIsRecorded == Spec => []OwnedExactly
<1>1. Spec => [](Base /\ Owned)
  BY InitBase, NextBase, InitOwned, NextOwned, PTL DEF Spec
<1>2. Owned => OwnedExactly
  BY DEF Owned, OwnedExactly, AsRecorded
<1>. QED
  BY <1>1, <1>2, PTL

-----------------------------------------------------------------------------
(* What a sync without an error has done.                                  *)

(* An error on record makes no claim.                                      *)
LEMMA FailedReached ==
  ASSUME NEW p, run'[p].errors = TRUE
  PROVE  Reached(p)'
BY DEF Reached

(* The manifests one by one: compared, written and read back.              *)
LEMMA ManifestReached ==
  ASSUME Base, NEW p \in Process, Reached(p),
         loadOwnership(p) \/ CheckArtifact(p) \/ writeEncryptedManifest(p) \/ ReadBack(p)
  PROVE  Reached(p)'
<1>1. Typed /\ Shape(p) /\ file \in [Path -> Contents]
  BY HolderIs
<1>2. CASE loadOwnership(p)
  <2>1. CASE /\ SameGoal(p) /\ run'[p].pc = "artifacts" /\ run'[p].todo = Planned(p)
    <3>1. Planned(p)' = Planned(p)
      BY <2>1, GoalStays
    <3>. QED
      BY <2>1, <3>1 DEF Reached
  <2>. QED
    BY <1>1, <1>2, <2>1, LoadIs, FailedReached
<1>3. CASE CheckArtifact(p)
  <2>1. file' = file
    BY <1>3 DEF CheckArtifact
  <2>2. run[p].pc = "artifacts"
    BY <1>1, <1>3, CheckIs
  <2>3. PICK q \in run[p].todo :
          \/ Skipped(p, q)
          \/ /\ SameGoal(p) /\ run'[p].errors = run[p].errors
             /\ run'[p].todo = run[p].todo /\ run'[p].cur = {q}
             /\ \/ run'[p].pc = "kept" /\ (Compares(p) => file[q].val = Plan(p)[q])
                \/ run'[p].pc = "writing"
    BY <1>1, <1>3, CheckIs
  <2>4. CASE Skipped(p, q)
    BY <2>4, FailedReached DEF Skipped
  <2>5. CASE /\ SameGoal(p) /\ run'[p].errors = run[p].errors
             /\ run'[p].todo = run[p].todo /\ run'[p].cur = {q}
             /\ \/ run'[p].pc = "kept" /\ (Compares(p) => file[q].val = Plan(p)[q])
                \/ run'[p].pc = "writing"
    <3>1. /\ Planned(p)' = Planned(p) /\ Plan(p)' = Plan(p)
          /\ run'[p].force = run[p].force
      BY <2>5, GoalStays
    <3>2. run'[p].pc \in Writing
      BY <2>5 DEF Writing
    <3>. QED
      BY <2>1, <2>2, <2>5, <3>1, <3>2 DEF Reached, Kept, Compares
  <2>. QED
    BY <2>3, <2>4, <2>5
<1>4. CASE writeEncryptedManifest(p)
  <2>1. run[p].pc = "writing" /\ run[p].pc \in Writing
    BY <1>1, <1>4, WriteIs DEF Writing
  <2>2. PICK q \in run[p].cur :
          \/ /\ \E n \in Fresh(q) :
                  file' = [file EXCEPT ![q] = [hash |-> n, val |-> Plan(p)[q], by |-> "sync"]]
             /\ Moved(p, "written") /\ run'[p].errors = run[p].errors
          \/ Skipped(p, q) /\ file' = file
    BY <1>1, <1>4, WriteIs
  <2>3. CASE Skipped(p, q)
    BY <2>3, FailedReached DEF Skipped
  <2>4. ASSUME NEW n \in Fresh(q),
               file' = [file EXCEPT ![q] = [hash |-> n, val |-> Plan(p)[q], by |-> "sync"]],
               Moved(p, "written"), run'[p].errors = run[p].errors
        PROVE  Reached(p)'
    <3>. USE DEF Moved, SameHand
    <3>1. /\ Planned(p)' = Planned(p) /\ Plan(p)' = Plan(p)
          /\ run'[p].force = run[p].force
      BY <2>4, GoalStays
    <3>2. run[p].cur = {q} /\ q \in run[p].todo /\ q \in Path
      BY <1>1, <2>1, RunIs DEF Shape
    <3>3. file'[q].val = Plan(p)[q] /\ \A r \in Path \ {q} : file'[r] = file[r]
      BY <1>1, <2>4, <3>2
    <3>4. \A r \in Planned(p) : r \in Path
      BY <1>1, RunIs DEF Planned
    <3>5. run'[p].pc = "written" /\ run'[p].pc \in Writing
      BY <2>4 DEF Writing
    <3>6. ASSUME ~run[p].errors, NEW r \in Planned(p), r \notin run[p].todo
          PROVE  Compares(p) => file'[r].val = Plan(p)[r]
      BY <2>1, <3>2, <3>3, <3>4, <3>6 DEF Reached, Kept, Compares
    <3>. QED
      BY <2>4, <3>1, <3>2, <3>3, <3>5, <3>6 DEF Reached, Kept, Compares
  <2>. QED
    BY <2>2, <2>3, <2>4
<1>5. CASE ReadBack(p)
  <2>1. file' = file
    BY <1>5 DEF ReadBack
  <2>2. run[p].pc \in {"kept", "written"} /\ run[p].pc \in Writing
    BY <1>1, <1>5, ReadBackIs DEF Writing
  <2>3. PICK q \in run[p].cur :
          \/ /\ SameGoal(p) /\ run'[p].errors = run[p].errors
             /\ run'[p].pc = "artifacts" /\ run'[p].todo = run[p].todo \ {q}
          \/ Skipped(p, q)
    BY <1>1, <1>5, ReadBackIs
  <2>4. CASE Skipped(p, q)
    BY <2>4, FailedReached DEF Skipped
  <2>5. CASE /\ SameGoal(p) /\ run'[p].errors = run[p].errors
             /\ run'[p].pc = "artifacts" /\ run'[p].todo = run[p].todo \ {q}
    <3>1. /\ Planned(p)' = Planned(p) /\ Plan(p)' = Plan(p)
          /\ run'[p].force = run[p].force
      BY <2>5, GoalStays
    <3>. QED
      BY <2>1, <2>2, <2>3, <2>5, <3>1 DEF Reached, Kept, Compares
  <2>. QED
    BY <2>3, <2>4, <2>5
<1>. QED
  BY <1>2, <1>3, <1>4, <1>5

(* The stale manifests, removed one by one.                                *)
LEMMA PruningReached ==
  ASSUME Base, NEW p \in Process, Reached(p), StartPruning(p) \/ Prune(p) \/ PruningDone(p)
  PROVE  Reached(p)'
<1>1. Typed /\ Shape(p) /\ Mutated(p) /\ file \in [Path -> Contents]
  BY HolderIs
<1>2. CASE StartPruning(p)
  <2>1. file' = file
    BY <1>2 DEF StartPruning
  <2>2. CASE run'[p].errors = TRUE
    BY <2>2, FailedReached
  <2>3. CASE /\ SameGoal(p) /\ SameRecords(p) /\ run'[p].errors = run[p].errors
             /\ run'[p].pc = "pruning" /\ run'[p].todo = Stale(p)
    <3>1. /\ Planned(p)' = Planned(p) /\ Plan(p)' = Plan(p) /\ Stale(p)' = Stale(p)
          /\ run'[p].force = run[p].force
      BY <2>3, GoalStays DEF SameRecords
    <3>2. run[p].pc = "artifacts" /\ run[p].todo = {}
      BY <1>1, <1>2, StartPruningIs
    <3>. QED
      BY <2>1, <2>3, <3>1, <3>2 DEF Reached, Kept, Compares, Gone
  <2>. QED
    BY <1>1, <1>2, <2>2, <2>3, StartPruningIs
<1>3. CASE Prune(p)
  <2>1. run[p].pc = "pruning"
    BY <1>1, <1>3, PruneIs
  <2>2. ASSUME NEW q \in run[p].todo,
               file' = [file EXCEPT ![q] = Absent],
               SameGoal(p), SameRecords(p),
               run'[p].pc = "pruning", run'[p].errors = run[p].errors,
               run'[p].todo = run[p].todo \ {q},
               run'[p].undo = run[p].undo \o Entry(q, file[q], None)
        PROVE  Reached(p)'
    <3>1. /\ Planned(p)' = Planned(p) /\ Plan(p)' = Plan(p) /\ Stale(p)' = Stale(p)
          /\ run'[p].force = run[p].force
      BY <2>2, GoalStays DEF SameRecords
    <3>2. q \in Path /\ q \in Stale(p) /\ q \notin Planned(p)
      BY <1>1, <2>1, RunIs DEF Shape, Stale, Planned
    <3>3. PICK f : f = Mutation(q, file[q], None)
      OBVIOUS
    <3>4. /\ Range(run'[p].undo) = Range(run[p].undo) \cup {f}
          /\ f.path = q /\ f.after = None
      <4>1. file[q] \in Contents /\ None \in 0..MaxId /\ run[p].undo \in Seq(Entries)
        BY <1>1, <3>2, RunIs, AbsentIsContent
      <4>. QED
        BY <2>2, <3>2, <3>3, <4>1, EntryAdded
    <3>5. \A r \in Planned(p) : file'[r] = file[r]
      BY <1>1, <2>2, <3>2, RunIs DEF Planned
    <3>6. Gone(p, run[p].undo) => Gone(p, run[p].undo)'
      BY <2>2, <3>1, <3>4 DEF Gone
    <3>7. run'[p].pc \notin {"artifacts"} \cup Writing
      BY <2>2 DEF Writing
    <3>8. run[p].pc \notin {"artifacts"} \cup Writing
      BY <2>1 DEF Writing
    <3>. QED
      BY <2>1, <2>2, <3>1, <3>5, <3>6, <3>7, <3>8 DEF Reached, Kept, Compares
  <2>. QED
    BY <1>1, <1>3, <2>2, PruneIs, FailedReached
<1>4. CASE PruningDone(p)
  <2>1. file' = file
    BY <1>4 DEF PruningDone
  <2>2. /\ run[p].pc = "pruning" /\ run[p].todo = {}
        /\ SameGoal(p) /\ SameRecords(p)
        /\ run'[p].pc = "saving" /\ run'[p].errors = run[p].errors
        /\ run'[p].journal = run[p].journal \o run[p].undo
    BY <1>1, <1>4, PruningDoneIs
  <2>3. /\ Planned(p)' = Planned(p) /\ Plan(p)' = Plan(p) /\ Stale(p)' = Stale(p)
        /\ run'[p].force = run[p].force
    BY <2>2, GoalStays DEF SameRecords
  <2>4. Range(run'[p].journal) = Range(run[p].journal) \cup Range(run[p].undo)
    BY <1>1, <2>2, RunIs, JournalGrows
  <2>5. run[p].pc \notin {"artifacts"} \cup Writing
    BY <2>2 DEF Writing
  <2>. QED
    BY <2>1, <2>2, <2>3, <2>4, <2>5 DEF Reached, Kept, Compares, Gone
<1>. QED
  BY <1>2, <1>3, <1>4

(* Saving: the stale manifests have left the records.                      *)
LEMMA SavingReached ==
  ASSUME Base, NEW p \in Process, Reached(p),
         writeOwnershipState(p) \/ Rollback(p) \/ RollbackDone(p)
  PROVE  Reached(p)'
<1>1. Typed /\ Shape(p) /\ Mutated(p) /\ file \in [Path -> Contents]
  BY HolderIs
<1>2. CASE writeOwnershipState(p)
  <2>1. file' = file
    BY <1>2 DEF writeOwnershipState
  <2>2. run[p].pc = "saving" /\ run[p].pc \notin {"artifacts"} \cup Writing
    BY <1>1, <1>2, SaveIs DEF Writing
  <2>3. CASE run'[p].errors = TRUE
    BY <2>3, FailedReached
  <2>4. CASE /\ owner' = [q \in Path |-> IF q \in Removed(p) THEN None
                                         ELSE IF run[p].made[q] # None THEN run[p].made[q]
                                         ELSE run[p].prev[q]]
             /\ Moved(p, "releasing") /\ run'[p].errors = run[p].errors
    <3>1. /\ Planned(p)' = Planned(p) /\ Plan(p)' = Plan(p)
          /\ run'[p].force = run[p].force
      BY <2>4, GoalStays DEF Moved
    <3>2. ASSUME ~run[p].errors, NEW q \in run[p].only \ DOMAIN Plan(p)
          PROVE  owner'[q] = None
      <4>1. q \in Path
        BY <1>1, RunIs
      <4>2. run[p].made[q] = None
        BY <1>1, <3>2, <4>1 DEF Mutated, Planned
      <4>3. q \in Stale(p) => q \in Removed(p)
        BY <2>2, <3>2 DEF Reached, Removed
      <4>. QED
        BY <2>4, <3>2, <4>1, <4>2, <4>3 DEF Stale
    <3>. QED
      BY <2>1, <2>2, <2>4, <3>1, <3>2 DEF Moved, SameGoal, Reached, Kept, Compares
  <2>. QED
    BY <1>1, <1>2, <2>3, <2>4, SaveIs
<1>3. CASE Rollback(p)
  <2>1. run[p].pc \in {"unpruning", "undoing"} /\ run'[p].errors = run[p].errors
    BY <1>1, <1>3, RollbackIs
  <2>2. run[p].errors = TRUE
    BY <1>1, <2>1, RunIs DEF Reached, Runs
  <2>. QED
    BY <2>1, <2>2, FailedReached
<1>4. CASE RollbackDone(p)
  <2>1. run[p].pc \in {"unpruning", "undoing"} /\ run'[p].errors = run[p].errors
    BY <1>1, <1>4, RollbackDoneIs
  <2>2. run[p].errors = TRUE
    BY <1>1, <2>1, RunIs DEF Reached, Runs
  <2>. QED
    BY <2>1, <2>2, FailedReached
<1>. QED
  BY <1>2, <1>3, <1>4

(* Every step keeps what a sync without an error has reached.              *)
LEMMA NextTruthful == Base /\ Truthful /\ [Next]_vars => Truthful'
<1>. SUFFICES ASSUME Base, Truthful, [Next]_vars, "race" \notin faults',
                     NEW o \in Process
              PROVE  Reached(o)'
  BY DEF Truthful
<1>1. \A p \in Process : Reached(p)
  BY FaultsAre DEF Base, Truthful
<1>2. CASE file' = file /\ owner' = owner /\ run' = run
  BY <1>1, <1>2, Undisturbed
<1>3. ASSUME NEW p \in Process,
             GiveUp(p) \/ \E only \in Filters, force \in BOOLEAN : Begin(p, only, force)
      PROVE  Reached(o)'
  <2>1. Frame(p) /\ UNCHANGED <<file, owner>> /\ Reached(p)'
    BY <1>3, OutsideKeeps
  <2>. QED
    BY <1>1, <2>1, Undisturbed DEF Frame
<1>4. ASSUME NEW p \in Process, acquireSyncLock(p)
      PROVE  Reached(o)'
  <2>1. Moved(p, "loading") /\ UNCHANGED <<file, owner>>
    BY <1>4, HolderIs, GotoIs, PhasesAre DEF acquireSyncLock
  <2>2. Reached(p)'
    BY <2>1 DEF Moved, Reached, Writing
  <2>. QED
    BY <1>1, <2>1, <2>2, Undisturbed DEF Moved, Frame
<1>5. ASSUME NEW p \in Process, Crash(p)
      PROVE  Reached(o)'
  <2>1. Frame(p) /\ UNCHANGED <<file, owner>> /\ run'[p] = Idle /\ lock' # p
    BY <1>5, HolderIs, IdledIs, SyncConstants DEF SyncConstants, Crash
  <2>. QED
    BY <1>1, <2>1, IdleRests, Undisturbed DEF Frame
<1>6. ASSUME NEW p \in Process, Proceed(p)
      PROVE  Reached(o)'
  <2>1. lock = p /\ lock' \in {p, Nobody} /\ Frame(p)
    BY <1>6, ProceedIs
  <2>2. CASE releaseSyncLock(p)
    <3>1. Becomes(p, Idle) /\ lock' = Nobody
      BY <2>2 DEF releaseSyncLock
    <3>2. run'[p] = Idle /\ lock' # p
      BY <3>1, HolderIs, IdledIs, SyncConstants DEF SyncConstants
    <3>. QED
      BY <2>1, <3>2, IdleRests, OthersRest
  <2>3. CASE ~releaseSyncLock(p)
    <3>1. Reached(p)'
      BY <1>1, <1>6, <2>3, ManifestReached, PruningReached, SavingReached DEF Proceed
    <3>. QED
      BY <2>1, <3>1, OthersRest
  <2>. QED
    BY <2>2, <2>3
<1>7. CASE Edit \/ Rotate
  <2>1. lock = Nobody /\ lock' = Nobody /\ run' = run
    BY <1>7 DEF Edit, Rotate, Fault
  <2>. QED
    BY <2>1, AllRest
<1>8. CASE ConfigChanges \/ UNCHANGED vars
  BY <1>2, <1>8 DEF ConfigChanges, vars
<1>. QED
  BY <1>3, <1>4, <1>5, <1>6, <1>7, <1>8 DEF Next

(* No sync has done anything at the start.                                 *)
LEMMA InitTruthful == Init => Truthful
<1>. SUFFICES ASSUME Init PROVE Truthful
  OBVIOUS
<1>1. \A p \in Process : run[p].pc = "idle"
  BY IdleIs DEF Init
<1>. QED
  BY <1>1 DEF Truthful, Reached, Writing

(* The result of SyncSecrets: a sync that reports no error has pruned the  *)
(* stale manifests and, if it was forced or its comparison found the       *)
(* private key, has brought the others to the configuration it read.       *)
THEOREM SuccessIsTold == Spec => []SuccessIsTrue
<1>1. Base /\ Truthful => SuccessIsTrue
  <2>. SUFFICES ASSUME Base, Truthful, "race" \notin faults,
                       NEW p \in Process, run[p].pc = "releasing", ~run[p].errors,
                       NEW q \in run[p].only
                PROVE  IF q \in DOMAIN Plan(p)
                       THEN Compares(p) => file[q].val = Plan(p)[q]
                       ELSE owner[q] = None
    BY DEF SuccessIsTrue, At
  <2>1. Reached(p)
    BY DEF Truthful
  <2>2. run[p].pc \notin {"artifacts"} \cup Writing
    BY DEF Writing
  <2>. QED
    BY <2>1, <2>2 DEF Reached, Kept, Compares, Planned
<1>2. Init => Base /\ Truthful
  BY InitBase, InitTruthful
<1>3. Base /\ Truthful /\ [Next]_vars => (Base /\ Truthful)'
  BY NextBase, NextTruthful
<1>. QED
  BY <1>1, <1>2, <1>3, PTL DEF Spec

===============================================================================
