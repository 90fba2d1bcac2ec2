--------------------------- MODULE KeyLifecycleProofs ---------------------------
(***************************************************************************)
(* For any keys, rules, manifests, operators and faults.                   *)
(*                                                                         *)
(* 1. The registry: what each transaction does to the fingerprints it      *)
(*    knows and to those that are active (Ring, Ageing).                   *)
(* 2. The effects: one lemma per action says what it leaves in the memory  *)
(*    of its operator (Shape) and in the files.  Types follow, and that    *)
(*    retirement is final.                                                 *)
(* 3. Bystanders, for any number of operators: nothing in the files or in  *)
(*    memory takes a key away that nobody set out to retire (Spared).      *)
(* 4. One operator at a time: nothing locks the files between the step     *)
(*    that reads them and the step that writes them, and two operators     *)
(*    that interleave really break what is proved here.  A lone one finds  *)
(*    the registry and the rules as it left them (Works), so what it holds *)
(*    in memory stays true of them: no retired key (Clean), somebody in    *)
(*    every rule (Open), one outcome or the other (Whole).                 *)
(* 5. One rotation at a time, for any number of operators: the registry's  *)
(*    compare and swap of the primary is enough (Chain).                   *)
(***************************************************************************)
EXTENDS KeyLifecycle, FiniteSetTheorems, TLAPS

-----------------------------------------------------------------------------
(* 1. The registry of the cluster, and what each transaction does to the   *)
(* fingerprints it knows and to those that are active.                     *)

(* The entries of the cluster's Age keys.                                  *)
KeyEntry == {e \in Entry : e.cluster = TheCluster /\ e.type = "age" /\ e.from # e.fp}

(* A registry of such keys: one entry per key and one primary at most.     *)
Ring(r) ==
  /\ r \subseteq KeyEntry
  /\ \A x, y \in r : x.fp = y.fp => x = y
  /\ \A x, y \in r : IsPrimary(x) /\ IsPrimary(y) => x = y

(* Entries of one cluster and type are told apart by their fingerprints.   *)
LEMMA KeysByFp ==
  ASSUME NEW x \in KeyEntry, NEW y \in KeyEntry
  PROVE  /\ SameGroup(x, y) /\ InGroup(x, TheCluster, "age")
         /\ SameKey(x, y) <=> x.fp = y.fp
BY DEF KeyEntry, SameKey, SameGroup, InGroup

(* The fingerprints of a set of entries.                                   *)
LEMMA FpsAre ==
  ASSUME NEW r, NEW k
  PROVE  k \in FpsOf(r) <=> \E x \in r : x.fp = k
BY DEF FpsOf

(* The active fingerprints.                                                *)
LEMMA ActiveAre ==
  ASSUME NEW r, r \subseteq KeyEntry, NEW k
  PROVE  k \in ActiveAge(r) <=> \E x \in r : x.fp = k /\ IsActive(x)
BY DEF ActiveAge, KeyEntry

(* An entry is active or its fingerprint is not.                           *)
LEMMA ActiveEntry ==
  ASSUME NEW r, Ring(r), NEW x \in r
  PROVE  x.fp \in ActiveAge(r) <=> IsActive(x)
BY ActiveAre DEF Ring

(* A key that is active in a registry is one of its keys.                  *)
LEMMA ActiveIsKnown ==
  ASSUME NEW r, Ring(r)
  PROVE  ActiveAge(r) \subseteq FpsOf(r) /\ FpsOf(r) \subseteq Fingerprint
<1>1. ActiveAge(r) \subseteq FpsOf(r)
  BY ActiveAre, FpsAre DEF Ring
<1>2. FpsOf(r) \subseteq Fingerprint
  BY FpsAre DEF Ring, KeyEntry, Entry
<1>3. QED
  BY <1>1, <1>2

(* Registering a key adds it as a new one.                                 *)
LEMMA RegisterAdds ==
  ASSUME NEW r, Ring(r), NEW e \in KeyEntry, IsActive(e), ~e.primary,
         NEW s \in RegisterKey(r, e)
  PROVE  /\ Ring(s) /\ e.fp \notin FpsOf(r)
         /\ FpsOf(s) = FpsOf(r) \cup {e.fp} /\ ActiveAge(s) = ActiveAge(r) \cup {e.fp}
<1>1. s = r \cup {e} /\ \A x \in r : x.fp # e.fp
  BY KeysByFp DEF RegisterKey, Ring
<1>2. Ring(s)
  BY <1>1 DEF Ring, IsPrimary
<1>3. FpsOf(s) = FpsOf(r) \cup {e.fp} /\ e.fp \notin FpsOf(r)
  BY <1>1, FpsAre
<1>4. \A k : k \in ActiveAge(s) <=> k \in ActiveAge(r) \/ k = e.fp
  BY <1>1, <1>2, ActiveAre DEF Ring
<1>5. QED
  BY <1>2, <1>3, <1>4

(* Crowning a key changes no status.                                       *)
LEMMA SetPrimaryKeepsKeys ==
  ASSUME NEW r, Ring(r), NEW fp \in Fingerprint,
         NEW s \in SetPrimaryKey(r, TheCluster, "age", fp)
  PROVE  Ring(s) /\ FpsOf(s) = FpsOf(r) /\ ActiveAge(s) = ActiveAge(r)
<1> DEFINE After(x) == [x EXCEPT !.primary = (x.fp = fp)]
<1>1. s = {IF InGroup(x, TheCluster, "age") THEN After(x) ELSE x : x \in r}
  BY DEF SetPrimaryKey, Crowned
<1>2. s = {After(x) : x \in r}
  BY <1>1, KeysByFp DEF Ring
<1>3. \A x \in r : /\ After(x) \in KeyEntry /\ After(x).fp = x.fp
                   /\ IsActive(After(x)) <=> IsActive(x)
                   /\ After(x).primary <=> x.fp = fp
  BY DEF Ring, KeyEntry, Entry, IsActive
<1> HIDE DEF After
<1>4. Ring(s)
  BY <1>2, <1>3 DEF Ring, IsPrimary
<1>5. \A k : k \in FpsOf(s) <=> k \in FpsOf(r)
  BY <1>2, <1>3, FpsAre
<1>6. \A k : k \in ActiveAge(s) <=> k \in ActiveAge(r)
  BY <1>2, <1>3, <1>4, ActiveAre DEF Ring
<1>7. QED
  BY <1>4, <1>5, <1>6

(* The replacement of a rotation, which leaves the old key active.         *)
Replaced(r, old, e) == replacePrimary(r, old, e, FALSE)

(* The successor is new, and joins the active keys.                        *)
LEMMA ReplaceAdds ==
  ASSUME NEW r, Ring(r), NEW old, NEW e \in KeyEntry, IsActive(e),
         NEW s \in Replaced(r, old, e)
  PROVE  /\ Ring(s) /\ e.fp \notin FpsOf(r)
         /\ FpsOf(s) = FpsOf(r) \cup {e.fp} /\ ActiveAge(s) = ActiveAge(r) \cup {e.fp}
<1> DEFINE new      == [e EXCEPT !.primary = TRUE]
           After(x) == [x EXCEPT !.primary = FALSE,
                                 !.status = IF FALSE /\ x.fp = old THEN "archived" ELSE @]
<1>1. s = {IF SameGroup(x, e) THEN After(x) ELSE x : x \in r} \cup {new}
  BY DEF Replaced, replacePrimary, Demoted
<1>2. s = {After(x) : x \in r} \cup {new} /\ \A x \in r : x.fp # e.fp
  <2>1. \A x \in r : SameGroup(x, e) /\ (SameKey(x, e) <=> x.fp = e.fp)
    BY KeysByFp DEF Ring
  <2>2. \A x \in r : ~SameKey(x, e)
    BY DEF Replaced, replacePrimary
  <2>3. QED
    BY <1>1, <2>1, <2>2
<1>3. \A x \in r : /\ After(x) \in KeyEntry /\ After(x).fp = x.fp
                   /\ IsActive(After(x)) <=> IsActive(x)
                   /\ ~After(x).primary
  BY DEF Ring, KeyEntry, Entry, IsActive
<1>4. new \in KeyEntry /\ new.fp = e.fp /\ IsActive(new)
  BY DEF KeyEntry, Entry, IsActive
<1> HIDE DEF After, new
<1>5. Ring(s)
  BY <1>2, <1>3, <1>4 DEF Ring, IsPrimary
<1>6. \A k : k \in FpsOf(s) <=> k \in FpsOf(r) \/ k = e.fp
  BY <1>2, <1>3, <1>4, FpsAre
<1>7. \A k : k \in ActiveAge(s) <=> k \in ActiveAge(r) \/ k = e.fp
  BY <1>2, <1>3, <1>4, <1>5, ActiveAre DEF Ring
<1>8. e.fp \notin FpsOf(r)
  BY <1>2, FpsAre
<1>9. QED
  BY <1>5, <1>6, <1>7, <1>8

(* Retiring one key.                                                       *)
LEMMA UpdateRetires ==
  ASSUME NEW r, Ring(r), NEW u \in KeyEntry, u.status \in {"archived", "revoked"}, ~u.primary,
         NEW s \in UpdateKey(r, u)
  PROVE  Ring(s) /\ FpsOf(s) = FpsOf(r) /\ ActiveAge(s) = ActiveAge(r) \ {u.fp}
<1>1. PICK x \in r : SameKey(x, u) /\ s = (r \ {x}) \cup {mergeKeyEntry(x, u)}
  BY DEF UpdateKey
<1>2. x.fp = u.fp /\ x \in KeyEntry
  BY <1>1, KeysByFp DEF Ring
<1>3. PICK m : m = mergeKeyEntry(x, u)
  OBVIOUS
<1>4. m \in KeyEntry /\ m.fp = x.fp /\ ~IsActive(m) /\ ~m.primary
  BY <1>2, <1>3 DEF mergeKeyEntry, KeyEntry, Entry, IsActive, Status
<1>5. s = (r \ {x}) \cup {m}
  BY <1>1, <1>3
<1>6. Ring(s)
  BY <1>2, <1>4, <1>5 DEF Ring, IsPrimary
<1>7. \A k : k \in FpsOf(s) <=> k \in FpsOf(r)
  BY <1>4, <1>5, FpsAre
<1>8. \A k : k \in ActiveAge(s) <=> k \in ActiveAge(r) /\ k # u.fp
  BY <1>2, <1>4, <1>5, <1>6, ActiveAre DEF Ring
<1>9. QED
  BY <1>6, <1>7, <1>8

(* Retiring a batch of keys.                                               *)
LEMMA UpdateAllRetire ==
  ASSUME NEW r, Ring(r), NEW batch, batch \subseteq KeyEntry,
         \A u \in batch : u.status \in {"archived", "revoked"} /\ ~u.primary,
         NEW s \in UpdateKeys(r, batch)
  PROVE  Ring(s) /\ FpsOf(s) = FpsOf(r) /\ ActiveAge(s) = ActiveAge(r) \ FpsOf(batch)
<1>1. s = Merged(r, batch)
  BY DEF UpdateKeys
<1>2. \A u, v \in batch : u.fp = v.fp => u = v
  BY KeysByFp DEF UpdateKeys
<1>3. \A x \in r : x \in KeyEntry
  BY DEF Ring
<1>4. \A y : y \in s <=> \/ y \in r /\ \A u \in batch : y.fp # u.fp
                         \/ \E x \in r, u \in batch : x.fp = u.fp /\ y = mergeKeyEntry(x, u)
  <2>1. \A x \in r, u \in batch : SameKey(x, u) <=> x.fp = u.fp
    BY <1>3, KeysByFp
  <2>2. \A y : y \in Merged(r, batch) <=>
                 \/ y \in r /\ \A u \in batch : ~SameKey(y, u)
                 \/ \E x \in r, u \in batch : SameKey(x, u) /\ y = mergeKeyEntry(x, u)
    <3> DEFINE same == {q \in r \X batch : SameKey(q[1], q[2])}
    <3>1. \A y : y \in {mergeKeyEntry(q[1], q[2]) : q \in same} <=>
                   \E x \in r, u \in batch : SameKey(x, u) /\ y = mergeKeyEntry(x, u)
      <4>1. \A q \in same : q[1] \in r /\ q[2] \in batch /\ SameKey(q[1], q[2])
        OBVIOUS
      <4>2. \A x \in r, u \in batch : SameKey(x, u) =>
              <<x, u>> \in same /\ <<x, u>>[1] = x /\ <<x, u>>[2] = u
        OBVIOUS
      <4>3. ASSUME NEW x \in r, NEW u \in batch, SameKey(x, u)
            PROVE  mergeKeyEntry(x, u) \in {mergeKeyEntry(q[1], q[2]) : q \in same}
        <5> PICK q : q = <<x, u>>
          OBVIOUS
        <5>1. q \in same /\ mergeKeyEntry(x, u) = mergeKeyEntry(q[1], q[2])
          BY <4>2, <4>3
        <5> HIDE DEF same
        <5>2. QED
          BY <5>1
      <4> HIDE DEF same
      <4>4. QED
        BY <4>1, <4>3
    <3> HIDE DEF same
    <3>2. Merged(r, batch) = {x \in r : \A u \in batch : ~SameKey(x, u)}
                               \cup {mergeKeyEntry(q[1], q[2]) : q \in same}
      BY DEF Merged, same
    <3>3. QED
      BY <3>1, <3>2
  <2>3. QED
    BY <1>1, <2>1, <2>2
<1>5. \A x \in r, u \in batch : x.fp = u.fp =>
        /\ mergeKeyEntry(x, u) \in KeyEntry /\ mergeKeyEntry(x, u).fp = x.fp
        /\ ~IsActive(mergeKeyEntry(x, u)) /\ ~mergeKeyEntry(x, u).primary
  <2> SUFFICES ASSUME NEW x \in r, NEW u \in batch, x.fp = u.fp, NEW m, m = mergeKeyEntry(x, u)
               PROVE  m \in KeyEntry /\ m.fp = x.fp /\ ~IsActive(m) /\ ~m.primary
    OBVIOUS
  <2>1. x \in KeyEntry /\ u \in KeyEntry /\ u.status \in {"archived", "revoked"} /\ ~u.primary
    BY <1>3
  <2>2. QED
    BY <2>1 DEF mergeKeyEntry, KeyEntry, Entry, IsActive, Status
<1>6. Ring(s)
  BY <1>2, <1>4, <1>5 DEF Ring, IsPrimary
<1>7. \A k : k \in FpsOf(s) <=> k \in FpsOf(r)
  BY <1>4, <1>5, FpsAre
<1>8. \A k : k \in ActiveAge(s) <=> k \in ActiveAge(r) /\ k \notin FpsOf(batch)
  BY <1>4, <1>5, <1>6, ActiveAre, FpsAre DEF Ring
<1>9. QED
  BY <1>6, <1>7, <1>8

-----------------------------------------------------------------------------
(* 2. What an operation holds, phase by phase, and what each action does.  *)

Turning     == {"rotate", "emergency"}
Revoking    == {"revoke", "distrust"}
Retiring    == {"complete"} \cup Revoking
Kinds       == {"none", "reconcile"} \cup Turning \cup Retiring
(* The phases of an operation: it chooses a successor, checks what it is   *)
(* to retire, works on the files, or imports recipients.                   *)
Choosing    == {"primary", "status", "generate"}
Checking    == {"list", "preflight"}
Editing     == {"copy", "edit", "write", "recipients", "reencrypt", "undo"}
Working     == {"backup"} \cup Editing
Reconciling == {"compare", "listing", "importing", "selecting"}
Phases      == {"idle", "panicked"} \cup Choosing \cup Checking \cup Working \cup Reconciling

(* Rules an operation has not read yet are empty.                          *)
Rules  == RuleSets \cup {<<>>}
Copies == UNION {[D -> SUBSET Fingerprint] : D \in SUBSET Manifest}

(* The memory of an operation.                                             *)
Operation ==
  [pc : Phases, kind : Kinds, env : {"init", "slot"},
   want : SUBSET (Fingerprint \cup UserKeys),
   out : SUBSET KeyEntry, new : Fingerprint \cup {NoKey}, keys : SUBSET KeyEntry,
   todo : SUBSET (Fingerprint \cup Manifest \cup {"config"}),
   draft : Rules, saved : Rules, copies : Copies, failed : BOOLEAN]

(* What an operation has in memory in each phase.                          *)
Shape(o) ==
  /\ o.pc = "idle" => o = Idle
  /\ o.pc \in Choosing => o.kind \in Turning \cup {"complete"}
  /\ o.pc = "generate" => o.kind \in Turning
  /\ o.pc \in Checking => o.kind \in Revoking /\ o.new = NoKey
  /\ o.pc \in {"status", "generate"} \cup Working /\ o.kind \in Turning \cup {"complete"} =>
       \E e \in KeyEntry : o.out = {e}
  /\ o.pc \in Working => o.kind \in Turning \cup Retiring
  /\ o.pc \in Working /\ o.kind \in Turning \cup {"complete"} =>
       o.new \in Fingerprint \ FpsOf(o.out)
  /\ o.pc \in Working /\ o.kind \in Revoking => o.new = NoKey
  /\ o.pc \in Editing => o.saved \in RuleSets
  /\ o.pc = "write" => o.draft \in RuleSets
  /\ o.pc \in {"copy", "reencrypt"} => o.todo \subseteq Manifest
  /\ o.pc \in {"listing", "importing"} => o.todo \subseteq Fingerprint
  /\ o.pc = "undo" => o.todo \subseteq DOMAIN o.copies \cup {"config"}
  /\ o.pc \notin Editing => DOMAIN o.copies = {}
  /\ o.pc = "copy" => Manifest \ o.todo \subseteq DOMAIN o.copies
  /\ o.pc \in {"edit", "write", "recipients", "reencrypt"} => DOMAIN o.copies = Manifest

(* The types of the state.                                                 *)
Typed ==
  /\ Ring(reg)
  /\ sops \in RuleSets /\ manifest \in [Manifest -> SUBSET Fingerprint]
  /\ slot \in Fingerprint \cup {NoKey}
  /\ op \in [Operator -> Operation]
  /\ gone \subseteq Fingerprint /\ tried \subseteq Fingerprint /\ faults \subseteq Faults
  /\ torn \subseteq Manifest \cup {"config"}

(* The keys an operation is to retire or replace stay in the registry.     *)
Known == \A p \in Operator : FpsOf(op[p].out) \subseteq FpsOf(reg)

(* What every other invariant rests on.                                    *)
Base == Typed /\ Known /\ \A p \in Operator : Shape(op[p])

(* An operator acts and the others stand still.                            *)
Acts(p) ==
  /\ op' \in [Operator -> Operation] /\ Shape(op'[p])
  /\ \A q \in Operator : q # p => op'[q] = op[q]

(* An operation keeps what it is about, or its copies of the files.        *)
SameTask(n, o)   == n.kind = o.kind /\ n.out = o.out /\ n.new = o.new
SameCopies(n, o) == n.saved = o.saved /\ n.copies = o.copies

(* The next record of an operation.                                        *)
LEMMA BecomesIs ==
  ASSUME Base, NEW p \in Operator, NEW o \in Operation, Shape(o), Becomes(p, o)
  PROVE  Acts(p) /\ op'[p] = o
BY DEF Base, Typed, Acts, Becomes

(* An operation in progress.                                               *)
LEMMA OpIs ==
  ASSUME Base, NEW p \in Operator
  PROVE  op[p] \in Operation /\ Shape(op[p])
BY DEF Base, Typed

(* The recipients of some rules, or of some copies.                        *)
LEMMA RecipientsAre ==
  ASSUME NEW rules, NEW k
  PROVE  k \in Recipients(rules) <=> \E r \in DOMAIN rules : k \in rules[r]
BY DEF Recipients

(* Nothing is in hand.                                                     *)
LEMMA IdleIs ==
  /\ Idle.pc = "idle" /\ Idle.kind = "none" /\ Idle.out = {} /\ Idle.new = NoKey
  /\ Idle.todo = {} /\ Idle.failed = FALSE /\ Idle.saved = <<>>
  /\ Idle.copies = <<>> /\ DOMAIN Idle.copies = {} /\ FpsOf(Idle.out) = {}
  /\ Idle \in Operation /\ Shape(Idle)
<1>1. <<>> \in Copies
  <2>1. <<>> \in [{} -> SUBSET Fingerprint]
    OBVIOUS
  <2>2. QED
    BY <2>1 DEF Copies
<1>2. Idle \in Operation
  BY <1>1 DEF Idle, Operation, Phases, Kinds, Rules
<1>3. Shape(Idle)
  BY DEF Shape, Idle, Choosing, Checking, Working, Editing
<1>4. FpsOf({}) = {}
  BY DEF FpsOf
<1>5. QED
  BY <1>2, <1>3, <1>4 DEF Idle

(* Begin.                                                                  *)
LEMMA BeginEffect ==
  ASSUME Base, NEW p \in Operator, Begin(p)
  PROVE  /\ Acts(p) /\ UNCHANGED <<reg, files, slot, past>> /\ op[p].pc = "idle"
         /\ op'[p].pc \in {"primary", "list", "compare"}
         /\ op'[p].out = {} /\ op'[p].new = NoKey /\ DOMAIN op'[p].copies = {}
         /\ op'[p].kind \in Begins[p] /\ (op'[p].kind = "reconcile" <=> op'[p].pc = "compare")
<1>1. op[p] = Idle /\ Idle \in Operation /\ DOMAIN Idle.copies = {}
  BY OpIs, IdleIs DEF Begin, At, Shape
<1>2. PICK kind \in Begins[p] \ {"set-primary"}, env \in Envs :
        \E want \in CASE kind = "revoke"    -> {{k} : k \in FpsOf(reg)} \cup {UserKeys}
                      [] kind = "emergency" -> {{k} : k \in FpsOf(reg)}
                      [] OTHER              -> {{}} :
          Becomes(p, [op[p] EXCEPT !.pc = FirstStep(kind), !.kind = kind,
                                   !.env = env, !.want = want])
  BY DEF Begin
<1>3. kind \in {"rotate", "complete", "revoke", "emergency", "reconcile"}
      /\ env \in {"init", "slot"}
  BY LifecycleConstants
<1>4. FpsOf(reg) \subseteq Fingerprint
  BY ActiveIsKnown DEF Base, Typed
<1>5. PICK want \in SUBSET (Fingerprint \cup UserKeys) :
        Becomes(p, [op[p] EXCEPT !.pc = FirstStep(kind), !.kind = kind,
                                 !.env = env, !.want = want])
  BY <1>2, <1>3, <1>4
<1>6. PICK o : o = [Idle EXCEPT !.pc = FirstStep(kind), !.kind = kind,
                                !.env = env, !.want = want]
  OBVIOUS
<1>7. FirstStep(kind) \in {"primary", "list", "compare"}
      /\ (FirstStep(kind) = "primary" => kind \in {"rotate", "emergency", "complete"})
      /\ (FirstStep(kind) = "list" => kind = "revoke")
      /\ (kind = "reconcile" <=> FirstStep(kind) = "compare")
  BY <1>3 DEF FirstStep
<1>8. /\ o.pc = FirstStep(kind) /\ o.kind = kind /\ o.env = env /\ o.want = want
      /\ o.out = {} /\ o.new = NoKey /\ DOMAIN o.copies = {}
      /\ o \in Operation
  BY <1>1, <1>3, <1>5, <1>6, <1>7, IdleIs
     DEF Operation, Phases, Choosing, Checking, Reconciling, Kinds, Turning, Retiring, Revoking
<1>9. Shape(o)
  BY <1>7, <1>8
     DEF Shape, Choosing, Checking, Working, Editing, Turning, Revoking
<1>10. Acts(p) /\ op'[p] = o
  BY <1>1, <1>5, <1>6, <1>8, <1>9, BecomesIs
<1>11. QED
  BY <1>1, <1>7, <1>8, <1>10, IdleIs DEF Begin

(* An operation that ends has nothing in hand.                             *)
LEMMA FinishEffect ==
  ASSUME Base, NEW p \in Operator, Finish(p)
  PROVE  Acts(p) /\ op'[p] = Idle
BY BecomesIs, IdleIs DEF Finish

(* GetPrimaryKey: the entry to replace is read.                            *)
LEMMA GetPrimaryKeyEffect ==
  ASSUME Base, NEW p \in Operator, GetPrimaryKey(p)
  PROVE  /\ Acts(p) /\ UNCHANGED <<reg, files, slot, past>>
         /\ op[p].pc = "primary" /\ op'[p].pc = "status" /\ op'[p].kind = op[p].kind
         /\ op'[p].new = op[p].new /\ SameCopies(op'[p], op[p])
         /\ \E e \in reg : IsPrimary(e) /\ op'[p].out = {e}
<1>1. op[p] \in Operation /\ Shape(op[p]) /\ op[p].pc = "primary"
  BY OpIs DEF GetPrimaryKey, At
<1>2. PICK e \in reg : IsPrimary(e) /\ Becomes(p, [op[p] EXCEPT !.pc = "status", !.out = {e}])
  BY DEF GetPrimaryKey
<1>3. PICK o : o = [op[p] EXCEPT !.pc = "status", !.out = {e}]
  OBVIOUS
<1>4. e \in KeyEntry
  BY DEF Base, Typed, Ring
<1>5. /\ o \in Operation /\ o.pc = "status" /\ o.out = {e} /\ SameCopies(o, op[p])
      /\ o.kind = op[p].kind /\ o.new = op[p].new
  BY <1>1, <1>3, <1>4 DEF Operation, Phases, Choosing, SameCopies
<1>6. Shape(o)
  BY <1>1, <1>4, <1>5 DEF Shape, Choosing, Checking, Working, Editing, SameCopies
<1>7. QED
  BY <1>1, <1>2, <1>3, <1>5, <1>6, BecomesIs DEF GetPrimaryKey

(* GetRotationStatus: a completion picks the rotation in progress, a new   *)
(* rotation wants none.                                                    *)
LEMMA GetRotationStatusEffect ==
  ASSUME Base, NEW p \in Operator, GetRotationStatus(p)
  PROVE  /\ Acts(p) /\ UNCHANGED <<reg, files, slot, gone, faults>>
         /\ op[p].pc = "status" /\ op'[p].kind = op[p].kind /\ SameCopies(op'[p], op[p])
         /\ \/ /\ op[p].kind = "complete" /\ op'[p].pc = "backup"
               /\ \E s \in Successors, old \in reg :
                    /\ IsActive(old) /\ old.fp = s.from
                    /\ op'[p].out = {old} /\ op'[p].new = s.fp
                    /\ tried' = tried \cup ({old.fp} \cap Recipients(RuleKeys))
            \/ /\ op[p].kind \in Turning /\ op'[p].pc = "generate" /\ Successors = {}
               /\ op'[p].out = op[p].out /\ op'[p].new = op[p].new /\ UNCHANGED tried
<1>1. op[p] \in Operation /\ Shape(op[p]) /\ op[p].pc = "status"
  BY OpIs DEF GetRotationStatus, At
<1>2. op[p].kind \in Turning \cup {"complete"}
  BY <1>1 DEF Shape, Choosing
<1>3. CASE op[p].kind = "complete"
  <2>1. PICK s \in Successors, old \in reg :
          /\ IsActive(old) /\ old.fp = s.from
          /\ Becomes(p, [op[p] EXCEPT !.pc = "backup", !.out = {old}, !.new = s.fp])
          /\ tried' = tried \cup ({old.fp} \cap Recipients(RuleKeys))
    BY <1>3 DEF GetRotationStatus
  <2>2. PICK o : o = [op[p] EXCEPT !.pc = "backup", !.out = {old}, !.new = s.fp]
    OBVIOUS
  <2>3. old \in KeyEntry /\ s \in KeyEntry
    BY DEF Base, Typed, Ring, Successors
  <2>4. s.fp \in Fingerprint /\ s.fp # old.fp
    BY <2>1, <2>3 DEF KeyEntry, Entry
  <2>5. /\ o \in Operation /\ o.pc = "backup" /\ o.out = {old} /\ SameCopies(o, op[p])
        /\ o.kind = op[p].kind /\ o.new = s.fp
    BY <1>1, <2>2, <2>3, <2>4 DEF Operation, Phases, Working, SameCopies
  <2>6. FpsOf(o.out) = {old.fp}
    BY <2>5 DEF FpsOf
  <2>7. Shape(o)
    BY <1>1, <1>3, <2>3, <2>4, <2>5, <2>6
       DEF Shape, Choosing, Checking, Working, Editing, SameCopies, Retiring, Revoking, Turning
  <2>8. QED
    BY <1>1, <1>3, <2>1, <2>2, <2>5, <2>7, BecomesIs DEF GetRotationStatus
<1>4. CASE op[p].kind # "complete"
  <2>1. Successors = {} /\ Becomes(p, [op[p] EXCEPT !.pc = "generate"]) /\ UNCHANGED tried
    BY <1>4 DEF GetRotationStatus, Goto
  <2>2. PICK o : o = [op[p] EXCEPT !.pc = "generate"]
    OBVIOUS
  <2>3. /\ o \in Operation /\ o.pc = "generate" /\ o.out = op[p].out /\ SameCopies(o, op[p])
        /\ o.kind = op[p].kind /\ o.new = op[p].new
    BY <1>1, <2>2 DEF Operation, Phases, Choosing, SameCopies
  <2>4. Shape(o)
    BY <1>1, <1>2, <1>4, <2>3 DEF Shape, Choosing, Checking, Working, Editing, SameCopies
  <2>5. QED
    BY <1>1, <1>2, <1>4, <2>1, <2>2, <2>3, <2>4, BecomesIs DEF GetRotationStatus
<1>5. QED
  BY <1>3, <1>4

(* generateAgeKey: the successor is a key nothing mentions.                *)
LEMMA generateAgeKeyEffect ==
  ASSUME Base, NEW p \in Operator, generateAgeKey(p)
  PROVE  /\ Acts(p) /\ UNCHANGED <<reg, files, past>> /\ slot' \in Fingerprint \cup {NoKey}
         /\ op[p].pc = "generate" /\ op[p].kind \in Turning
         /\ op'[p].kind = op[p].kind /\ op'[p].out = op[p].out /\ SameCopies(op'[p], op[p])
         /\ \/ op'[p].pc = "backup" /\ op'[p].new \in Fresh
            \/ op'[p].pc = "panicked" /\ op'[p].new = op[p].new
<1>1. op[p] \in Operation /\ Shape(op[p]) /\ op[p].pc = "generate" /\ op[p].kind \in Turning
  BY OpIs DEF generateAgeKey, At, Shape
<1>2. CASE KeyManagerWired
  <2>1. PICK k \in Fresh :
          /\ slot' = k
          /\ Becomes(p, [op[p] EXCEPT !.pc = "backup", !.new = k, !.env = "slot"])
    BY <1>2 DEF generateAgeKey
  <2>2. PICK o : o = [op[p] EXCEPT !.pc = "backup", !.new = k, !.env = "slot"]
    OBVIOUS
  <2>3. k \in Fingerprint /\ k \notin FpsOf(op[p].out)
    BY DEF Fresh, Base, Known
  <2>4. /\ o \in Operation /\ o.pc = "backup" /\ o.out = op[p].out /\ SameCopies(o, op[p])
        /\ o.kind = op[p].kind /\ o.new = k
    BY <1>1, <2>2, <2>3 DEF Operation, Phases, Working, SameCopies
  <2>5. Shape(o)
    BY <1>1, <2>3, <2>4
       DEF Shape, Choosing, Checking, Working, Editing, SameCopies, Retiring, Revoking, Turning
  <2>6. QED
    BY <1>1, <2>1, <2>2, <2>3, <2>4, <2>5, BecomesIs DEF generateAgeKey
<1>3. CASE ~KeyManagerWired
  <2>1. Becomes(p, [op[p] EXCEPT !.pc = "panicked"]) /\ UNCHANGED slot
    BY <1>3 DEF generateAgeKey, Goto
  <2>2. PICK o : o = [op[p] EXCEPT !.pc = "panicked"]
    OBVIOUS
  <2>3. /\ o \in Operation /\ o.pc = "panicked" /\ o.out = op[p].out /\ SameCopies(o, op[p])
        /\ o.kind = op[p].kind /\ o.new = op[p].new
    BY <1>1, <2>2 DEF Operation, Phases, SameCopies
  <2>4. Shape(o)
    BY <1>1, <2>3 DEF Shape, Choosing, Checking, Working, Editing, SameCopies
  <2>5. QED
    BY <1>1, <2>1, <2>2, <2>3, <2>4, BecomesIs DEF generateAgeKey, Base, Typed
<1>4. QED
  BY <1>2, <1>3

(* ListKeys: the entries to retire are read, and are not all there is.     *)
LEMMA ListKeysEffect ==
  ASSUME Base, NEW p \in Operator, ListKeys(p)
  PROVE  /\ Acts(p) /\ UNCHANGED <<reg, files, slot, gone, faults>>
         /\ op[p].pc = "list" /\ op'[p].pc = "preflight" /\ op'[p].kind = op[p].kind
         /\ op'[p].new = op[p].new /\ SameCopies(op'[p], op[p])
         /\ op'[p].out \subseteq reg /\ ActiveAge(reg) \ FpsOf(op'[p].out) # {}
         /\ tried' = tried \cup (FpsOf(op'[p].out) \cap Recipients(RuleKeys))
<1>1. op[p] \in Operation /\ Shape(op[p]) /\ op[p].pc = "list"
  BY OpIs DEF ListKeys, At
<1>2. PICK out : out = {e \in reg : IsActive(e) /\ e.fp \in op[p].want}
  OBVIOUS
<1>3. /\ ActiveAge(reg) \ FpsOf(out) # {}
      /\ Becomes(p, [op[p] EXCEPT !.pc = "preflight", !.out = out])
      /\ tried' = tried \cup (FpsOf(out) \cap Recipients(RuleKeys))
  BY <1>2 DEF ListKeys
<1>4. PICK o : o = [op[p] EXCEPT !.pc = "preflight", !.out = out]
  OBVIOUS
<1>5. out \subseteq reg /\ reg \subseteq KeyEntry
  BY <1>2 DEF Base, Typed, Ring
<1>6. /\ o \in Operation /\ o.pc = "preflight" /\ o.out = out /\ SameCopies(o, op[p])
      /\ o.kind = op[p].kind /\ o.new = op[p].new
  BY <1>1, <1>4, <1>5 DEF Operation, Phases, Checking, SameCopies
<1>7. Shape(o)
  BY <1>1, <1>6 DEF Shape, Choosing, Checking, Working, Editing, SameCopies
<1>8. QED
  BY <1>1, <1>3, <1>4, <1>5, <1>6, <1>7, BecomesIs DEF ListKeys

(* checkRegistryDrift: every recipient is an active key.                   *)
LEMMA checkRegistryDriftEffect ==
  ASSUME Base, NEW p \in Operator, checkRegistryDrift(p)
  PROVE  /\ Acts(p) /\ UNCHANGED <<reg, files, slot, past>>
         /\ op[p].pc = "preflight" /\ op'[p].pc = "backup" /\ op[p].kind \in Revoking
         /\ SameTask(op'[p], op[p]) /\ SameCopies(op'[p], op[p])
         /\ Recipients(sops) \subseteq ActiveAge(reg)
<1>1. op[p] \in Operation /\ Shape(op[p]) /\ op[p].pc = "preflight"
  BY OpIs DEF checkRegistryDrift, At
<1>2. Becomes(p, [op[p] EXCEPT !.pc = "backup"])
  BY DEF checkRegistryDrift, Goto
<1>3. PICK o : o = [op[p] EXCEPT !.pc = "backup"]
  OBVIOUS
<1>4. o \in Operation /\ o.pc = "backup" /\ SameTask(o, op[p]) /\ SameCopies(o, op[p])
  BY <1>1, <1>3 DEF Operation, Phases, Working, SameCopies, SameTask
<1>5. op[p].kind \in Revoking
  BY <1>1 DEF Shape, Checking
<1>6. Shape(o)
  BY <1>1, <1>4, <1>5
     DEF Shape, Choosing, Checking, Working, Editing, SameCopies, Retiring, Revoking, Turning,
         SameTask
<1>7. QED
  BY <1>1, <1>2, <1>3, <1>4, <1>5, <1>6, BecomesIs DEF checkRegistryDrift

(* The rules are copied.                                                   *)
LEMMA BackupConfigEffect ==
  ASSUME Base, NEW p \in Operator, BackupConfig(p)
  PROVE  /\ Acts(p) /\ UNCHANGED <<reg, files, slot, past>>
         /\ op[p].pc = "backup" /\ op'[p].pc = "copy" /\ SameTask(op'[p], op[p])
         /\ op'[p].saved = sops /\ op'[p].copies = op[p].copies /\ op'[p].todo = Manifest
<1>1. op[p] \in Operation /\ Shape(op[p]) /\ op[p].pc = "backup"
  BY OpIs DEF BackupConfig, At
<1>2. PICK o : o = [op[p] EXCEPT !.pc = "copy", !.saved = sops, !.todo = Manifest]
  OBVIOUS
<1>3. sops \in RuleSets
  BY DEF Base, Typed
<1>4. /\ o \in Operation /\ o.pc = "copy" /\ SameTask(o, op[p]) /\ o.saved = sops
      /\ o.copies = op[p].copies /\ o.todo = Manifest
  BY <1>1, <1>2, <1>3 DEF Operation, Phases, Working, Editing, Rules, SameTask
<1>5. Shape(o)
  BY <1>1, <1>3, <1>4
     DEF Shape, Choosing, Checking, Working, Editing, Retiring, Revoking, Turning, SameTask
<1>6. QED
  BY <1>1, <1>2, <1>4, <1>5, BecomesIs DEF BackupConfig

(* A manifest is copied, or all of them are.                               *)
LEMMA BackupManifestEffect ==
  ASSUME Base, NEW p \in Operator, BackupManifest(p)
  PROVE  /\ Acts(p) /\ UNCHANGED <<reg, files, slot, past>>
         /\ op[p].pc = "copy" /\ SameTask(op'[p], op[p]) /\ op'[p].saved = op[p].saved
         /\ \/ /\ op[p].todo = {} /\ op'[p].pc = "edit" /\ op'[p].todo = op[p].todo
               /\ op'[p].copies = op[p].copies
            \/ \E m \in op[p].todo :
                 /\ op'[p].pc = "copy" /\ op'[p].todo = op[p].todo \ {m}
                 /\ DOMAIN op'[p].copies = DOMAIN op[p].copies \cup {m}
                 /\ op'[p].copies[m] = manifest[m]
                 /\ \A n \in DOMAIN op[p].copies : n # m => op'[p].copies[n] = op[p].copies[n]
<1>1. op[p] \in Operation /\ Shape(op[p]) /\ op[p].pc = "copy"
  BY OpIs DEF BackupManifest, At
<1>2. CASE op[p].todo = {}
  <2>1. Becomes(p, [op[p] EXCEPT !.pc = "edit"])
    BY <1>2 DEF BackupManifest, Goto
  <2>2. PICK o : o = [op[p] EXCEPT !.pc = "edit"]
    OBVIOUS
  <2>3. /\ o \in Operation /\ o.pc = "edit" /\ SameTask(o, op[p]) /\ SameCopies(o, op[p])
        /\ o.todo = op[p].todo
    BY <1>1, <2>2 DEF Operation, Phases, Working, Editing, SameTask, SameCopies
  <2>4. DOMAIN op[p].copies = Manifest
    <3>1. PICK D \in SUBSET Manifest : op[p].copies \in [D -> SUBSET Fingerprint]
      BY <1>1 DEF Operation, Copies
    <3>2. Manifest \ op[p].todo \subseteq DOMAIN op[p].copies
      BY <1>1 DEF Shape
    <3>3. QED
      BY <1>2, <3>1, <3>2
  <2>5. Shape(o)
    BY <1>1, <1>2, <2>3, <2>4
       DEF Shape, Choosing, Checking, Working, Editing, SameTask, SameCopies
  <2>6. QED
    BY <1>1, <1>2, <2>1, <2>2, <2>3, <2>5, BecomesIs DEF BackupManifest, SameCopies
<1>3. CASE op[p].todo # {}
  <2>1. PICK m \in op[p].todo :
          Becomes(p, [op[p] EXCEPT !.copies = WithCopy(@, m), !.todo = @ \ {m}])
    BY <1>3 DEF BackupManifest
  <2>2. PICK c : c = WithCopy(op[p].copies, m)
    OBVIOUS
  <2>3. PICK o : o = [op[p] EXCEPT !.copies = c, !.todo = @ \ {m}]
    OBVIOUS
  <2>4. m \in Manifest /\ manifest[m] \in SUBSET Fingerprint
    BY <1>1 DEF Shape, Base, Typed
  <2>5. PICK D \in SUBSET Manifest : op[p].copies \in [D -> SUBSET Fingerprint]
    BY <1>1 DEF Operation, Copies
  <2>6. /\ c \in [D \cup {m} -> SUBSET Fingerprint] /\ c[m] = manifest[m]
        /\ \A n \in D : n # m => c[n] = op[p].copies[n]
    BY <2>2, <2>4, <2>5 DEF WithCopy
  <2>7. c \in Copies
    BY <2>4, <2>5, <2>6 DEF Copies
  <2>8. /\ o \in Operation /\ o.pc = "copy" /\ SameTask(o, op[p]) /\ o.saved = op[p].saved
        /\ o.todo = op[p].todo \ {m} /\ o.copies = c
    BY <1>1, <2>3, <2>7 DEF Operation, SameTask
  <2>9. Shape(o)
    BY <1>1, <2>5, <2>6, <2>8 DEF Shape, Choosing, Checking, Working, Editing, SameTask
  <2>10. Acts(p) /\ op'[p] = o
    BY <2>1, <2>2, <2>3, <2>8, <2>9, BecomesIs
  <2>11. QED
    BY <1>1, <2>5, <2>6, <2>8, <2>10 DEF BackupManifest
<1>4. QED
  BY <1>2, <1>3

(* What the operation makes of one rule.                                   *)
LEMMA RewrittenIs ==
  ASSUME Base, NEW p \in Operator, NEW rs \in SUBSET Fingerprint
  PROVE  /\ Rewritten(p, rs) \in SUBSET Fingerprint
         /\ rs \ FpsOf(op[p].out) \subseteq Rewritten(p, rs)
         /\ Rewritten(p, rs) \subseteq rs \cup {op[p].new}
         /\ op[p].kind \in Turning => rs \subseteq Rewritten(p, rs)
         /\ op[p].kind \notin Turning /\ op[p].new \notin FpsOf(op[p].out) =>
              Rewritten(p, rs) \cap FpsOf(op[p].out) = {}
         /\ op[p].new # NoKey /\ rs \cap FpsOf(op[p].out) # {} => op[p].new \in Rewritten(p, rs)
         /\ op[p].new = NoKey => Rewritten(p, rs) \subseteq rs
<1>1. op[p].new \in Fingerprint \cup {NoKey}
  BY OpIs DEF Operation
<1>2. PICK olds : olds = FpsOf(op[p].out) \cap rs
  OBVIOUS
<1>3. CASE op[p].kind \in Turning
  <2>1. Rewritten(p, rs) = (rs \ {}) \cup (IF olds # {} /\ op[p].new # NoKey
                                           THEN {op[p].new} ELSE {})
    BY <1>2, <1>3 DEF Rewritten, Turning
  <2>2. QED
    BY <1>1, <1>2, <1>3, <2>1
<1>4. CASE op[p].kind \notin Turning
  <2>1. Rewritten(p, rs) = (rs \ olds) \cup (IF olds # {} /\ op[p].new # NoKey
                                             THEN {op[p].new} ELSE {})
    BY <1>2, <1>4 DEF Rewritten, Turning
  <2>2. QED
    BY <1>1, <1>2, <1>4, <2>1
<1>5. QED
  BY <1>3, <1>4

(* The rules are read and rewritten in memory.                             *)
LEMMA ReadConfigEffect ==
  ASSUME Base, NEW p \in Operator, ReadConfig(p)
  PROVE  /\ Acts(p) /\ UNCHANGED <<reg, files, slot, past>>
         /\ op[p].pc = "edit" /\ op'[p].pc = "write"
         /\ SameTask(op'[p], op[p]) /\ SameCopies(op'[p], op[p])
         /\ op'[p].draft \in RuleSets
         /\ \A r \in Rule : /\ op'[p].draft[r] = Rewritten(p, sops[r])
                            /\ sops[r] # {} => op'[p].draft[r] # {}
<1>1. op[p] \in Operation /\ Shape(op[p]) /\ op[p].pc = "edit"
  BY OpIs DEF ReadConfig, At
<1>2. PICK draft : draft = [r \in Rule |-> Rewritten(p, sops[r])]
  OBVIOUS
<1>3. /\ \A r \in Rule : sops[r] # {} => draft[r] # {}
      /\ Becomes(p, [op[p] EXCEPT !.pc = "write", !.draft = draft])
  BY <1>2 DEF ReadConfig
<1>4. draft \in RuleSets
  BY <1>2, RewrittenIs DEF Base, Typed, RuleSets
<1>5. PICK o : o = [op[p] EXCEPT !.pc = "write", !.draft = draft]
  OBVIOUS
<1>6. /\ o \in Operation /\ o.pc = "write" /\ SameTask(o, op[p]) /\ SameCopies(o, op[p])
      /\ o.draft = draft
  BY <1>1, <1>4, <1>5 DEF Operation, Phases, Working, Editing, Rules, SameTask, SameCopies
<1>7. Shape(o)
  BY <1>1, <1>4, <1>6
     DEF Shape, Choosing, Checking, Working, Editing, SameTask, SameCopies
<1>8. Acts(p) /\ op'[p] = o /\ UNCHANGED <<reg, files, slot, past>>
  BY <1>3, <1>5, <1>6, <1>7, BecomesIs DEF ReadConfig
<1>9. \A r \in Rule : draft[r] = Rewritten(p, sops[r])
  BY <1>2
<1>10. QED
  BY <1>1, <1>3, <1>4, <1>6, <1>8, <1>9

(* The rewritten rules take the place of the old ones.                     *)
LEMMA WriteConfigEffect ==
  ASSUME Base, NEW p \in Operator, WriteConfig(p)
  PROVE  /\ Acts(p) /\ UNCHANGED <<reg, manifest, torn, slot, past>>
         /\ sops' = op[p].draft /\ sops' \in RuleSets
         /\ op[p].pc = "write" /\ op'[p].pc = "recipients"
         /\ SameTask(op'[p], op[p]) /\ SameCopies(op'[p], op[p])
<1>1. op[p] \in Operation /\ Shape(op[p]) /\ op[p].pc = "write"
  BY OpIs DEF WriteConfig, At
<1>2. PICK o : o = [op[p] EXCEPT !.pc = "recipients", !.draft = <<>>]
  OBVIOUS
<1>3. o \in Operation /\ o.pc = "recipients" /\ SameTask(o, op[p]) /\ SameCopies(o, op[p])
  BY <1>1, <1>2 DEF Operation, Phases, Working, Editing, Rules, SameTask, SameCopies
<1>4. Shape(o)
  BY <1>1, <1>3 DEF Shape, Choosing, Checking, Working, Editing, SameTask, SameCopies
<1>5. op[p].draft \in RuleSets
  BY <1>1 DEF Shape
<1>6. QED
  BY <1>1, <1>2, <1>3, <1>4, <1>5, BecomesIs DEF WriteConfig

(* The re-encryption starts.                                               *)
LEMMA activeRecipientSetEffect ==
  ASSUME Base, NEW p \in Operator, activeRecipientSet(p)
  PROVE  /\ Acts(p) /\ UNCHANGED <<reg, files, slot, past>>
         /\ op[p].pc = "recipients" /\ op'[p].pc = "reencrypt" /\ op'[p].todo = Manifest
         /\ SameTask(op'[p], op[p]) /\ SameCopies(op'[p], op[p])
<1>1. op[p] \in Operation /\ Shape(op[p]) /\ op[p].pc = "recipients"
  BY OpIs DEF activeRecipientSet, At
<1>2. PICK o : o = [op[p] EXCEPT !.pc = "reencrypt", !.todo = Manifest]
  OBVIOUS
<1>3. /\ o \in Operation /\ o.pc = "reencrypt" /\ SameTask(o, op[p]) /\ SameCopies(o, op[p])
      /\ o.todo = Manifest
  BY <1>1, <1>2 DEF Operation, Phases, Working, Editing, SameTask, SameCopies
<1>4. Shape(o)
  BY <1>1, <1>3 DEF Shape, Choosing, Checking, Working, Editing, SameTask, SameCopies
<1>5. QED
  BY <1>1, <1>2, <1>3, <1>4, BecomesIs DEF activeRecipientSet

(* The rollback starts with every copy to write back.                      *)
LEMMA StartUndoEffect ==
  ASSUME Base, NEW p \in Operator, StartUndo(p), op[p].pc \in Editing
  PROVE  /\ Acts(p) /\ op'[p].pc = "undo" /\ SameTask(op'[p], op[p])
         /\ SameCopies(op'[p], op[p]) /\ op'[p].todo = DOMAIN op[p].copies \cup {"config"}
<1>1. op[p] \in Operation /\ Shape(op[p])
  BY OpIs
<1>2. DOMAIN op[p].copies \subseteq Manifest
  BY <1>1 DEF Operation, Copies
<1>3. PICK o : o = [op[p] EXCEPT !.pc = "undo", !.todo = DOMAIN op[p].copies \cup {"config"}]
  OBVIOUS
<1>4. /\ o \in Operation /\ o.pc = "undo" /\ SameTask(o, op[p]) /\ SameCopies(o, op[p])
      /\ o.todo = DOMAIN op[p].copies \cup {"config"}
  BY <1>1, <1>2, <1>3 DEF Operation, Phases, Working, Editing, SameTask, SameCopies
<1>5. Shape(o)
  BY <1>1, <1>4 DEF Shape, Choosing, Checking, Working, Editing, SameTask, SameCopies
<1>6. QED
  BY <1>3, <1>4, <1>5, BecomesIs DEF StartUndo

(* One manifest is re-encrypted, fails or is passed over.                  *)
LEMMA ReencryptManifestEffect ==
  ASSUME Base, NEW p \in Operator, ReencryptManifest(p)
  PROVE  /\ Acts(p) /\ UNCHANGED <<reg, sops, torn, slot, tried, gone>>
         /\ op[p].pc = "reencrypt" /\ op'[p].pc = "reencrypt"
         /\ SameTask(op'[p], op[p]) /\ SameCopies(op'[p], op[p])
         /\ \E m \in op[p].todo \cap Manifest :
              /\ op'[p].todo = op[p].todo \ {m}
              /\ \/ /\ manifest' = [manifest EXCEPT ![m] = sops[RuleOf[m]]]
                    /\ op'[p].failed = op[p].failed /\ UNCHANGED faults
                 \/ op'[p].failed /\ UNCHANGED <<manifest, faults>>
                 \/ /\ op'[p].failed = op[p].failed /\ manifest[m] = {}
                    /\ UNCHANGED <<manifest, faults>>
                 \/ /\ op'[p].failed = op[p].failed /\ Fault("skip") /\ UNCHANGED manifest
<1>1. op[p] \in Operation /\ Shape(op[p]) /\ op[p].pc = "reencrypt"
  BY OpIs DEF ReencryptManifest, At
<1>2. PICK m \in op[p].todo, failed \in {op[p].failed, TRUE} :
        /\ Becomes(p, [op[p] EXCEPT !.todo = @ \ {m}, !.failed = failed])
        /\ \/ /\ manifest' = [manifest EXCEPT ![m] = sops[RuleOf[m]]]
              /\ failed = op[p].failed /\ UNCHANGED faults
           \/ failed /\ UNCHANGED <<manifest, faults>>
           \/ /\ failed = op[p].failed /\ manifest[m] = {}
              /\ UNCHANGED <<manifest, faults>>
           \/ /\ failed = op[p].failed /\ Fault("skip") /\ UNCHANGED manifest
  <2>1. PICK m \in op[p].todo :
       \/ /\ manifest[m] \cap Held(p) # {}
          /\ manifest' = [manifest EXCEPT ![m] = sops[RuleOf[m]]]
          /\ Becomes(p, [op[p] EXCEPT !.todo = @ \ {m}])
          /\ UNCHANGED faults
       \/ /\ Becomes(p, [op[p] EXCEPT !.todo = @ \ {m}, !.failed = TRUE])
          /\ UNCHANGED <<manifest, faults>>
       \/ /\ IF manifest[m] = {} THEN UNCHANGED faults ELSE Fault("skip")
          /\ Becomes(p, [op[p] EXCEPT !.todo = @ \ {m}])
          /\ UNCHANGED manifest
    BY DEF ReencryptManifest
  <2>2. [op[p] EXCEPT !.todo = @ \ {m}]
          = [op[p] EXCEPT !.todo = @ \ {m}, !.failed = op[p].failed]
    BY <1>1 DEF Operation
  <2>3. QED
    BY <2>1, <2>2
<1>3. PICK o : o = [op[p] EXCEPT !.todo = @ \ {m}, !.failed = failed]
  OBVIOUS
<1>4. /\ o \in Operation /\ o.pc = "reencrypt" /\ SameTask(o, op[p]) /\ SameCopies(o, op[p])
      /\ o.todo = op[p].todo \ {m} /\ o.failed = failed
  BY <1>1, <1>2, <1>3 DEF Operation, SameTask, SameCopies
<1>5. Shape(o)
  BY <1>1, <1>4 DEF Shape, Choosing, Checking, Working, Editing, SameTask, SameCopies
<1>6. Acts(p) /\ op'[p] = o
  BY <1>2, <1>3, <1>4, <1>5, BecomesIs
<1>7. m \in Manifest
  BY <1>1 DEF Shape
<1>8. QED
  BY <1>1, <1>2, <1>4, <1>6, <1>7 DEF ReencryptManifest

(* One copy is written back, or cannot be, or the rollback is over.        *)
LEMMA RollbackEffect ==
  ASSUME Base, NEW p \in Operator, Rollback(p)
  PROVE  /\ Acts(p) /\ UNCHANGED <<reg, slot, tried, gone>> /\ op[p].pc = "undo"
         /\ \/ op[p].todo = {} /\ op'[p] = Idle /\ UNCHANGED <<files, faults>>
            \/ \E f \in op[p].todo \cap (DOMAIN op[p].copies \cup {"config"}) :
                 /\ op'[p].pc = "undo" /\ op'[p].todo = op[p].todo \ {f}
                 /\ SameTask(op'[p], op[p]) /\ SameCopies(op'[p], op[p])
                 /\ \/ /\ f = "config" /\ sops' = op[p].saved
                       /\ UNCHANGED <<manifest, torn, faults>>
                    \/ /\ f # "config" /\ f \in Manifest
                       /\ manifest' = [manifest EXCEPT ![f] = op[p].copies[f]]
                       /\ UNCHANGED <<sops, torn, faults>>
                    \/ Fault("restore") /\ UNCHANGED files
<1>1. op[p] \in Operation /\ Shape(op[p]) /\ op[p].pc = "undo"
  BY OpIs DEF Rollback, At
<1>2. CASE op[p].todo = {}
  BY <1>1, <1>2, FinishEffect DEF Rollback
<1>3. CASE op[p].todo # {}
  <2>1. PICK f \in op[p].todo :
            /\ Becomes(p, [op[p] EXCEPT !.todo = @ \ {f}])
            /\ \/ /\ sops' = IF f = "config" THEN op[p].saved ELSE sops
                  /\ manifest' = IF f = "config" THEN manifest
                                 ELSE [manifest EXCEPT ![f] = op[p].copies[f]]
                  /\ UNCHANGED <<torn, faults>>
               \/ /\ Fault("restore")
                  /\ UNCHANGED files
    BY <1>3 DEF Rollback
  <2>2. PICK o : o = [op[p] EXCEPT !.todo = @ \ {f}]
    OBVIOUS
  <2>3. /\ o \in Operation /\ o.pc = "undo" /\ SameTask(o, op[p]) /\ SameCopies(o, op[p])
        /\ o.todo = op[p].todo \ {f}
    BY <1>1, <2>2 DEF Operation, SameTask, SameCopies
  <2>4. Shape(o)
    BY <1>1, <2>3 DEF Shape, Choosing, Checking, Working, Editing, SameTask, SameCopies
  <2>5. Acts(p) /\ op'[p] = o
    BY <2>1, <2>2, <2>3, <2>4, BecomesIs
  <2>6. f \in DOMAIN op[p].copies \cup {"config"} /\ DOMAIN op[p].copies \subseteq Manifest
    BY <1>1 DEF Shape, Operation, Copies
  <2>7. QED
    BY <1>1, <2>1, <2>3, <2>5, <2>6 DEF Rollback, files
<1>4. QED
  BY <1>2, <1>3

(* What a cut-off write of the rules leaves of them.                       *)
LEMMA CutOffIs ==
  ASSUME NEW rules \in RuleSets, NEW left \in CutOff(rules)
  PROVE  left \in RuleSets /\ \A r \in Rule : left[r] \subseteq rules[r]
<1>1. \A k \in Recipients(rules) : k \in Fingerprint
  BY RecipientsAre DEF RuleSets
<1>2. left \in [Rule -> SUBSET Recipients(rules)]
  BY DEF CutOff
<1>3. left \in RuleSets
  BY <1>1, <1>2 DEF RuleSets
<1>4. PICK r \in Rule : /\ left[r] \subseteq rules[r]
                       /\ \A q \in Rule \ {r} : left[q] \in {{}, rules[q]}
  BY DEF CutOff
<1>5. QED
  BY <1>3, <1>4

(* A write that is cut off leaves a part of the rules, or nothing of use   *)
(* of a manifest; its operation is over or goes on writing back.           *)
Tears(p) == WriteCutOff(p) \/ RestoreCutOff(p)

LEMMA TearsEffect ==
  ASSUME Base, NEW p \in Operator, Tears(p)
  PROVE  /\ Acts(p) /\ UNCHANGED <<reg, slot, tried, gone>>
         /\ op[p].pc \in {"write", "undo"}
         /\ \/ /\ "config" \in torn' /\ UNCHANGED manifest /\ sops' \in RuleSets
               /\ \/ op[p].pc = "write" /\ \A r \in Rule : sops'[r] \subseteq op[p].draft[r]
                  \/ op[p].pc = "undo" /\ \A r \in Rule : sops'[r] \subseteq op[p].saved[r]
            \/ /\ op[p].pc = "undo" /\ UNCHANGED sops
               /\ \E m \in Manifest : m \in torn' /\ manifest' = [manifest EXCEPT ![m] = {}]
         /\ torn \subseteq torn' /\ torn' \subseteq Manifest \cup {"config"}
         /\ \/ op'[p] = Idle
            \/ op'[p].pc = "undo" /\ SameTask(op'[p], op[p]) /\ SameCopies(op'[p], op[p])
         /\ \/ Fault("cut")
            \/ /\ op[p].pc = "write" /\ UNCHANGED faults
               /\ op'[p].pc = "undo" /\ op'[p].todo = DOMAIN op[p].copies \cup {"config"}
<1>1. op[p] \in Operation /\ Shape(op[p]) /\ torn \subseteq Manifest \cup {"config"}
  BY OpIs DEF Base, Typed
<1>2. CASE WriteCutOff(p)
  <2>1. /\ op[p].pc = "write" /\ UNCHANGED <<reg, manifest, slot, tried, gone>>
        /\ torn' = torn \cup {"config"} /\ sops' \in CutOff(op[p].draft)
        /\ (StartUndo(p) /\ UNCHANGED faults) \/ (Finish(p) /\ Fault("cut"))
    BY <1>2 DEF WriteCutOff, At
  <2>2. op[p].draft \in RuleSets /\ op[p].pc \in Editing
    BY <1>1, <2>1 DEF Shape, Editing
  <2>3. sops' \in RuleSets /\ \A r \in Rule : sops'[r] \subseteq op[p].draft[r]
    BY <2>1, <2>2, CutOffIs
  <2>4. CASE StartUndo(p) /\ UNCHANGED faults
    <3>1. /\ Acts(p) /\ op'[p].pc = "undo" /\ SameTask(op'[p], op[p])
          /\ SameCopies(op'[p], op[p]) /\ op'[p].todo = DOMAIN op[p].copies \cup {"config"}
      BY <2>2, <2>4, StartUndoEffect
    <3>2. QED
      BY <1>1, <2>1, <2>3, <2>4, <3>1
  <2>5. CASE Finish(p) /\ Fault("cut")
    BY <1>1, <2>1, <2>3, <2>5, FinishEffect
  <2>6. QED
    BY <2>1, <2>4, <2>5
<1>3. CASE RestoreCutOff(p)
  <2>1. /\ op[p].pc = "undo" /\ UNCHANGED <<reg, slot, tried, gone>> /\ Fault("cut")
    BY <1>3 DEF RestoreCutOff, At
  <2>2. PICK f \in op[p].todo :
       /\ \/ f = "config" /\ sops' \in CutOff(op[p].saved) /\ UNCHANGED manifest
          \/ f # "config" /\ manifest' = [manifest EXCEPT ![f] = {}] /\ UNCHANGED sops
       /\ torn' = torn \cup {f}
       /\ Finish(p) \/ Becomes(p, [op[p] EXCEPT !.todo = @ \ {f}])
    BY <1>3 DEF RestoreCutOff
  <2>3. f \in Manifest \cup {"config"} /\ op[p].saved \in RuleSets
    BY <1>1, <2>1 DEF Shape, Operation, Copies, Editing
  <2>4. /\ Acts(p)
        /\ \/ op'[p] = Idle
           \/ op'[p].pc = "undo" /\ SameTask(op'[p], op[p]) /\ SameCopies(op'[p], op[p])
    <3>1. CASE Finish(p)
      BY <3>1, FinishEffect
    <3>2. CASE Becomes(p, [op[p] EXCEPT !.todo = @ \ {f}])
      <4>1. PICK o : o = [op[p] EXCEPT !.todo = @ \ {f}]
        OBVIOUS
      <4>2. /\ o \in Operation /\ o.pc = "undo" /\ SameTask(o, op[p]) /\ SameCopies(o, op[p])
            /\ o.todo = op[p].todo \ {f}
        BY <1>1, <2>1, <4>1 DEF Operation, SameTask, SameCopies
      <4>3. Shape(o)
        BY <1>1, <2>1, <4>2
           DEF Shape, Choosing, Checking, Working, Editing, SameTask, SameCopies
      <4>4. QED
        BY <3>2, <4>1, <4>2, <4>3, BecomesIs
    <3>3. QED
      BY <2>2, <3>1, <3>2
  <2>5. CASE f = "config" /\ sops' \in CutOff(op[p].saved) /\ UNCHANGED manifest
    <3>1. sops' \in RuleSets /\ \A r \in Rule : sops'[r] \subseteq op[p].saved[r]
      BY <2>3, <2>5, CutOffIs
    <3>2. QED
      BY <1>1, <2>1, <2>2, <2>4, <2>5, <3>1
  <2>6. CASE f # "config" /\ manifest' = [manifest EXCEPT ![f] = {}] /\ UNCHANGED sops
    BY <1>1, <2>1, <2>2, <2>3, <2>4, <2>6
  <2>7. QED
    BY <2>2, <2>5, <2>6
<1>4. QED
  BY <1>2, <1>3 DEF Tears

(* What the registry makes of the request of an operation.                 *)
LEMMA RequestedIs ==
  ASSUME Base, NEW p \in Operator, op[p].pc \in Working, NEW r \in Requested(p)
  PROVE  /\ Ring(r)
         /\ op[p].kind \in Turning =>
              /\ op[p].new \notin FpsOf(reg) /\ FpsOf(r) = FpsOf(reg) \cup {op[p].new}
              /\ ActiveAge(r) = ActiveAge(reg) \cup {op[p].new}
         /\ op[p].kind \in Retiring =>
              FpsOf(r) = FpsOf(reg) /\ ActiveAge(r) = ActiveAge(reg) \ FpsOf(op[p].out)
<1>1. /\ op[p] \in Operation /\ Shape(op[p]) /\ Ring(reg)
      /\ op[p].out \subseteq KeyEntry /\ op[p].kind \in Turning \cup Retiring
  BY OpIs DEF Base, Typed, Operation, Shape
<1>2. CASE op[p].kind \in Turning
  <2>1. r \in UNION {replacePrimary(reg, e.fp, AgeEntry(op[p].new, e.fp, TRUE), FALSE)
                       : e \in op[p].out}
    BY <1>2 DEF Requested, Turning
  <2>2. PICK e \in op[p].out :
          r \in replacePrimary(reg, e.fp, AgeEntry(op[p].new, e.fp, TRUE), FALSE)
    BY <2>1
  <2>3. PICK n : n = AgeEntry(op[p].new, e.fp, TRUE)
    OBVIOUS
  <2>4. op[p].new \in Fingerprint \ FpsOf(op[p].out) /\ e.fp \in FpsOf(op[p].out)
        /\ e \in KeyEntry
    BY <1>1, <1>2 DEF Shape, FpsOf
  <2>5. n \in KeyEntry /\ IsActive(n) /\ n.fp = op[p].new
    BY <2>3, <2>4, LifecycleConstants
       DEF AgeEntry, KeyEntry, Entry, IsActive, KeyType, Status
  <2>6. r \in Replaced(reg, e.fp, n)
    BY <2>2, <2>3 DEF Replaced
  <2>7. /\ Ring(r) /\ n.fp \notin FpsOf(reg)
        /\ FpsOf(r) = FpsOf(reg) \cup {n.fp} /\ ActiveAge(r) = ActiveAge(reg) \cup {n.fp}
    <3>1. Ring(reg) /\ n \in KeyEntry /\ IsActive(n)
      BY <1>1, <2>5
    <3>2. QED
      BY <2>6, <3>1, ReplaceAdds
  <2>8. QED
    BY <1>2, <2>5, <2>7 DEF Turning, Retiring, Revoking
<1>3. CASE op[p].kind = "complete"
  <2>1. r \in UNION {UpdateKey(reg, [e EXCEPT !.status = "archived", !.primary = FALSE])
                       : e \in op[p].out}
    BY <1>3 DEF Requested
  <2>2. PICK e \in op[p].out :
          r \in UpdateKey(reg, [e EXCEPT !.status = "archived", !.primary = FALSE])
    BY <2>1
  <2>3. PICK u : u = [e EXCEPT !.status = "archived", !.primary = FALSE]
    OBVIOUS
  <2>4. u \in KeyEntry /\ u.status = "archived" /\ ~u.primary /\ u.fp = e.fp
    BY <1>1, <2>3 DEF KeyEntry, Entry, Status
  <2>5. op[p].out = {e}
    BY <1>1, <1>3 DEF Shape
  <2>6. FpsOf(op[p].out) = {u.fp}
    BY <2>4, <2>5 DEF FpsOf
  <2>7. r \in UpdateKey(reg, u)
    BY <2>2, <2>3
  <2>8. Ring(r) /\ FpsOf(r) = FpsOf(reg) /\ ActiveAge(r) = ActiveAge(reg) \ {u.fp}
    BY <1>1, <2>4, <2>7, UpdateRetires
  <2>9. QED
    BY <1>3, <2>6, <2>8 DEF Turning
<1>4. CASE op[p].kind \in Revoking
  <2> DEFINE Revoked(e) == [e EXCEPT !.status = "revoked", !.primary = FALSE]
  <2>1. PICK batch : batch = {Revoked(e) : e \in op[p].out}
    OBVIOUS
  <2>2. r \in UpdateKeys(reg, batch)
    BY <1>4, <2>1 DEF Requested, Revoking
  <2>3. \A e \in op[p].out : /\ Revoked(e) \in KeyEntry /\ Revoked(e).status = "revoked"
                             /\ ~Revoked(e).primary /\ Revoked(e).fp = e.fp
    BY <1>1 DEF KeyEntry, Entry, Status
  <2> HIDE DEF Revoked
  <2>4. /\ batch \subseteq KeyEntry
        /\ \A u \in batch : u.status \in {"archived", "revoked"} /\ ~u.primary
    BY <2>1, <2>3
  <2>5. \A k : k \in FpsOf(batch) <=> k \in FpsOf(op[p].out)
    BY <2>1, <2>3, FpsAre
  <2>6. FpsOf(batch) = FpsOf(op[p].out)
    BY <2>5
  <2>7. QED
    BY <1>1, <1>4, <2>2, <2>4, <2>6, UpdateAllRetire DEF Turning, Revoking
<1>5. QED
  BY <1>1, <1>2, <1>3, <1>4 DEF Retiring

(* The commit: the registry changes and the operation is over, but for an  *)
(* emergency, which goes on to revoke.                                     *)
LEMMA CommitEffect ==
  ASSUME Base, NEW p \in Operator, Commit(p)
  PROVE  /\ Acts(p) /\ UNCHANGED <<files, slot, tried, faults>>
         /\ op[p].pc = "reencrypt" /\ op[p].todo = {} /\ ~op[p].failed
         /\ reg' \in Requested(p)
         /\ op[p].kind \in Turning => gone' = gone
         /\ op[p].kind \in Retiring => gone' = gone \cup FpsOf(op[p].out)
         /\ op'[p].out = {} /\ op'[p].new = NoKey /\ DOMAIN op'[p].copies = {}
         /\ op[p].kind # "emergency" => op'[p] = Idle
         /\ op[p].kind = "emergency" => op'[p].pc = "list" /\ op'[p].kind = "distrust"
<1>1. op[p] \in Operation /\ Shape(op[p]) /\ op[p].pc = "reencrypt"
  BY OpIs DEF Commit, At
<1>2. CASE op[p].kind = "emergency"
  <2>1. PICK o : o = [Idle EXCEPT !.pc = "list", !.kind = "distrust",
                                  !.env = op[p].env, !.want = op[p].want]
    OBVIOUS
  <2>2. /\ o \in Operation /\ o.pc = "list" /\ o.kind = "distrust" /\ o.out = {}
        /\ o.new = NoKey /\ DOMAIN o.copies = {}
    BY <1>1, <2>1, IdleIs
       DEF Operation, Phases, Checking, Kinds, Retiring, Revoking
  <2>3. Shape(o)
    BY <2>2 DEF Shape, Choosing, Checking, Working, Editing, Revoking
  <2>4. Becomes(p, o)
    BY <1>2, <2>1 DEF Commit
  <2>5. Acts(p) /\ op'[p] = o
    BY <2>2, <2>3, <2>4, BecomesIs
  <2>6. QED
    BY <1>1, <1>2, <2>2, <2>5 DEF Commit, Turning, Retiring, Revoking
<1>3. CASE op[p].kind # "emergency"
  <2>1. Acts(p) /\ op'[p] = Idle
    BY <1>3, FinishEffect DEF Commit
  <2>2. QED
    BY <1>1, <1>3, <2>1, IdleIs DEF Commit, Turning, Retiring, Revoking
<1>4. QED
  BY <1>2, <1>3

(* Reconciliation: the recipients are listed.                              *)
LEMMA ReconcileCompareEffect ==
  ASSUME Base, NEW p \in Operator, ReconcileCompare(p)
  PROVE  /\ Acts(p) /\ UNCHANGED <<reg, files, slot, past>>
         /\ op[p].pc = "compare" /\ op'[p].pc = "listing" /\ op'[p].todo = Recipients(sops)
         /\ SameTask(op'[p], op[p]) /\ SameCopies(op'[p], op[p])
<1>1. op[p] \in Operation /\ Shape(op[p]) /\ op[p].pc = "compare"
  BY OpIs DEF ReconcileCompare, At
<1>2. Recipients(sops) \subseteq Fingerprint
  BY RecipientsAre DEF Base, Typed, RuleSets
<1>3. PICK o : o = [op[p] EXCEPT !.pc = "listing", !.todo = Recipients(sops)]
  OBVIOUS
<1>4. /\ o \in Operation /\ o.pc = "listing" /\ SameTask(o, op[p]) /\ SameCopies(o, op[p])
      /\ o.todo = Recipients(sops)
  BY <1>1, <1>2, <1>3 DEF Operation, Phases, Reconciling, SameTask, SameCopies
<1>5. Shape(o)
  BY <1>1, <1>2, <1>4 DEF Shape, Choosing, Checking, Working, Editing, SameCopies
<1>6. QED
  BY <1>1, <1>3, <1>4, <1>5, BecomesIs DEF ReconcileCompare

(* The recipients the registry does not know are left.                     *)
LEMMA ReconcileListEffect ==
  ASSUME Base, NEW p \in Operator, ReconcileList(p)
  PROVE  /\ Acts(p) /\ UNCHANGED <<reg, files, slot, past>>
         /\ op[p].pc = "listing" /\ op'[p].pc \in {"selecting", "importing"}
         /\ SameTask(op'[p], op[p]) /\ SameCopies(op'[p], op[p])
<1>1. op[p] \in Operation /\ Shape(op[p]) /\ op[p].pc = "listing"
  BY OpIs DEF ReconcileList, At
<1>2. PICK unknown : unknown = op[p].todo \ ActiveAge(reg)
  OBVIOUS
<1>3. PICK next \in {"selecting", "importing"} :
        next = IF unknown = {} THEN "selecting" ELSE "importing"
  OBVIOUS
<1>4. PICK o : o = [op[p] EXCEPT !.pc = next, !.todo = unknown, !.keys = reg]
  OBVIOUS
<1>5. unknown \subseteq Fingerprint /\ reg \subseteq KeyEntry
  BY <1>1, <1>2 DEF Shape, Base, Typed, Ring
<1>6. /\ o \in Operation /\ o.pc = next /\ SameTask(o, op[p]) /\ SameCopies(o, op[p])
      /\ o.todo = unknown
  BY <1>1, <1>4, <1>5 DEF Operation, Phases, Reconciling, SameTask, SameCopies
<1>7. Shape(o)
  BY <1>1, <1>5, <1>6 DEF Shape, Choosing, Checking, Working, Editing, SameCopies
<1>8. Becomes(p, o)
  BY <1>2, <1>3, <1>4 DEF ReconcileList
<1>9. QED
  BY <1>1, <1>6, <1>7, <1>8, BecomesIs DEF ReconcileList

(* One recipient is imported, or all are.                                  *)
LEMMA ReconcileImportEffect ==
  ASSUME Base, NEW p \in Operator, ReconcileImport(p)
  PROVE  /\ Acts(p) /\ UNCHANGED <<files, slot, past>>
         /\ op[p].pc = "importing" /\ op'[p].pc \in {"selecting", "importing"}
         /\ SameTask(op'[p], op[p]) /\ SameCopies(op'[p], op[p])
         /\ \/ UNCHANGED reg
            \/ \E k \in op[p].todo : reg' \in RegisterKey(reg, AgeEntry(k, NoKey, FALSE))
         /\ Ring(reg') /\ FpsOf(reg) \subseteq FpsOf(reg')
         /\ ActiveAge(reg) \subseteq ActiveAge(reg')
         /\ ActiveAge(reg') \cap FpsOf(reg) \subseteq ActiveAge(reg)
<1>1. op[p] \in Operation /\ Shape(op[p]) /\ op[p].pc = "importing" /\ Ring(reg)
  BY OpIs DEF ReconcileImport, At, Base, Typed
<1>2. CASE op[p].todo = {}
  <2>1. Becomes(p, [op[p] EXCEPT !.pc = "selecting", !.keys = reg]) /\ UNCHANGED reg
    BY <1>2 DEF ReconcileImport
  <2>2. PICK o : o = [op[p] EXCEPT !.pc = "selecting", !.keys = reg]
    OBVIOUS
  <2>3. o \in Operation /\ o.pc = "selecting" /\ SameTask(o, op[p]) /\ SameCopies(o, op[p])
    BY <1>1, <2>2 DEF Operation, Phases, Reconciling, SameTask, SameCopies, Ring
  <2>4. Shape(o)
    BY <1>1, <2>3 DEF Shape, Choosing, Checking, Working, Editing, SameCopies
  <2>5. QED
    BY <1>1, <2>1, <2>2, <2>3, <2>4, BecomesIs DEF ReconcileImport
<1>3. CASE op[p].todo # {}
  <2>1. PICK k \in op[p].todo :
            /\ reg' \in RegisterKey(reg, AgeEntry(k, NoKey, FALSE))
            /\ Becomes(p, [op[p] EXCEPT !.todo = @ \ {k}])
    BY <1>3 DEF ReconcileImport
  <2>2. PICK o : o = [op[p] EXCEPT !.todo = @ \ {k}]
    OBVIOUS
  <2>3. k \in Fingerprint /\ op[p].todo \subseteq Fingerprint
    BY <1>1 DEF Shape
  <2>4. /\ o \in Operation /\ o.pc = "importing" /\ SameTask(o, op[p]) /\ SameCopies(o, op[p])
        /\ o.todo = op[p].todo \ {k}
    BY <1>1, <2>2, <2>3 DEF Operation, SameTask, SameCopies
  <2>5. Shape(o)
    BY <1>1, <2>3, <2>4 DEF Shape, Choosing, Checking, Working, Editing, SameCopies
  <2>6. PICK n : n = AgeEntry(k, NoKey, FALSE)
    OBVIOUS
  <2>7. n \in KeyEntry /\ IsActive(n) /\ ~n.primary /\ n.fp = k
    BY <2>3, <2>6, LifecycleConstants, NoKeyIsNoFingerprint, OriginsAreKeys
       DEF AgeEntry, KeyEntry, Entry, IsActive, KeyType, Status
  <2>8. /\ Ring(reg') /\ k \notin FpsOf(reg)
        /\ FpsOf(reg') = FpsOf(reg) \cup {k} /\ ActiveAge(reg') = ActiveAge(reg) \cup {k}
    <3>1. reg' \in RegisterKey(reg, n)
      BY <2>1, <2>6
    <3>2. QED
      BY <1>1, <2>7, <3>1, RegisterAdds
  <2>9. QED
    BY <1>1, <2>1, <2>2, <2>4, <2>5, <2>8, BecomesIs DEF ReconcileImport
<1>4. QED
  BY <1>2, <1>3

(* A sole active key is crowned, or nothing is.                            *)
LEMMA ReconcileSelectEffect ==
  ASSUME Base, NEW p \in Operator, ReconcileSelect(p)
  PROVE  /\ Acts(p) /\ UNCHANGED <<files, slot, past>>
         /\ op[p].pc = "selecting" /\ op'[p] = Idle
         /\ \/ UNCHANGED reg
            \/ \E k \in Fingerprint : reg' \in SetPrimaryKey(reg, TheCluster, "age", k)
         /\ Ring(reg') /\ FpsOf(reg) = FpsOf(reg') /\ ActiveAge(reg) = ActiveAge(reg')
<1>1. op[p] \in Operation /\ Ring(reg)
  BY OpIs DEF Base, Typed
<1>2. op[p].keys \subseteq KeyEntry
  BY <1>1 DEF Operation
<1>3. \/ UNCHANGED reg
      \/ \E e \in op[p].keys : reg' \in SetPrimaryKey(reg, TheCluster, "age", e.fp)
  BY DEF ReconcileSelect
<1>4. \/ UNCHANGED reg
      \/ \E k \in Fingerprint : reg' \in SetPrimaryKey(reg, TheCluster, "age", k)
  BY <1>2, <1>3 DEF KeyEntry, Entry
<1>5. Ring(reg') /\ FpsOf(reg) = FpsOf(reg') /\ ActiveAge(reg) = ActiveAge(reg')
  BY <1>1, <1>4, SetPrimaryKeepsKeys
<1>6. QED
  BY <1>4, <1>5, FinishEffect DEF ReconcileSelect, At

(* The set-primary command.                                                *)
LEMMA SetPrimaryEffect ==
  ASSUME Base, NEW p \in Operator, SetPrimary(p)
  PROVE  /\ UNCHANGED <<files, slot, op, past>>
         /\ \E k \in Fingerprint : reg' \in SetPrimaryKey(reg, TheCluster, "age", k)
         /\ Ring(reg') /\ FpsOf(reg) = FpsOf(reg') /\ ActiveAge(reg) = ActiveAge(reg')
<1>1. Ring(reg) /\ FpsOf(reg) \subseteq Fingerprint
  BY ActiveIsKnown DEF Base, Typed
<1>2. PICK k \in Fingerprint : reg' \in SetPrimaryKey(reg, TheCluster, "age", k)
  BY <1>1 DEF SetPrimary
<1>3. QED
  BY <1>1, <1>2, SetPrimaryKeepsKeys DEF SetPrimary

(* A hand edit or a pull adds a recipient to one rule.                     *)
LEMMA EditConfigEffect ==
  ASSUME Base, EditConfig
  PROVE  /\ UNCHANGED <<reg, manifest, torn, slot, op, tried, gone>>
         /\ \E r \in Rule, k \in Fingerprint :
              /\ sops' = [sops EXCEPT ![r] = @ \cup {k}]
              /\ \/ Fault(IF AllIdle THEN "edit" ELSE "race") /\ k \in Fresh
                 \/ AllIdle /\ Fault("pull")
<1>1. gone \subseteq Fingerprint /\ Fresh \subseteq Fingerprint
  BY DEF Base, Typed, Fresh
<1>2. QED
  BY <1>1 DEF EditConfig

(* A fault is one of the faults, and is remembered.                        *)
LEMMA FaultIs ==
  ASSUME NEW kind, Fault(kind), faults \subseteq Faults
  PROVE  kind \in Faults /\ faults' = faults \cup {kind} /\ faults' \subseteq Faults
BY DEF Fault

(* A rollback starts.                                                      *)
LEMMA FailureEffect ==
  ASSUME Base, NEW p \in Operator, EditFails(p) \/ CommitFails(p)
  PROVE  /\ Acts(p) /\ UNCHANGED <<reg, files, slot, past>>
         /\ op[p].pc \in {"copy", "edit", "write", "recipients", "reencrypt"}
         /\ op'[p].pc = "undo" /\ SameTask(op'[p], op[p])
         /\ SameCopies(op'[p], op[p]) /\ op'[p].todo = DOMAIN op[p].copies \cup {"config"}
<1>1. /\ op[p].pc \in {"copy", "edit", "write", "recipients", "reencrypt"}
      /\ StartUndo(p) /\ UNCHANGED <<reg, files, slot, past>>
  BY DEF EditFails, CommitFails, At
<1>2. op[p].pc \in Editing
  BY <1>1 DEF Editing
<1>3. QED
  BY <1>1, <1>2, StartUndoEffect

(* An operation gives up, or its process dies.                             *)
LEMMA EndEffect ==
  ASSUME Base, NEW p \in Operator, Refuse(p) \/ Crash(p)
  PROVE  /\ Acts(p) /\ op'[p] = Idle /\ UNCHANGED <<reg, files, slot, tried, gone>>
         /\ \/ Fault("crash")
            \/ UNCHANGED faults /\ op[p].pc \notin {"recipients", "reencrypt", "undo"}
<1>1. Finish(p) /\ UNCHANGED <<reg, files, slot, tried, gone>>
  BY DEF Refuse, Crash, past
<1>2. \/ Fault("crash")
      \/ UNCHANGED faults /\ op[p].pc \notin {"recipients", "reencrypt", "undo"}
  BY DEF Refuse, Crash, past
<1>3. QED
  BY <1>1, <1>2, FinishEffect

-----------------------------------------------------------------------------
(* The types hold, and what the registry knows it never forgets.           *)

(* No key is dropped, and none that is known becomes active again.         *)
Ageing(r, s) ==
  /\ Ring(s) /\ FpsOf(r) \subseteq FpsOf(s)
  /\ ActiveAge(s) \cap FpsOf(r) \subseteq ActiveAge(r)

(* The commit.                                                             *)
LEMMA CommitAges ==
  ASSUME Base, NEW p \in Operator, Commit(p)
  PROVE  Ageing(reg, reg')
<1>1. reg' \in Requested(p) /\ op[p].pc \in Working /\ op[p].kind \in Turning \cup Retiring
  BY OpIs, CommitEffect DEF Working, Editing, Shape
<1>2. QED
  BY <1>1, RequestedIs DEF Ageing

(* Every step of an operator: it acts alone, and the registry only grows   *)
(* and ages.                                                               *)
LEMMA StepActs ==
  ASSUME Base, NEW p \in Operator, Step(p)
  PROVE  /\ Acts(p) /\ Ageing(reg, reg') /\ FpsOf(op'[p].out) \subseteq FpsOf(reg')
<1>1. /\ Ring(reg) /\ FpsOf(op[p].out) \subseteq FpsOf(reg)
  BY DEF Base, Typed, Known
<1>2. reg' = reg => Ageing(reg, reg')
  BY <1>1 DEF Ageing
<1>3. FpsOf({}) = {} /\ \A e \in reg : FpsOf({e}) \subseteq FpsOf(reg)
  BY FpsAre
<1>4. \A out : out \subseteq reg => FpsOf(out) \subseteq FpsOf(reg)
  BY DEF FpsOf
<1>5. CASE Begin(p)
  BY <1>2, <1>3, <1>5, BeginEffect DEF Ageing
<1>6. CASE Refuse(p) \/ Crash(p)
  BY <1>2, <1>6, EndEffect, IdleIs
<1>7. CASE GetPrimaryKey(p)
  BY <1>2, <1>3, <1>7, GetPrimaryKeyEffect
<1>8. CASE GetRotationStatus(p)
  BY <1>1, <1>2, <1>3, <1>8, GetRotationStatusEffect
<1>9. CASE generateAgeKey(p)
  BY <1>1, <1>2, <1>9, generateAgeKeyEffect
<1>10. CASE ListKeys(p)
  BY <1>2, <1>4, <1>10, ListKeysEffect
<1>11. CASE checkRegistryDrift(p)
  BY <1>1, <1>2, <1>11, checkRegistryDriftEffect DEF SameTask
<1>12. CASE BackupConfig(p)
  BY <1>1, <1>2, <1>12, BackupConfigEffect DEF SameTask
<1>13. CASE BackupManifest(p)
  BY <1>1, <1>2, <1>13, BackupManifestEffect DEF SameTask
<1>14. CASE ReadConfig(p)
  BY <1>1, <1>2, <1>14, ReadConfigEffect DEF SameTask
<1>15. CASE WriteConfig(p)
  BY <1>1, <1>2, <1>15, WriteConfigEffect DEF SameTask
<1>16. CASE activeRecipientSet(p)
  BY <1>1, <1>2, <1>16, activeRecipientSetEffect DEF SameTask
<1>17. CASE EditFails(p) \/ CommitFails(p)
  BY <1>1, <1>2, <1>17, FailureEffect DEF SameTask
<1>18. CASE ReencryptManifest(p)
  BY <1>1, <1>2, <1>18, ReencryptManifestEffect DEF SameTask
<1>19. CASE Commit(p)
  BY <1>3, <1>19, CommitEffect, CommitAges
<1>20. CASE Rollback(p)
  BY <1>1, <1>2, <1>3, <1>20, RollbackEffect, IdleIs DEF SameTask
<1>21. CASE ReconcileCompare(p)
  BY <1>1, <1>2, <1>21, ReconcileCompareEffect DEF SameTask
<1>22. CASE ReconcileList(p)
  BY <1>1, <1>2, <1>22, ReconcileListEffect DEF SameTask
<1>23. CASE ReconcileImport(p)
  BY <1>1, <1>23, ReconcileImportEffect DEF SameTask, Ageing
<1>24. CASE ReconcileSelect(p)
  BY <1>24, ReconcileSelectEffect, IdleIs DEF Ageing
<1>25. CASE SetPrimary(p)
  <2>1. UNCHANGED op /\ Ring(reg') /\ FpsOf(reg) = FpsOf(reg') /\ ActiveAge(reg) = ActiveAge(reg')
    BY <1>25, SetPrimaryEffect
  <2>2. QED
    BY <1>1, <2>1 DEF Ageing, Acts, Base, Typed
<1>26. CASE Tears(p)
  BY <1>1, <1>2, <1>3, <1>26, TearsEffect, IdleIs DEF SameTask
<1>27. QED
  BY <1>5, <1>6, <1>7, <1>8, <1>9, <1>10, <1>11, <1>12, <1>13, <1>14, <1>15, <1>16, <1>17,
     <1>18, <1>19, <1>20, <1>21, <1>22, <1>23, <1>24, <1>25, <1>26 DEF Step, Tears

(* What a step does to the files and to the history keeps their types.     *)
LEMMA StepTyped ==
  ASSUME Base, NEW p \in Operator, Step(p)
  PROVE  /\ sops' \in RuleSets /\ manifest' \in [Manifest -> SUBSET Fingerprint]
         /\ slot' \in Fingerprint \cup {NoKey}
         /\ gone' \subseteq Fingerprint /\ tried' \subseteq Fingerprint /\ faults' \subseteq Faults
         /\ torn \subseteq torn' /\ torn' \subseteq Manifest \cup {"config"}
<1> DEFINE Still == /\ sops' \in RuleSets /\ manifest' \in [Manifest -> SUBSET Fingerprint]
                    /\ slot' \in Fingerprint \cup {NoKey}
                    /\ gone' \subseteq Fingerprint /\ tried' \subseteq Fingerprint
                    /\ faults' \subseteq Faults
                    /\ torn \subseteq torn' /\ torn' \subseteq Manifest \cup {"config"}
<1>1. /\ sops \in RuleSets /\ manifest \in [Manifest -> SUBSET Fingerprint]
      /\ slot \in Fingerprint \cup {NoKey}
      /\ gone \subseteq Fingerprint /\ tried \subseteq Fingerprint /\ faults \subseteq Faults
      /\ torn \subseteq Manifest \cup {"config"}
  BY DEF Base, Typed
<1>2. UNCHANGED <<files, slot, past>> => Still
  BY <1>1 DEF files, past
<1>3. /\ FpsOf(op[p].out) \subseteq Fingerprint /\ op[p] \in Operation /\ Shape(op[p])
      /\ FpsOf(reg) \subseteq Fingerprint /\ reg \subseteq KeyEntry
  BY OpIs, ActiveIsKnown DEF Base, Known, Typed, Ring
<1>4. CASE GetRotationStatus(p)
  <2>1. \A old \in reg : old.fp \in Fingerprint
    BY <1>3 DEF KeyEntry, Entry
  <2>2. UNCHANGED <<files, slot, gone, faults>>
        /\ \/ UNCHANGED tried
           \/ \E old \in reg : tried' = tried \cup ({old.fp} \cap Recipients(RuleKeys))
    BY <1>4, GetRotationStatusEffect
  <2>3. QED
    BY <1>1, <2>1, <2>2 DEF files
<1>5. CASE generateAgeKey(p)
  BY <1>1, <1>5, generateAgeKeyEffect DEF files, past
<1>6. CASE ListKeys(p)
  <2>1. FpsOf(op'[p].out) \subseteq FpsOf(reg)
    BY <1>6, ListKeysEffect DEF FpsOf
  <2>2. QED
    BY <1>1, <1>3, <1>6, <2>1, ListKeysEffect DEF files
<1>7. CASE WriteConfig(p)
  BY <1>1, <1>7, WriteConfigEffect DEF past
<1>8. CASE ReencryptManifest(p)
  <2>1. PICK m \in Manifest :
          /\ manifest' = [manifest EXCEPT ![m] = sops[RuleOf[m]]] \/ manifest' = manifest
          /\ faults' = faults \/ Fault("skip")
    BY <1>8, ReencryptManifestEffect
  <2>2. sops[RuleOf[m]] \in SUBSET Fingerprint
    BY <1>1, LifecycleConstants DEF RuleSets
  <2>3. faults' \subseteq Faults
    BY <1>1, <2>1, FaultIs
  <2>4. QED
    BY <1>1, <1>8, <2>1, <2>2, <2>3, ReencryptManifestEffect
<1>9. CASE Commit(p)
  BY <1>1, <1>3, <1>9, CommitEffect, OpIs DEF files, Shape, Working, Editing
<1>10. CASE Rollback(p)
  <2>1. /\ \/ files' = files
           \/ sops' = op[p].saved /\ manifest' = manifest /\ torn' = torn
           \/ \E m \in DOMAIN op[p].copies \cap Manifest :
                /\ sops' = sops /\ manifest' = [manifest EXCEPT ![m] = op[p].copies[m]]
                /\ torn' = torn
        /\ faults' = faults \/ Fault("restore")
        /\ op[p].pc = "undo" /\ UNCHANGED <<slot, tried, gone>>
    BY <1>10, RollbackEffect
  <2>2. op[p].saved \in RuleSets
    BY <1>3, <2>1 DEF Shape, Editing
  <2>3. \A m \in DOMAIN op[p].copies : op[p].copies[m] \in SUBSET Fingerprint
    BY <1>3 DEF Operation, Copies
  <2>4. faults' \subseteq Faults
    BY <1>1, <2>1, FaultIs
  <2>5. CASE files' = files
    BY <1>1, <2>1, <2>4, <2>5 DEF files
  <2>6. CASE sops' = op[p].saved /\ manifest' = manifest /\ torn' = torn
    BY <1>1, <2>1, <2>2, <2>4, <2>6
  <2>7. ASSUME NEW m \in DOMAIN op[p].copies \cap Manifest,
               sops' = sops, torn' = torn,
               manifest' = [manifest EXCEPT ![m] = op[p].copies[m]]
        PROVE  Still
    BY <1>1, <2>1, <2>3, <2>4, <2>7
  <2>8. QED
    BY <2>1, <2>5, <2>6, <2>7
<1>11. CASE Refuse(p) \/ Crash(p)
  BY <1>1, <1>11, EndEffect, FaultIs DEF files
<1>12. CASE SetPrimary(p)
  BY <1>2, <1>12, SetPrimaryEffect
<1>13. CASE \/ Begin(p) \/ GetPrimaryKey(p) \/ checkRegistryDrift(p) \/ BackupConfig(p)
            \/ BackupManifest(p) \/ ReadConfig(p) \/ activeRecipientSet(p)
            \/ EditFails(p) \/ CommitFails(p) \/ ReconcileCompare(p) \/ ReconcileList(p)
            \/ ReconcileImport(p) \/ ReconcileSelect(p)
  <2>1. UNCHANGED <<files, slot, past>>
    BY <1>13 DEF Begin, GetPrimaryKey, checkRegistryDrift, BackupConfig, BackupManifest,
                 ReadConfig, activeRecipientSet, EditFails, CommitFails, ReconcileCompare,
                 ReconcileList, ReconcileImport, ReconcileSelect
  <2>2. QED
    BY <1>2, <2>1
<1>14. CASE Tears(p)
  <2>1. faults' = faults \/ Fault("cut")
    BY <1>14, TearsEffect
  <2>2. faults' \subseteq Faults
    BY <1>1, <2>1, FaultIs
  <2>3. manifest' \in [Manifest -> SUBSET Fingerprint] /\ sops' \in RuleSets
    BY <1>1, <1>14, TearsEffect
  <2>4. QED
    BY <1>1, <1>14, <2>2, <2>3, TearsEffect
<1>15. QED
  BY <1>4, <1>5, <1>6, <1>7, <1>8, <1>9, <1>10, <1>11, <1>12, <1>13, <1>14 DEF Step, Tears

(* A hand edit keeps the types.                                            *)
LEMMA EditTyped ==
  ASSUME Base, EditConfig
  PROVE  sops' \in RuleSets /\ faults' \subseteq Faults
<1>1. PICK r \in Rule, k \in Fingerprint :
        /\ sops' = [sops EXCEPT ![r] = @ \cup {k}]
        /\ Fault("edit") \/ Fault("race") \/ Fault("pull")
  BY EditConfigEffect
<1>2. sops \in RuleSets /\ faults \subseteq Faults
  BY DEF Base, Typed
<1>3. QED
  BY <1>1, <1>2, FaultIs DEF RuleSets

(* Every step of the system keeps the types.                               *)
LEMMA NextBase == Base /\ [Next]_vars => Base' /\ Ageing(reg, reg')
<1> SUFFICES ASSUME Base, [Next]_vars PROVE Base' /\ Ageing(reg, reg')
  OBVIOUS
<1>1. Ring(reg)
  BY DEF Base, Typed
<1>2. ASSUME NEW p \in Operator, Step(p)
      PROVE  Base' /\ Ageing(reg, reg')
  <2>1. Acts(p) /\ Ageing(reg, reg') /\ FpsOf(op'[p].out) \subseteq FpsOf(reg')
    BY <1>2, StepActs
  <2>2. Typed'
    BY <1>2, <2>1, StepTyped DEF Typed, Acts, Ageing
  <2>3. Known'
    BY <2>1 DEF Base, Known, Acts, Ageing
  <2>4. \A q \in Operator : Shape(op'[q])
    BY <2>1 DEF Base, Acts
  <2>5. QED
    BY <2>1, <2>2, <2>3, <2>4 DEF Base
<1>3. CASE EditConfig
  <2>1. sops' \in RuleSets /\ faults' \subseteq Faults
        /\ UNCHANGED <<reg, manifest, torn, slot, op, tried, gone>>
    BY <1>3, EditTyped, EditConfigEffect
  <2>2. Typed' /\ Known' /\ Ageing(reg, reg')
    BY <1>1, <2>1 DEF Base, Typed, Known, Ageing
  <2>3. QED
    BY <2>1, <2>2 DEF Base
<1>4. CASE UNCHANGED vars
  <2>1. UNCHANGED <<reg, sops, manifest, torn, slot, op, tried, gone, faults>>
    BY <1>4 DEF vars
  <2>2. Typed' /\ Known' /\ Ageing(reg, reg')
    BY <1>1, <2>1 DEF Base, Typed, Known, Ageing
  <2>3. QED
    BY <2>1, <2>2 DEF Base
<1>5. QED
  BY <1>2, <1>3, <1>4 DEF Next

(* The cluster that init left.                                             *)
LEMMA InitRing ==
  ASSUME Init
  PROVE  /\ Ring(reg) /\ FpsOf(reg) = Recipients(RuleKeys)
         /\ ActiveAge(reg) = Recipients(RuleKeys)
<1>1. \A k \in Recipients(RuleKeys) : k \in Fingerprint
  BY RecipientsAre, LifecycleConstants
<1>2. \A k \in Recipients(RuleKeys) :
        LET e == AgeEntry(k, NoKey, k = Primary0)
        IN  e \in KeyEntry /\ e.fp = k /\ IsActive(e) /\ (e.primary <=> k = Primary0)
  BY <1>1, LifecycleConstants, NoKeyIsNoFingerprint, OriginsAreKeys
     DEF AgeEntry, KeyEntry, Entry, IsActive, KeyType, Status
<1>3. reg = {AgeEntry(k, NoKey, k = Primary0) : k \in Recipients(RuleKeys)}
  BY DEF Init
<1>4. Ring(reg)
  BY <1>2, <1>3 DEF Ring, IsPrimary
<1>5. \A k : k \in FpsOf(reg) <=> k \in Recipients(RuleKeys)
  BY <1>2, <1>3, FpsAre
<1>6. \A k : k \in ActiveAge(reg) <=> k \in Recipients(RuleKeys)
  BY <1>2, <1>3, <1>4, ActiveAre DEF Ring
<1>7. QED
  BY <1>4, <1>5, <1>6

(* The types hold at the start.                                            *)
LEMMA InitBase == Init => Base
<1> SUFFICES ASSUME Init PROVE Base
  OBVIOUS
<1>1. Ring(reg)
  BY InitRing
<1>2. sops \in RuleSets /\ manifest \in [Manifest -> SUBSET Fingerprint]
  BY LifecycleConstants DEF Init, RuleSets
<1>3. op \in [Operator -> Operation] /\ \A p \in Operator : op[p] = Idle
  BY IdleIs DEF Init
<1>4. Typed
  BY <1>1, <1>2, <1>3 DEF Init, Typed
<1>5. QED
  BY <1>3, <1>4, IdleIs DEF Base, Known

(* The types are invariant.                                                *)
LEMMA BaseHolds == Spec => []Base
<1>1. Base /\ [Next]_vars => Base'
  BY NextBase
<1>2. QED
  BY <1>1, InitBase, PTL DEF Spec

(* Type correctness: for any operators, keys, rules, manifests and faults  *)
(* the registry, the files and what every operation holds in memory stay   *)
(* what they are.                                                          *)
THEOREM TypesAreKept == Spec => []TypeOK
<1>1. Base => TypeOK
  <2> SUFFICES ASSUME Base PROVE TypeOK
    OBVIOUS
  <2>1. reg \subseteq Entry
    BY DEF Base, Typed, Ring, KeyEntry
  <2>2. ASSUME NEW p \in Operator
        PROVE  /\ op[p].out \cup op[p].keys \subseteq Entry
               /\ op[p].new \in Fingerprint \cup {NoKey}
               /\ op[p].todo \subseteq Fingerprint \cup Manifest \cup {"config"}
               /\ op[p].draft \in RuleSets \cup {<<>>}
               /\ op[p].saved \in RuleSets \cup {<<>>}
               /\ DOMAIN op[p].copies \subseteq Manifest
               /\ Recipients(op[p].copies) \subseteq Fingerprint
    <3>1. op[p] \in Operation
      BY OpIs
    <3>2. op[p].out \cup op[p].keys \subseteq Entry
      BY <3>1 DEF Operation, KeyEntry
    <3>3. PICK D \in SUBSET Manifest : op[p].copies \in [D -> SUBSET Fingerprint]
      BY <3>1 DEF Operation, Copies
    <3>4. Recipients(op[p].copies) \subseteq Fingerprint
      BY <3>3, RecipientsAre
    <3>5. QED
      BY <3>1, <3>2, <3>3, <3>4 DEF Operation, Rules
  <2>3. QED
    BY <2>1, <2>2 DEF TypeOK, Base, Typed
<1>2. QED
  BY <1>1, BaseHolds, PTL

(* Retirement is final: whatever operators do, and in whatever order their *)
(* transactions commit, a key that was archived or revoked stays known to  *)
(* the registry and is never active again.                                 *)
THEOREM RetirementIsFinal == Spec => NeverReinstated
<1>1. Base /\ [Next]_vars =>
        [\A x \in reg : ~IsActive(x) =>
           /\ \E y \in reg' : SameKey(x, y)
           /\ \A y \in reg' : SameKey(x, y) => ~IsActive(y)]_reg
  <2> SUFFICES ASSUME Base, [Next]_vars, NEW x \in reg, ~IsActive(x)
               PROVE  /\ \E y \in reg' : SameKey(x, y)
                      /\ \A y \in reg' : SameKey(x, y) => ~IsActive(y)
    OBVIOUS
  <2>1. Ring(reg) /\ Ring(reg') /\ Ageing(reg, reg')
    BY NextBase DEF Base, Typed
  <2>2. x.fp \in FpsOf(reg) /\ x.fp \notin ActiveAge(reg)
    BY <2>1, ActiveEntry, FpsAre
  <2>3. x.fp \in FpsOf(reg') /\ x.fp \notin ActiveAge(reg')
    BY <2>1, <2>2 DEF Ageing
  <2>4. \A y \in reg' : SameKey(x, y) <=> x.fp = y.fp
    BY <2>1, KeysByFp DEF Ring
  <2>5. PICK y \in reg' : y.fp = x.fp
    BY <2>3, FpsAre
  <2>6. \A z \in reg' : z.fp = x.fp => ~IsActive(z)
    BY <2>1, <2>3, ActiveEntry
  <2>7. QED
    BY <2>4, <2>5, <2>6
<1>2. QED
  BY <1>1, BaseHolds, PTL DEF NeverReinstated, Spec

-----------------------------------------------------------------------------
(* 3. Nobody loses access by the way.                                      *)

(* Rules, or copies of manifests, keep the recipients that init gave them, *)
(* but for those in t and the manifests in c.                              *)
Sparing(rules, t) == \A r \in Rule : RuleKeys[r] \ t \subseteq rules[r]
Sealed(copies, t, c) ==
  \A m \in DOMAIN copies \ c : RuleKeys[RuleOf[m]] \ t \subseteq copies[m]

(* What an operation holds in memory leaves the others their access too,   *)
(* and what it is about to retire has been counted.                        *)
Spares(o, t, c) ==
  /\ o.pc \in Editing => Sparing(o.saved, t)
  /\ o.pc = "write" => Sparing(o.draft, t)
  /\ Sealed(o.copies, t, c)
  /\ o.pc \in {"preflight"} \cup Working /\ o.kind \in Retiring =>
       FpsOf(o.out) \cap Recipients(RuleKeys) \subseteq t

(* Files and operations spare whoever nobody has set out to retire, as     *)
(* long as no write of .sops.yaml was cut off.                             *)
Spared ==
  "config" \notin torn =>
    /\ Sparing(sops, tried) /\ Sealed(manifest, tried, torn)
    /\ \A p \in Operator : Spares(op[p], tried, torn)

(* More that was tried, or torn, asks for less.                            *)
LEMMA SparesMore ==
  ASSUME NEW o, NEW t, NEW t2, t \subseteq t2, NEW c, NEW c2, c \subseteq c2
  PROVE  /\ Spares(o, t, c) => Spares(o, t2, c2)
         /\ \A rules : Sparing(rules, t) => Sparing(rules, t2)
         /\ \A copies : Sealed(copies, t, c) => Sealed(copies, t2, c2)
BY DEF Spares, Sparing, Sealed

(* The rewritten rules spare whom the rules spared.                        *)
LEMMA RewrittenSpares ==
  ASSUME Base, Spared, "config" \notin torn,
         NEW p \in Operator, op[p].pc \in Working, NEW r \in Rule
  PROVE  RuleKeys[r] \ tried \subseteq Rewritten(p, sops[r])
<1>1. /\ op[p] \in Operation /\ Shape(op[p]) /\ sops[r] \in SUBSET Fingerprint
      /\ op[p].kind \in Turning \cup Retiring
  BY OpIs DEF Base, Typed, RuleSets, Shape
<1>2. /\ sops[r] \ FpsOf(op[p].out) \subseteq Rewritten(p, sops[r])
      /\ op[p].kind \in Turning => sops[r] \subseteq Rewritten(p, sops[r])
  BY <1>1, RewrittenIs
<1>3. RuleKeys[r] \ tried \subseteq sops[r] /\ RuleKeys[r] \subseteq Recipients(RuleKeys)
  BY LifecycleConstants, RecipientsAre DEF Spared, Sparing
<1>4. op[p].kind \in Retiring => FpsOf(op[p].out) \cap Recipients(RuleKeys) \subseteq tried
  BY DEF Spared, Spares
<1>5. QED
  BY <1>1, <1>2, <1>3, <1>4

(* The operator that acts spares the others.                               *)
LEMMA StepSpares ==
  ASSUME Base, Spared, NEW p \in Operator, Step(p), "config" \notin torn'
  PROVE  /\ tried \subseteq tried' /\ Spares(op'[p], tried', torn')
         /\ Sparing(sops', tried') /\ Sealed(manifest', tried', torn')
<1> DEFINE Goal == /\ tried \subseteq tried' /\ Spares(op'[p], tried', torn')
                   /\ Sparing(sops', tried') /\ Sealed(manifest', tried', torn')
<1>1. /\ op[p] \in Operation /\ Shape(op[p]) /\ Spares(op[p], tried, torn)
      /\ Sparing(sops, tried) /\ Sealed(manifest, tried, torn)
      /\ manifest \in [Manifest -> SUBSET Fingerprint] /\ "config" \notin torn
  BY OpIs, StepTyped DEF Spared, Base, Typed
<1>2. ASSUME UNCHANGED files, tried' = tried, op'[p].pc \notin {"preflight"} \cup Working,
             SameCopies(op'[p], op[p]) \/ DOMAIN op'[p].copies = {}
      PROVE  Goal
  BY <1>1, <1>2 DEF Spares, Sealed, SameCopies, files, Working, Editing
<1>3. Idle.pc \notin {"preflight"} \cup Working /\ DOMAIN Idle.copies = {}
  BY IdleIs DEF Working, Editing
<1>4. CASE Begin(p)
  BY <1>2, <1>4, BeginEffect DEF Working, Editing, past
<1>5. CASE Refuse(p) \/ Crash(p)
  BY <1>2, <1>3, <1>5, EndEffect
<1>6. CASE GetPrimaryKey(p)
  BY <1>2, <1>6, GetPrimaryKeyEffect DEF Working, Editing, past
<1>7. CASE GetRotationStatus(p)
  <2>1. UNCHANGED files /\ SameCopies(op'[p], op[p]) /\ op'[p].kind = op[p].kind
    BY <1>7, GetRotationStatusEffect
  <2>2. CASE op'[p].pc = "generate"
    <3>1. op'[p].pc \notin {"preflight"} \cup Working
      BY <2>2 DEF Working, Editing
    <3>2. UNCHANGED tried
      BY <1>7, <2>2, GetRotationStatusEffect
    <3>3. QED
      BY <1>2, <2>1, <3>1, <3>2
  <2>3. CASE op'[p].pc = "backup"
    <3>1. PICK old \in reg :
            op'[p].out = {old} /\ tried' = tried \cup ({old.fp} \cap Recipients(RuleKeys))
      BY <1>7, <2>3, GetRotationStatusEffect
    <3>2. FpsOf(op'[p].out) = {old.fp}
      BY <3>1 DEF FpsOf
    <3>3. tried \subseteq tried' /\ FpsOf(op'[p].out) \cap Recipients(RuleKeys) \subseteq tried'
      BY <3>1, <3>2
    <3>4. Spares(op'[p], tried', torn')
      BY <1>1, <2>1, <2>3, <3>3 DEF Spares, Sealed, SameCopies, files, Editing
    <3>5. QED
      BY <1>1, <2>1, <3>3, <3>4, SparesMore DEF files
  <2>4. QED
    BY <1>7, <2>2, <2>3, GetRotationStatusEffect
<1>8. CASE generateAgeKey(p)
  <2>1. /\ UNCHANGED files /\ SameCopies(op'[p], op[p]) /\ op'[p].kind \in Turning
        /\ op'[p].pc \in {"backup", "panicked"} /\ tried' = tried
    BY <1>8, generateAgeKeyEffect DEF past
  <2>2. QED
    BY <1>1, <2>1
       DEF Spares, Sealed, SameCopies, files, Working, Editing, Turning, Retiring, Revoking
<1>9. CASE ListKeys(p)
  <2>1. /\ UNCHANGED files /\ SameCopies(op'[p], op[p]) /\ op'[p].pc = "preflight"
        /\ tried' = tried \cup (FpsOf(op'[p].out) \cap Recipients(RuleKeys))
    BY <1>9, ListKeysEffect
  <2>2. Spares(op'[p], tried', torn')
    BY <1>1, <2>1 DEF Spares, Sealed, SameCopies, files, Editing
  <2>3. QED
    BY <1>1, <2>1, <2>2, SparesMore DEF files
<1>10. CASE checkRegistryDrift(p)
  <2>1. /\ UNCHANGED files /\ SameCopies(op'[p], op[p]) /\ SameTask(op'[p], op[p])
        /\ op[p].pc = "preflight" /\ op'[p].pc = "backup" /\ tried' = tried
    BY <1>10, checkRegistryDriftEffect DEF past
  <2>2. QED
    BY <1>1, <2>1 DEF Spares, Sealed, SameCopies, SameTask, files, Editing
<1>11. CASE BackupConfig(p)
  <2>1. /\ UNCHANGED files /\ op'[p].copies = op[p].copies /\ op'[p].saved = sops
        /\ SameTask(op'[p], op[p]) /\ op[p].pc = "backup" /\ op'[p].pc = "copy" /\ tried' = tried
    BY <1>11, BackupConfigEffect DEF past
  <2>2. QED
    BY <1>1, <2>1 DEF Spares, Sealed, SameTask, files, Working, Editing
<1>12. CASE BackupManifest(p)
  <2>1. /\ UNCHANGED files /\ op'[p].saved = op[p].saved /\ tried' = tried
        /\ SameTask(op'[p], op[p]) /\ op[p].pc = "copy" /\ op'[p].pc \in {"copy", "edit"}
    BY <1>12, BackupManifestEffect DEF past
  <2>2. Sealed(op'[p].copies, tried, torn)
    <3>1. CASE op'[p].copies = op[p].copies
      BY <1>1, <3>1 DEF Spares, Sealed
    <3>2. ASSUME NEW m \in op[p].todo,
                 DOMAIN op'[p].copies = DOMAIN op[p].copies \cup {m},
                 op'[p].copies[m] = manifest[m],
                 \A n \in DOMAIN op[p].copies : n # m => op'[p].copies[n] = op[p].copies[n]
          PROVE  Sealed(op'[p].copies, tried, torn)
      <4>1. m \in Manifest
        BY <1>1, <2>1 DEF Shape
      <4>2. m \notin torn => RuleKeys[RuleOf[m]] \ tried \subseteq op'[p].copies[m]
        BY <1>1, <3>2, <4>1 DEF Sealed
      <4>3. ASSUME NEW n \in DOMAIN op[p].copies
            PROVE  n \notin torn => RuleKeys[RuleOf[n]] \ tried \subseteq op[p].copies[n]
        BY <1>1 DEF Spares, Sealed
      <4>4. QED
        BY <3>2, <4>2, <4>3 DEF Sealed
    <3>3. QED
      BY <1>12, <3>1, <3>2, BackupManifestEffect
  <2>3. QED
    BY <1>1, <2>1, <2>2 DEF Spares, SameTask, files, Working, Editing
<1>13. CASE ReadConfig(p)
  <2>1. /\ UNCHANGED files /\ SameCopies(op'[p], op[p]) /\ SameTask(op'[p], op[p])
        /\ op[p].pc = "edit" /\ op'[p].pc = "write" /\ tried' = tried
        /\ \A r \in Rule : op'[p].draft[r] = Rewritten(p, sops[r])
    BY <1>13, ReadConfigEffect DEF past
  <2>2. Sparing(op'[p].draft, tried)
    BY <1>1, <2>1, RewrittenSpares DEF Sparing, Working, Editing
  <2>3. QED
    BY <1>1, <2>1, <2>2 DEF Spares, Sealed, SameCopies, SameTask, files, Working, Editing
<1>14. CASE WriteConfig(p)
  <2>1. /\ UNCHANGED <<manifest, torn>> /\ SameCopies(op'[p], op[p]) /\ SameTask(op'[p], op[p])
        /\ op[p].pc = "write" /\ op'[p].pc = "recipients" /\ tried' = tried
        /\ sops' = op[p].draft
    BY <1>14, WriteConfigEffect DEF past
  <2>2. QED
    BY <1>1, <2>1 DEF Spares, Sealed, SameCopies, SameTask, Working, Editing
<1>15. CASE activeRecipientSet(p)
  <2>1. /\ UNCHANGED files /\ SameCopies(op'[p], op[p]) /\ SameTask(op'[p], op[p])
        /\ op[p].pc = "recipients" /\ op'[p].pc = "reencrypt" /\ tried' = tried
    BY <1>15, activeRecipientSetEffect DEF past
  <2>2. QED
    BY <1>1, <2>1 DEF Spares, Sealed, SameCopies, SameTask, files, Working, Editing
<1>16. CASE EditFails(p) \/ CommitFails(p)
  <2>1. /\ UNCHANGED files /\ SameCopies(op'[p], op[p]) /\ SameTask(op'[p], op[p])
        /\ op[p].pc \in Editing /\ op'[p].pc = "undo" /\ tried' = tried
    BY <1>16, FailureEffect DEF past, Editing
  <2>2. QED
    BY <1>1, <2>1 DEF Spares, Sealed, SameCopies, SameTask, files, Working, Editing
<1>17. CASE ReencryptManifest(p)
  <2>1. /\ UNCHANGED <<sops, torn>> /\ SameCopies(op'[p], op[p]) /\ SameTask(op'[p], op[p])
        /\ op[p].pc = "reencrypt" /\ op'[p].pc = "reencrypt" /\ tried' = tried
    BY <1>17, ReencryptManifestEffect
  <2>2. PICK m \in Manifest :
          manifest' = manifest \/ manifest' = [manifest EXCEPT ![m] = sops[RuleOf[m]]]
    BY <1>17, ReencryptManifestEffect
  <2>3. RuleKeys[RuleOf[m]] \ tried \subseteq sops[RuleOf[m]]
    BY <1>1, LifecycleConstants DEF Sparing
  <2>4. Sealed(manifest', tried, torn)
    BY <1>1, <2>2, <2>3 DEF Sealed
  <2>5. Spares(op'[p], tried, torn)
    BY <1>1, <2>1 DEF Spares, Sealed, SameCopies, SameTask, Working, Editing
  <2>6. QED
    BY <1>1, <2>1, <2>4, <2>5
<1>18. CASE Commit(p)
  <2>1. op'[p].pc \in {"idle", "list"} /\ DOMAIN op'[p].copies = {}
        /\ UNCHANGED files /\ tried' = tried
    BY <1>18, CommitEffect, IdleIs
  <2>2. QED
    BY <1>2, <2>1 DEF Working, Editing
<1>19. CASE Rollback(p)
  <2>1. tried' = tried /\ op[p].pc = "undo"
    BY <1>19, RollbackEffect
  <2>2. CASE op'[p] = Idle /\ UNCHANGED files
    BY <1>2, <1>3, <2>1, <2>2
  <2>3. CASE op'[p].pc = "undo" /\ SameTask(op'[p], op[p]) /\ SameCopies(op'[p], op[p])
    <3>1. Spares(op'[p], tried, torn)
      BY <1>1, <2>1, <2>3 DEF Spares, Sealed, SameCopies, SameTask, Working, Editing
    <3>2. Sparing(op[p].saved, tried) /\ Sealed(op[p].copies, tried, torn)
      BY <1>1, <2>1 DEF Spares, Editing
    <3>3. \/ files' = files
          \/ sops' = op[p].saved /\ manifest' = manifest /\ torn' = torn
          \/ \E m \in DOMAIN op[p].copies \cap Manifest :
               /\ sops' = sops /\ manifest' = [manifest EXCEPT ![m] = op[p].copies[m]]
               /\ torn' = torn
      BY <1>19, RollbackEffect
    <3>4. torn' = torn
      BY <3>3 DEF files
    <3>5. Sparing(sops', tried) /\ Sealed(manifest', tried, torn)
      <4>1. CASE files' = files
        BY <1>1, <4>1 DEF files
      <4>2. CASE sops' = op[p].saved /\ manifest' = manifest
        BY <1>1, <3>2, <4>2
      <4>3. ASSUME NEW m \in DOMAIN op[p].copies \cap Manifest, sops' = sops,
                   manifest' = [manifest EXCEPT ![m] = op[p].copies[m]]
            PROVE  Sparing(sops', tried) /\ Sealed(manifest', tried, torn)
        BY <1>1, <3>2, <4>3 DEF Sealed
      <4>4. QED
        BY <3>3, <4>1, <4>2, <4>3
    <3>6. QED
      BY <2>1, <3>1, <3>4, <3>5
  <2>4. QED
    BY <1>19, <2>2, <2>3, RollbackEffect
<1>20. CASE ReconcileCompare(p)
  BY <1>2, <1>20, ReconcileCompareEffect DEF Working, Editing, past
<1>21. CASE ReconcileList(p)
  BY <1>2, <1>21, ReconcileListEffect DEF Working, Editing, past
<1>22. CASE ReconcileImport(p)
  BY <1>2, <1>22, ReconcileImportEffect DEF Working, Editing, past
<1>23. CASE ReconcileSelect(p)
  BY <1>2, <1>3, <1>23, ReconcileSelectEffect DEF past
<1>24. CASE SetPrimary(p)
  BY <1>1, <1>24, SetPrimaryEffect DEF files, past
<1>25. CASE Tears(p)
  <2>1. /\ tried' = tried /\ torn \subseteq torn'
        /\ op[p].pc = "undo" /\ UNCHANGED sops
        /\ \E m \in Manifest : m \in torn' /\ manifest' = [manifest EXCEPT ![m] = {}]
        /\ \/ op'[p] = Idle
           \/ op'[p].pc = "undo" /\ SameTask(op'[p], op[p]) /\ SameCopies(op'[p], op[p])
    BY <1>25, TearsEffect
  <2>2. Sparing(sops', tried') /\ Sealed(manifest', tried', torn')
    BY <1>1, <2>1 DEF Sealed
  <2>3. Spares(op'[p], tried', torn')
    <3>1. CASE op'[p] = Idle
      BY <1>3, <3>1 DEF Spares, Sealed, Working, Editing
    <3>2. CASE op'[p].pc = "undo" /\ SameTask(op'[p], op[p]) /\ SameCopies(op'[p], op[p])
      BY <1>1, <2>1, <3>2 DEF Spares, Sealed, SameCopies, SameTask, Working, Editing
    <3>3. QED
      BY <2>1, <3>1, <3>2
  <2>4. QED
    BY <2>1, <2>2, <2>3
<1>26. QED
  BY <1>4, <1>5, <1>6, <1>7, <1>8, <1>9, <1>10, <1>11, <1>12, <1>13, <1>14, <1>15, <1>16, <1>17,
     <1>18, <1>19, <1>20, <1>21, <1>22, <1>23, <1>24, <1>25 DEF Step, Tears

(* Every step of the system spares the others.                             *)
LEMMA NextSpared == Base /\ Spared /\ [Next]_vars => Spared'
<1> SUFFICES ASSUME Base, Spared, [Next]_vars, "config" \notin torn' PROVE Spared'
  BY DEF Spared
<1>1. ASSUME NEW p \in Operator, Step(p)
      PROVE  Spared'
  <2>1. /\ tried \subseteq tried' /\ Spares(op'[p], tried', torn')
        /\ Sparing(sops', tried') /\ Sealed(manifest', tried', torn')
    BY <1>1, StepSpares
  <2>2. Acts(p) /\ torn \subseteq torn' /\ "config" \notin torn
    BY <1>1, StepActs, StepTyped
  <2>3. ASSUME NEW q \in Operator
        PROVE  Spares(op'[q], tried', torn')
    <3>1. CASE q = p
      BY <2>1, <3>1
    <3>2. CASE q # p
      BY <2>1, <2>2, <3>2, SparesMore DEF Acts, Spared
    <3>3. QED
      BY <3>1, <3>2
  <2>4. QED
    BY <2>1, <2>3 DEF Spared
<1>2. CASE EditConfig
  <2>1. PICK r \in Rule, k \in Fingerprint : sops' = [sops EXCEPT ![r] = @ \cup {k}]
    BY <1>2, EditConfigEffect
  <2>2. UNCHANGED <<manifest, torn, op, tried>> /\ sops \in RuleSets
    BY <1>2, EditConfigEffect DEF Base, Typed
  <2>3. Sparing(sops', tried)
    BY <2>1, <2>2 DEF Spared, Sparing, RuleSets
  <2>4. QED
    BY <2>2, <2>3 DEF Spared
<1>3. CASE UNCHANGED vars
  BY <1>3 DEF vars, Spared
<1>4. QED
  BY <1>1, <1>2, <1>3 DEF Next

(* A recipient that nobody set out to retire keeps its access: no rotation *)
(* or revocation, interleaved, failed, rolled back or crashed between two  *)
(* writes, takes it from a rule or a manifest, for any number of           *)
(* operators.  Of manifests whose restore was cut off, and of anything     *)
(* after a write of .sops.yaml was, nothing is claimed.                    *)
THEOREM BystandersAreSpared == Spec => []Bystanders
<1>1. Init => Base /\ Spared
  <2> SUFFICES ASSUME Init PROVE Spared
    BY InitBase
  <2>1. \A p \in Operator : Spares(op[p], tried, torn)
    BY IdleIs DEF Init, Spares, Sealed, Working, Editing
  <2>2. QED
    BY <2>1 DEF Init, Spared, Sparing, Sealed
<1>2. Base /\ Spared /\ [Next]_vars => (Base /\ Spared)'
  BY NextBase, NextSpared
<1>3. Base /\ Spared => Bystanders
  BY DEF Base, Typed, Spared, Sparing, Sealed, Bystanders
<1>4. QED
  BY <1>1, <1>2, <1>3, PTL DEF Spec

-----------------------------------------------------------------------------
(* 4. One operator: nobody comes between what an operation reads and what  *)
(* it commits, so only faults can bring the registry and the files apart.  *)

(* What an operation takes out, and the active keys that it will keep and  *)
(* that will be there once it has committed.                               *)
Shed(o)       == IF o.kind \in Retiring THEN FpsOf(o.out) ELSE {}
Lasting(r, o) == ActiveAge(r) \ Shed(o)
After(r, o)   == Lasting(r, o) \cup IF o.kind \in Turning THEN {o.new} ELSE {}

(* Rules or manifests that name none of the keys, that name one, that name *)
(* no other, or some and no other; manifests of which those outside c name *)
(* one; and manifests that follow their rules.                             *)
Free(rules, keys)   == \A r \in DOMAIN rules : rules[r] \cap keys = {}
Met(rules, keys)    == \A r \in DOMAIN rules : rules[r] \cap keys # {}
Within(rules, keys) == \A r \in DOMAIN rules : rules[r] \subseteq keys
Only(rules, keys)   == \A r \in DOMAIN rules : rules[r] # {} /\ rules[r] \subseteq keys
Use(docs, keys, c)  == \A m \in DOMAIN docs \ c : docs[m] \cap keys # {}
Follow(docs, rules) == \A m \in DOMAIN docs : docs[m] = rules[RuleOf[m]]

(* A retired key is known and not active.                                  *)
Buried == gone \subseteq FpsOf(reg) \ ActiveAge(reg)

(* The successor is as new, or as active, as when it was chosen.           *)
Current(p) ==
  op[p].pc \in Working =>
    /\ op[p].kind \in Turning => op[p].new \notin FpsOf(reg)
    /\ op[p].kind = "complete" => op[p].new \in ActiveAge(reg)

(* Neither the files nor the copies name a retired key, and what is being  *)
(* retired leaves the rules first and then the manifests.                  *)
Clean(p) ==
  "pull" \notin faults =>
    /\ Free(sops, gone)
    /\ op[p].pc \in Editing => Free(op[p].saved, gone)
    /\ op[p].pc = "write" => Free(op[p].draft, gone \cup Shed(op[p]))
    /\ op[p].pc \in {"recipients", "reencrypt"} => Free(sops, Shed(op[p]))
    /\ "skip" \notin faults =>
         /\ Free(manifest, gone) /\ Free(op[p].copies, gone)
         /\ op[p].pc = "reencrypt" /\ ~op[p].failed =>
              \A m \in Manifest \ op[p].todo : manifest[m] \cap Shed(op[p]) = {}

(* As long as no write of .sops.yaml was cut off, the rules and the        *)
(* manifests, but for those that were not written back whole, have         *)
(* recipients that are active and that the operation keeps.                *)
Open(p) ==
  "race" \notin faults /\ "config" \notin torn =>
    /\ Met(sops, ActiveAge(reg))
    /\ op[p].pc \in Editing => Met(op[p].saved, ActiveAge(reg))
    /\ op[p].pc = "write" => Met(op[p].draft, Lasting(reg, op[p]))
    /\ op[p].pc \in {"recipients", "reencrypt"} => Met(sops, Lasting(reg, op[p]))
    /\ op[p].pc \in {"backup", "copy", "edit"} /\ op[p].kind \in Revoking =>
         Within(sops, ActiveAge(reg))
    /\ "skip" \notin faults =>
         /\ Use(manifest, ActiveAge(reg), torn) /\ Use(op[p].copies, ActiveAge(reg), torn)
         /\ op[p].pc = "reencrypt" /\ ~op[p].failed =>
              \A m \in Manifest \ (op[p].todo \cup torn) :
                manifest[m] \cap Lasting(reg, op[p]) # {}

(* As long as nothing went wrong: the files agree, or the operation that   *)
(* is at work on them leads them to its end or back to its copies.         *)
Whole(p) ==
  faults = {} =>
    /\ \A m \in Manifest : manifest[m] # {}
    /\ op[p].pc \notin {"recipients", "reencrypt", "undo"} =>
         Only(sops, ActiveAge(reg)) /\ Follow(manifest, sops)
    /\ op[p].pc \in Editing =>
         Only(op[p].saved, ActiveAge(reg)) /\ Follow(op[p].copies, op[p].saved)
    /\ op[p].pc \in {"copy", "edit", "write"} => sops = op[p].saved
    /\ op[p].pc = "write" => Only(op[p].draft, After(reg, op[p]))
    /\ op[p].pc \in {"recipients", "reencrypt"} => Only(sops, After(reg, op[p]))
    /\ op[p].pc = "reencrypt" /\ ~op[p].failed =>
         \A m \in Manifest \ op[p].todo : manifest[m] = sops[RuleOf[m]]
    /\ op[p].pc = "undo" =>
         /\ \A m \in Manifest \ op[p].todo : manifest[m] = op[p].saved[RuleOf[m]]
         /\ "config" \notin op[p].todo => sops = op[p].saved

(* A step that leaves the operation outside its work on the files.         *)
Outside(p) ==
  /\ op'[p].pc \notin Working /\ DOMAIN op'[p].copies = {}
  /\ UNCHANGED <<sops, manifest, torn, gone>> /\ faults \subseteq faults'
  /\ ActiveAge(reg) \subseteq ActiveAge(reg')
  /\ op[p].pc \in {"recipients", "reencrypt", "undo"} => "crash" \in faults'

(* The step that takes it there.                                           *)
Enters(p) ==
  /\ op[p].pc \notin Working /\ op'[p].pc = "backup" /\ DOMAIN op'[p].copies = {}
  /\ UNCHANGED <<reg, sops, manifest, torn, gone, faults>>
  /\ op'[p].kind \in Turning => op'[p].new \notin FpsOf(reg)
  /\ op'[p].kind = "complete" => op'[p].new \in ActiveAge(reg)
  /\ op'[p].kind \in Revoking => Recipients(sops) \subseteq ActiveAge(reg)

(* The steps, as the work on the files sees them.                          *)
LEMMA StepCases ==
  ASSUME Base, NEW p \in Operator, Step(p)
  PROVE  \/ Outside(p) \/ Enters(p)
         \/ BackupConfig(p) \/ BackupManifest(p) \/ ReadConfig(p) \/ WriteConfig(p)
         \/ activeRecipientSet(p) \/ EditFails(p) \/ CommitFails(p)
         \/ ReencryptManifest(p) \/ Commit(p) \/ Rollback(p) \/ Tears(p)
<1>1. /\ op[p] \in Operation /\ Shape(op[p]) /\ Ring(reg) /\ faults \subseteq Faults
  BY OpIs DEF Base, Typed
<1>2. ASSUME op'[p].pc \notin Working, UNCHANGED <<files, past>>,
             ActiveAge(reg) \subseteq ActiveAge(reg'), op[p].pc \notin Editing, Acts(p)
      PROVE  Outside(p)
  <2>1. Shape(op'[p])
    BY <1>2 DEF Acts
  <2>2. DOMAIN op'[p].copies = {}
    BY <1>2, <2>1 DEF Shape, Working
  <2>3. UNCHANGED <<sops, manifest, torn, gone, faults>>
    BY <1>2 DEF files, past
  <2>4. op[p].pc \notin {"recipients", "reencrypt", "undo"}
    BY <1>2 DEF Editing
  <2>5. QED
    BY <1>2, <2>2, <2>3, <2>4 DEF Outside
<1>3. CASE Begin(p)
  <2>1. Acts(p) /\ UNCHANGED <<reg, files, past>> /\ op[p].pc = "idle"
        /\ op'[p].pc \in {"primary", "list", "compare"}
    BY <1>3, BeginEffect
  <2>2. QED
    BY <1>2, <2>1 DEF Working, Editing
<1>4. CASE Refuse(p) \/ Crash(p)
  <2>1. /\ op'[p] = Idle /\ UNCHANGED <<reg, files, gone>>
        /\ \/ Fault("crash")
           \/ UNCHANGED faults /\ op[p].pc \notin {"recipients", "reencrypt", "undo"}
    BY <1>4, EndEffect
  <2>2. op'[p].pc \notin Working /\ DOMAIN op'[p].copies = {}
    BY <2>1, IdleIs DEF Working, Editing
  <2>3. faults \subseteq faults' /\ (Fault("crash") => "crash" \in faults')
    BY <1>1, <2>1, FaultIs
  <2>4. QED
    BY <2>1, <2>2, <2>3 DEF Outside, files
<1>5. CASE GetPrimaryKey(p)
  <2>1. Acts(p) /\ UNCHANGED <<reg, files, past>> /\ op[p].pc = "primary" /\ op'[p].pc = "status"
    BY <1>5, GetPrimaryKeyEffect
  <2>2. QED
    BY <1>2, <2>1 DEF Working, Editing
<1>6. CASE GetRotationStatus(p)
  <2>1. /\ Acts(p) /\ UNCHANGED <<reg, files, gone, faults>> /\ op[p].pc = "status"
        /\ op'[p].kind = op[p].kind /\ SameCopies(op'[p], op[p])
    BY <1>6, GetRotationStatusEffect
  <2>2. op[p].pc \notin Working /\ op[p].pc \notin Editing
    BY <2>1 DEF Working, Editing
  <2>3. DOMAIN op'[p].copies = {}
    BY <1>1, <2>1, <2>2 DEF Shape, SameCopies
  <2>4. CASE op[p].kind = "complete"
    <3>1. PICK s \in Successors : op'[p].pc = "backup" /\ op'[p].new = s.fp
      BY <1>6, <2>4, GetRotationStatusEffect DEF Turning
    <3>2. s \in reg /\ IsActive(s)
      BY DEF Successors
    <3>3. op'[p].new \in ActiveAge(reg)
      BY <1>1, <3>1, <3>2, ActiveEntry
    <3>4. QED
      BY <2>1, <2>2, <2>3, <2>4, <3>1, <3>3 DEF Enters, files, Turning, Revoking
  <2>5. CASE op[p].kind # "complete"
    <3>1. op'[p].pc = "generate"
      BY <1>6, <2>5, GetRotationStatusEffect
    <3>2. op'[p].pc \notin Working /\ op[p].pc \notin {"recipients", "reencrypt", "undo"}
      BY <2>1, <3>1 DEF Working, Editing
    <3>3. QED
      BY <2>1, <2>3, <3>2 DEF Outside, files
  <2>6. QED
    BY <2>4, <2>5
<1>7. CASE generateAgeKey(p)
  <2>1. /\ Acts(p) /\ UNCHANGED <<reg, files, past>> /\ op[p].pc = "generate"
        /\ op[p].kind \in Turning /\ op'[p].kind = op[p].kind /\ SameCopies(op'[p], op[p])
        /\ \/ op'[p].pc = "backup" /\ op'[p].new \in Fresh
           \/ op'[p].pc = "panicked"
    BY <1>7, generateAgeKeyEffect
  <2>2. op[p].pc \notin Working /\ op[p].pc \notin Editing
    BY <2>1 DEF Working, Editing
  <2>3. CASE op'[p].pc = "panicked"
    BY <1>2, <2>1, <2>2, <2>3 DEF Working, Editing
  <2>4. CASE op'[p].pc = "backup" /\ op'[p].new \in Fresh
    <3>1. DOMAIN op'[p].copies = {}
      BY <1>1, <2>1, <2>2 DEF Shape, SameCopies
    <3>2. op'[p].new \notin FpsOf(reg)
      BY <2>4 DEF Fresh
    <3>3. QED
      BY <2>1, <2>2, <2>4, <3>1, <3>2 DEF Enters, files, past, Turning, Revoking
  <2>5. QED
    BY <2>1, <2>3, <2>4
<1>8. CASE ListKeys(p)
  <2>1. /\ Acts(p) /\ UNCHANGED <<reg, files, gone, faults>> /\ op[p].pc = "list"
        /\ op'[p].pc = "preflight"
    BY <1>8, ListKeysEffect
  <2>2. op'[p].pc \notin Working /\ op[p].pc \notin {"recipients", "reencrypt", "undo"}
    BY <2>1 DEF Working, Editing
  <2>3. DOMAIN op'[p].copies = {}
    BY <2>1, <2>2 DEF Acts, Shape, Working
  <2>4. QED
    BY <2>1, <2>2, <2>3 DEF Outside, files
<1>9. CASE checkRegistryDrift(p)
  <2>1. /\ UNCHANGED <<reg, files, past>> /\ op[p].pc = "preflight" /\ op'[p].pc = "backup"
        /\ op[p].kind \in Revoking /\ SameTask(op'[p], op[p]) /\ SameCopies(op'[p], op[p])
        /\ Recipients(sops) \subseteq ActiveAge(reg)
    BY <1>9, checkRegistryDriftEffect
  <2>2. op[p].pc \notin Working /\ op[p].pc \notin Editing
    BY <2>1 DEF Working, Editing
  <2>3. DOMAIN op'[p].copies = {}
    BY <1>1, <2>1, <2>2 DEF Shape, SameCopies
  <2>4. QED
    BY <2>1, <2>2, <2>3 DEF Enters, files, past, SameTask, Turning, Revoking
<1>10. CASE ReconcileCompare(p)
  <2>1. Acts(p) /\ UNCHANGED <<reg, files, past>> /\ op[p].pc = "compare" /\ op'[p].pc = "listing"
    BY <1>10, ReconcileCompareEffect
  <2>2. QED
    BY <1>2, <2>1 DEF Working, Editing
<1>11. CASE ReconcileList(p)
  <2>1. Acts(p) /\ UNCHANGED <<reg, files, past>> /\ op[p].pc = "listing"
        /\ op'[p].pc \in {"selecting", "importing"}
    BY <1>11, ReconcileListEffect
  <2>2. QED
    BY <1>2, <2>1 DEF Working, Editing
<1>12. CASE ReconcileImport(p)
  <2>1. Acts(p) /\ UNCHANGED <<files, past>> /\ op[p].pc = "importing"
        /\ op'[p].pc \in {"selecting", "importing"} /\ ActiveAge(reg) \subseteq ActiveAge(reg')
    BY <1>12, ReconcileImportEffect
  <2>2. QED
    BY <1>2, <2>1 DEF Working, Editing
<1>13. CASE ReconcileSelect(p)
  <2>1. Acts(p) /\ UNCHANGED <<files, past>> /\ op[p].pc = "selecting"
        /\ op'[p] = Idle /\ ActiveAge(reg) \subseteq ActiveAge(reg')
    BY <1>13, ReconcileSelectEffect
  <2>2. QED
    BY <1>2, <2>1, IdleIs DEF Working, Editing
<1>14. CASE SetPrimary(p)
  <2>1. UNCHANGED <<files, op, past>> /\ op[p].pc = "idle"
        /\ ActiveAge(reg) \subseteq ActiveAge(reg')
    BY <1>14, SetPrimaryEffect DEF SetPrimary, At
  <2>2. op'[p].pc \notin Working /\ op[p].pc \notin {"recipients", "reencrypt", "undo"}
    BY <2>1 DEF Working, Editing
  <2>3. DOMAIN op'[p].copies = {}
    BY <1>1, <2>1, <2>2 DEF Shape, Working
  <2>4. QED
    BY <2>1, <2>2, <2>3 DEF Outside, files, past
<1>15. QED
  BY <1>3, <1>4, <1>5, <1>6, <1>7, <1>8, <1>9, <1>10, <1>11, <1>12, <1>13, <1>14 DEF Step, Tears

(* While it works on the files an operation keeps its task, and alone it   *)
(* finds the registry as it left it.                                       *)
LEMMA Works ==
  ASSUME Base, NEW p \in Operator, Step(p), op[p].pc \in Working, op'[p].pc \in Working
  PROVE  /\ SameTask(op'[p], op[p]) /\ UNCHANGED <<reg, gone>> /\ faults \subseteq faults'
         /\ Shed(op'[p]) = Shed(op[p]) /\ Lasting(reg', op'[p]) = Lasting(reg, op[p])
         /\ After(reg', op'[p]) = After(reg, op[p])
<1>1. SameTask(op'[p], op[p]) /\ UNCHANGED <<reg, gone>> /\ faults \subseteq faults'
  <2>1. faults \subseteq Faults /\ ~Outside(p) /\ ~Enters(p)
    BY DEF Base, Typed, Outside, Enters
  <2>2. CASE BackupConfig(p)
    BY <2>2, BackupConfigEffect DEF past
  <2>3. CASE BackupManifest(p)
    BY <2>3, BackupManifestEffect DEF past
  <2>4. CASE ReadConfig(p)
    BY <2>4, ReadConfigEffect DEF past
  <2>5. CASE WriteConfig(p)
    BY <2>5, WriteConfigEffect DEF past
  <2>6. CASE activeRecipientSet(p)
    BY <2>6, activeRecipientSetEffect DEF past
  <2>7. CASE EditFails(p) \/ CommitFails(p)
    BY <2>7, FailureEffect DEF past
  <2>8. CASE ReencryptManifest(p)
    <3>1. /\ SameTask(op'[p], op[p]) /\ UNCHANGED <<reg, gone>>
          /\ UNCHANGED faults \/ Fault("skip")
      BY <2>8, ReencryptManifestEffect
    <3>2. QED
      BY <2>1, <3>1, FaultIs
  <2>9. ~Commit(p)
    BY CommitEffect, IdleIs DEF Working, Editing
  <2>10. CASE Rollback(p)
    <3>1. op'[p] # Idle
      BY IdleIs DEF Working, Editing
    <3>2. /\ SameTask(op'[p], op[p]) /\ UNCHANGED <<reg, gone>>
          /\ UNCHANGED faults \/ Fault("restore")
      BY <2>10, <3>1, RollbackEffect
    <3>3. QED
      BY <2>1, <3>2, FaultIs
  <2>11. CASE Tears(p)
    <3>1. op'[p] # Idle
      BY IdleIs DEF Working, Editing
    <3>2. /\ SameTask(op'[p], op[p]) /\ UNCHANGED <<reg, gone>>
          /\ UNCHANGED faults \/ Fault("cut")
      BY <2>11, <3>1, TearsEffect
    <3>3. QED
      BY <2>1, <3>2, FaultIs
  <2>12. QED
    BY <2>1, <2>2, <2>3, <2>4, <2>5, <2>6, <2>7, <2>8, <2>9, <2>10, <2>11, StepCases
<1>2. QED
  BY <1>1 DEF SameTask, Shed, Lasting, After

(* Only a commit reports a retirement.                                     *)
LEMMA OnlyCommitBuries ==
  ASSUME Base, NEW p \in Operator, Step(p), ~Commit(p)
  PROVE  UNCHANGED gone
<1>1. CASE Outside(p) \/ Enters(p)
  BY <1>1 DEF Outside, Enters
<1>2. CASE BackupConfig(p) \/ BackupManifest(p) \/ ReadConfig(p) \/ WriteConfig(p)
  BY <1>2, BackupConfigEffect, BackupManifestEffect, ReadConfigEffect, WriteConfigEffect DEF past
<1>3. CASE activeRecipientSet(p) \/ EditFails(p) \/ CommitFails(p)
  BY <1>3, activeRecipientSetEffect, FailureEffect DEF past
<1>4. CASE ReencryptManifest(p)
  BY <1>4 DEF ReencryptManifest
<1>5. CASE Rollback(p)
  BY <1>5 DEF Rollback
<1>6. CASE Tears(p)
  BY <1>6, TearsEffect
<1>7. QED
  BY <1>1, <1>2, <1>3, <1>4, <1>5, <1>6, StepCases

(* What a commit does to the active keys.                                  *)
LEMMA CommitTurns ==
  ASSUME Base, NEW p \in Operator, Commit(p)
  PROVE  /\ op[p].pc = "reencrypt" /\ op[p].todo = {} /\ ~op[p].failed
         /\ op'[p].pc \notin Working /\ DOMAIN op'[p].copies = {}
         /\ UNCHANGED <<sops, manifest, torn, faults>>
         /\ ActiveAge(reg') = After(reg, op[p]) /\ gone' = gone \cup Shed(op[p])
         /\ FpsOf(reg) \subseteq FpsOf(reg')
<1>1. /\ op[p].pc = "reencrypt" /\ op[p].todo = {} /\ ~op[p].failed
      /\ reg' \in Requested(p) /\ UNCHANGED <<files, faults>>
      /\ op[p].kind \in Turning => gone' = gone
      /\ op[p].kind \in Retiring => gone' = gone \cup FpsOf(op[p].out)
      /\ op'[p] = Idle \/ op'[p].pc = "list"
      /\ DOMAIN op'[p].copies = {}
  BY CommitEffect
<1>2. op'[p].pc \notin Working
  BY <1>1, IdleIs DEF Working, Editing
<1>3. op[p].pc \in Working /\ op[p].kind \in Turning \cup Retiring
  BY <1>1, OpIs DEF Working, Editing, Shape
<1>4. Turning \cap Retiring = {}
  BY DEF Turning, Retiring, Revoking
<1>5. CASE op[p].kind \in Turning
  <2>1. /\ ActiveAge(reg') = ActiveAge(reg) \cup {op[p].new}
        /\ FpsOf(reg') = FpsOf(reg) \cup {op[p].new}
    BY <1>1, <1>3, <1>5, RequestedIs
  <2>2. QED
    BY <1>1, <1>2, <1>4, <1>5, <2>1 DEF After, Lasting, Shed, files
<1>6. CASE op[p].kind \in Retiring
  <2>1. FpsOf(reg') = FpsOf(reg) /\ ActiveAge(reg') = ActiveAge(reg) \ FpsOf(op[p].out)
    BY <1>1, <1>3, <1>6, RequestedIs
  <2>2. QED
    BY <1>1, <1>2, <1>4, <1>6, <2>1 DEF After, Lasting, Shed, files
<1>7. QED
  BY <1>3, <1>5, <1>6

(* Retired keys stay buried, whoever else is at work.                      *)
LEMMA NextBuried == Base /\ Buried /\ [Next]_vars => Buried'
<1> SUFFICES ASSUME Base, Buried, [Next]_vars PROVE Buried'
  OBVIOUS
<1>1. /\ FpsOf(reg) \subseteq FpsOf(reg')
      /\ ActiveAge(reg') \cap FpsOf(reg) \subseteq ActiveAge(reg)
  BY NextBase DEF Ageing
<1>2. UNCHANGED gone => Buried'
  BY <1>1 DEF Buried
<1>3. ASSUME NEW p \in Operator, Step(p)
      PROVE  Buried'
  <2>1. CASE Commit(p)
    <3>1. gone' = gone \cup Shed(op[p]) /\ ActiveAge(reg') = After(reg, op[p])
      BY <2>1, CommitTurns
    <3>2. Shed(op[p]) \subseteq FpsOf(reg) /\ Shed(op[p]) \cap ActiveAge(reg') = {}
      <4>1. CASE op[p].kind \in Retiring
        <5>1. op[p].kind \notin Turning
          BY <4>1 DEF Turning, Retiring, Revoking
        <5>2. QED
          BY <3>1, <4>1, <5>1 DEF After, Lasting, Shed, Base, Known
      <4>2. CASE op[p].kind \notin Retiring
        BY <4>2 DEF Shed
      <4>3. QED
        BY <4>1, <4>2
    <3>3. QED
      BY <1>1, <3>1, <3>2 DEF Buried
  <2>2. CASE ~Commit(p)
    BY <1>2, <1>3, <2>2, OnlyCommitBuries
  <2>3. QED
    BY <2>1, <2>2
<1>4. CASE EditConfig
  BY <1>2, <1>4, EditConfigEffect
<1>5. CASE UNCHANGED vars
  BY <1>2, <1>5 DEF vars
<1>6. QED
  BY <1>3, <1>4, <1>5 DEF Next

(* The step of a lone operator.                                            *)
LEMMA CurrentStep ==
  ASSUME Base, NEW p \in Operator, Current(p), Step(p)
  PROVE  Current(p)'
<1> SUFFICES ASSUME op'[p].pc \in Working
             PROVE  /\ op'[p].kind \in Turning => op'[p].new \notin FpsOf(reg')
                    /\ op'[p].kind = "complete" => op'[p].new \in ActiveAge(reg')
  BY DEF Current
<1>1. CASE op[p].pc \in Working
  BY <1>1, Works DEF Current, SameTask
<1>2. CASE op[p].pc \notin Working
  <2>1. Enters(p)
    <3>1. op[p].pc \notin {"backup"} \cup Editing
      BY <1>2 DEF Working
    <3>2. ~Outside(p)
      BY DEF Outside
    <3>3. ~BackupConfig(p) /\ ~BackupManifest(p) /\ ~ReadConfig(p) /\ ~WriteConfig(p)
      BY <3>1, BackupConfigEffect, BackupManifestEffect, ReadConfigEffect, WriteConfigEffect
         DEF Editing
    <3>4. ~activeRecipientSet(p) /\ ~EditFails(p) /\ ~CommitFails(p)
      BY <3>1, activeRecipientSetEffect, FailureEffect DEF Editing
    <3>5. ~ReencryptManifest(p) /\ ~Commit(p)
      BY <3>1, ReencryptManifestEffect, CommitEffect DEF Editing
    <3>6. ~Rollback(p) /\ ~Tears(p)
      BY <3>1, RollbackEffect, TearsEffect DEF Editing
    <3>7. QED
      BY <3>2, <3>3, <3>4, <3>5, <3>6, StepCases
  <2>2. QED
    BY <2>1 DEF Enters
<1>3. QED
  BY <1>1, <1>2

(* The rewritten rules are rid of what is being retired.                   *)
LEMMA RewrittenSheds ==
  ASSUME Base, NEW p \in Operator, op[p].pc \in Working, NEW rs \in SUBSET Fingerprint
  PROVE  /\ Rewritten(p, rs) \subseteq rs \cup {op[p].new}
         /\ Rewritten(p, rs) \cap Shed(op[p]) = {}
         /\ op[p].kind \in Revoking => op[p].new = NoKey /\ Rewritten(p, rs) \subseteq rs
<1>1. /\ op[p] \in Operation /\ Shape(op[p]) /\ op[p].kind \in Turning \cup Retiring
      /\ FpsOf(op[p].out) \subseteq Fingerprint
  BY OpIs, FpsAre DEF Shape, Operation, KeyEntry, Entry
<1>2. op[p].kind \in Revoking => op[p].new = NoKey
  BY <1>1 DEF Shape
<1>3. op[p].new \notin FpsOf(op[p].out)
  BY <1>1, <1>2, NoKeyIsNoFingerprint DEF Shape, Retiring
<1>4. op[p].kind \in Retiring => op[p].kind \notin Turning
  BY DEF Turning, Retiring, Revoking
<1>5. Rewritten(p, rs) \cap Shed(op[p]) = {}
  <2>1. CASE op[p].kind \in Retiring
    BY <1>3, <1>4, <2>1, RewrittenIs DEF Shed
  <2>2. CASE op[p].kind \notin Retiring
    BY <2>2 DEF Shed
  <2>3. QED
    BY <2>1, <2>2
<1>6. QED
  BY <1>2, <1>5, RewrittenIs

(* A successor was never retired.                                          *)
LEMMA NewIsNotGone ==
  ASSUME Base, Buried, NEW p \in Operator, Current(p), op[p].pc \in Working
  PROVE  op[p].new \notin gone
<1>1. Shape(op[p]) /\ gone \subseteq Fingerprint /\ op[p].kind \in Turning \cup Retiring
  BY OpIs DEF Base, Typed, Shape
<1>2. CASE op[p].kind \in Turning \cup {"complete"}
  BY <1>2 DEF Buried, Current
<1>3. CASE op[p].kind \in Revoking
  BY <1>1, <1>3, NoKeyIsNoFingerprint DEF Shape
<1>4. QED
  BY <1>1, <1>2, <1>3 DEF Retiring

(* The step of a lone operator.                                            *)
LEMMA CleanStep ==
  ASSUME Base, Buried, NEW p \in Operator, Current(p), Clean(p), Step(p)
  PROVE  Clean(p)'
<1>1. /\ op[p] \in Operation /\ Shape(op[p]) /\ Shape(op'[p])
      /\ sops \in RuleSets /\ manifest \in [Manifest -> SUBSET Fingerprint]
      /\ faults \subseteq Faults
  BY OpIs, StepActs DEF Base, Typed, Acts
<1>2. "pull" \notin faults =>
        /\ Free(sops, gone)
        /\ op[p].pc \in Editing => Free(op[p].saved, gone)
        /\ op[p].pc = "write" => Free(op[p].draft, gone \cup Shed(op[p]))
        /\ op[p].pc \in {"recipients", "reencrypt"} => Free(sops, Shed(op[p]))
        /\ "skip" \notin faults => Free(manifest, gone) /\ Free(op[p].copies, gone)
        /\ "skip" \notin faults /\ op[p].pc = "reencrypt" /\ ~op[p].failed =>
             \A m \in Manifest \ op[p].todo : manifest[m] \cap Shed(op[p]) = {}
  BY DEF Clean
<1>3. CASE Outside(p) \/ Enters(p)
  <2>1. /\ op'[p].pc \notin Editing /\ DOMAIN op'[p].copies = {}
        /\ UNCHANGED <<sops, manifest, gone>> /\ faults \subseteq faults'
    BY <1>3 DEF Outside, Enters, Working, Editing
  <2>2. QED
    BY <1>2, <2>1 DEF Clean, Free, Editing
<1>4. CASE BackupConfig(p)
  <2>1. /\ UNCHANGED <<sops, manifest, gone, faults>> /\ op'[p].saved = sops
        /\ op'[p].copies = op[p].copies /\ op'[p].pc = "copy"
    BY <1>4, BackupConfigEffect DEF files, past
  <2>2. QED
    BY <1>2, <2>1 DEF Clean
<1>5. CASE BackupManifest(p)
  <2>1. /\ UNCHANGED <<sops, manifest, gone, faults>> /\ op'[p].saved = op[p].saved
        /\ op[p].pc = "copy" /\ op'[p].pc \in {"copy", "edit"}
    BY <1>5, BackupManifestEffect DEF files, past
  <2>2. "pull" \notin faults /\ "skip" \notin faults => Free(op'[p].copies, gone)
    <3> SUFFICES ASSUME "pull" \notin faults, "skip" \notin faults
                 PROVE  Free(op'[p].copies, gone)
      OBVIOUS
    <3>1. CASE op'[p].copies = op[p].copies
      BY <1>2, <3>1
    <3>2. ASSUME NEW m \in op[p].todo,
                 DOMAIN op'[p].copies = DOMAIN op[p].copies \cup {m},
                 op'[p].copies[m] = manifest[m],
                 \A n \in DOMAIN op[p].copies : n # m => op'[p].copies[n] = op[p].copies[n]
          PROVE  Free(op'[p].copies, gone)
      <4>1. m \in Manifest
        BY <1>1, <2>1 DEF Shape
      <4>2. QED
        BY <1>1, <1>2, <3>2, <4>1 DEF Free
    <3>3. QED
      BY <1>5, <3>1, <3>2, BackupManifestEffect
  <2>3. QED
    BY <1>2, <2>1, <2>2 DEF Clean, Editing
<1>6. CASE ReadConfig(p)
  <2>1. /\ UNCHANGED <<sops, manifest, gone, faults>> /\ SameCopies(op'[p], op[p])
        /\ SameTask(op'[p], op[p]) /\ op[p].pc = "edit" /\ op'[p].pc = "write"
        /\ op'[p].draft \in RuleSets
        /\ \A r \in Rule : op'[p].draft[r] = Rewritten(p, sops[r])
    BY <1>6, ReadConfigEffect DEF files, past
  <2>2. Shed(op'[p]) = Shed(op[p]) /\ op[p].pc \in Working
    BY <2>1 DEF SameTask, Shed, Working, Editing
  <2>3. ASSUME NEW r \in Rule, Free(sops, gone)
        PROVE  Rewritten(p, sops[r]) \cap (gone \cup Shed(op[p])) = {}
    <3>1. sops[r] \in SUBSET Fingerprint /\ sops[r] \cap gone = {}
      BY <1>1, <2>3 DEF RuleSets, Free
    <3>2. op[p].new \notin gone
      BY <2>2, NewIsNotGone
    <3>3. QED
      BY <2>2, <3>1, <3>2, RewrittenSheds
  <2>4. Free(sops, gone) => Free(op'[p].draft, gone \cup Shed(op[p]))
    BY <2>1, <2>3 DEF Free, RuleSets
  <2>5. QED
    BY <1>2, <2>1, <2>2, <2>4 DEF Clean, SameCopies, Editing
<1>7. CASE WriteConfig(p)
  <2>1. /\ UNCHANGED <<manifest, gone, faults>> /\ SameCopies(op'[p], op[p])
        /\ SameTask(op'[p], op[p]) /\ op[p].pc = "write" /\ op'[p].pc = "recipients"
        /\ sops' = op[p].draft
    BY <1>7, WriteConfigEffect DEF past
  <2>2. Shed(op'[p]) = Shed(op[p])
    BY <2>1 DEF SameTask, Shed
  <2>3. Free(op[p].draft, gone \cup Shed(op[p])) =>
          Free(op[p].draft, gone) /\ Free(op[p].draft, Shed(op[p]))
    BY DEF Free
  <2>4. QED
    BY <1>2, <2>1, <2>2, <2>3 DEF Clean, SameCopies, Editing
<1>8. CASE activeRecipientSet(p)
  <2>1. /\ UNCHANGED <<sops, manifest, gone, faults>> /\ SameCopies(op'[p], op[p])
        /\ SameTask(op'[p], op[p]) /\ op[p].pc = "recipients" /\ op'[p].pc = "reencrypt"
        /\ op'[p].todo = Manifest
    BY <1>8, activeRecipientSetEffect DEF files, past
  <2>2. Shed(op'[p]) = Shed(op[p])
    BY <2>1 DEF SameTask, Shed
  <2>3. QED
    BY <1>2, <2>1, <2>2 DEF Clean, SameCopies, Editing
<1>9. CASE EditFails(p) \/ CommitFails(p)
  <2>1. /\ UNCHANGED <<sops, manifest, gone, faults>> /\ SameCopies(op'[p], op[p])
        /\ op[p].pc \in Editing /\ op'[p].pc = "undo"
    BY <1>9, FailureEffect DEF files, past, Editing
  <2>2. QED
    BY <1>2, <2>1 DEF Clean, SameCopies, Editing
<1>10. CASE ReencryptManifest(p)
  <2>1. /\ UNCHANGED <<sops, gone>> /\ SameCopies(op'[p], op[p]) /\ SameTask(op'[p], op[p])
        /\ op[p].pc = "reencrypt" /\ op'[p].pc = "reencrypt"
    BY <1>10, ReencryptManifestEffect
  <2>2. Shed(op'[p]) = Shed(op[p])
    BY <2>1 DEF SameTask, Shed
  <2>3. PICK m \in Manifest :
          /\ op'[p].todo = op[p].todo \ {m}
          /\ \/ /\ manifest' = [manifest EXCEPT ![m] = sops[RuleOf[m]]]
                /\ op'[p].failed = op[p].failed /\ UNCHANGED faults
             \/ op'[p].failed /\ UNCHANGED <<manifest, faults>>
             \/ /\ op'[p].failed = op[p].failed /\ manifest[m] = {}
                /\ UNCHANGED <<manifest, faults>>
             \/ /\ op'[p].failed = op[p].failed /\ Fault("skip") /\ UNCHANGED manifest
    BY <1>10, ReencryptManifestEffect
  <2>4. RuleOf[m] \in DOMAIN sops
    BY <1>1, LifecycleConstants DEF RuleSets
  <2>5. CASE /\ manifest' = [manifest EXCEPT ![m] = sops[RuleOf[m]]]
             /\ op'[p].failed = op[p].failed /\ UNCHANGED faults
    <3> SUFFICES ASSUME "pull" \notin faults
                 PROVE  Clean(p)'
      BY <2>5 DEF Clean
    <3>1. Free(sops, gone) /\ Free(sops, Shed(op[p])) /\ Free(op[p].saved, gone)
      BY <1>2, <2>1 DEF Editing
    <3>2. sops[RuleOf[m]] \cap gone = {} /\ sops[RuleOf[m]] \cap Shed(op[p]) = {}
      BY <2>4, <3>1 DEF Free
    <3>3. "skip" \notin faults => Free(manifest', gone)
      BY <1>1, <1>2, <2>5, <3>2 DEF Free
    <3>4. "skip" \notin faults /\ ~op'[p].failed =>
            \A n \in Manifest \ op'[p].todo : manifest'[n] \cap Shed(op[p]) = {}
      BY <1>1, <1>2, <2>1, <2>3, <2>5, <3>2
    <3>5. QED
      BY <1>2, <2>1, <2>2, <2>5, <3>1, <3>3, <3>4 DEF Clean, SameCopies
  <2>6. CASE op'[p].failed /\ UNCHANGED <<manifest, faults>>
    BY <1>2, <2>1, <2>2, <2>6 DEF Clean, SameCopies, Editing
  <2>7. CASE Fault("skip") /\ UNCHANGED manifest
    <3>1. "skip" \in faults' /\ faults \subseteq faults'
      BY <1>1, <2>7, FaultIs
    <3>2. QED
      BY <1>2, <2>1, <2>2, <3>1 DEF Clean, SameCopies, Editing
  <2>8. CASE /\ op'[p].failed = op[p].failed /\ manifest[m] = {}
             /\ UNCHANGED <<manifest, faults>>
    <3>1. "pull" \notin faults /\ "skip" \notin faults /\ ~op'[p].failed =>
            \A n \in Manifest \ op'[p].todo : manifest[n] \cap Shed(op[p]) = {}
      BY <1>2, <2>1, <2>3, <2>8
    <3>2. QED
      BY <1>2, <2>1, <2>2, <2>8, <3>1 DEF Clean, SameCopies, Editing
  <2>9. QED
    BY <2>3, <2>5, <2>6, <2>7, <2>8
<1>11. CASE Commit(p)
  <2>1. /\ op[p].pc = "reencrypt" /\ op[p].todo = {} /\ ~op[p].failed
        /\ op'[p].pc \notin Editing /\ DOMAIN op'[p].copies = {}
        /\ UNCHANGED <<sops, manifest, faults>> /\ gone' = gone \cup Shed(op[p])
    BY <1>11, CommitTurns DEF Working
  <2>2. "pull" \notin faults => Free(sops, gone')
    BY <1>2, <2>1 DEF Free
  <2>3. "pull" \notin faults /\ "skip" \notin faults => Free(manifest, gone')
    BY <1>1, <1>2, <2>1 DEF Free
  <2>4. QED
    BY <2>1, <2>2, <2>3 DEF Clean, Free, Editing
<1>12. CASE Rollback(p)
  <2>1. op[p].pc = "undo" /\ UNCHANGED gone
    BY <1>12, RollbackEffect
  <2>2. CASE op'[p] = Idle /\ UNCHANGED <<files, faults>>
    BY <1>2, <2>1, <2>2, IdleIs DEF Clean, Free, files, Editing
  <2>3. CASE op'[p] # Idle
    <3>1. /\ op'[p].pc = "undo" /\ SameCopies(op'[p], op[p])
          /\ faults' = faults \/ Fault("restore")
          /\ \/ files' = files
             \/ sops' = op[p].saved /\ manifest' = manifest
             \/ \E m \in DOMAIN op[p].copies \cap Manifest :
                  sops' = sops /\ manifest' = [manifest EXCEPT ![m] = op[p].copies[m]]
      BY <1>12, <2>3, RollbackEffect
    <3>2. faults \subseteq faults'
      BY <1>1, <3>1, FaultIs
    <3>3. "pull" \notin faults => Free(sops', gone) /\ Free(op[p].saved, gone)
      BY <1>2, <2>1, <3>1 DEF files, Editing
    <3>4. "pull" \notin faults /\ "skip" \notin faults => Free(manifest', gone)
      BY <1>1, <1>2, <3>1 DEF files, Free
    <3>5. QED
      BY <1>2, <2>1, <3>1, <3>2, <3>3, <3>4 DEF Clean, SameCopies, Editing
  <2>4. QED
    BY <1>12, <2>2, <2>3, RollbackEffect, IdleIs
<1>13. CASE Tears(p)
  <2>1. /\ UNCHANGED gone /\ op[p].pc \in {"write", "undo"}
        /\ \/ op'[p] = Idle
           \/ op'[p].pc = "undo" /\ SameCopies(op'[p], op[p])
    BY <1>13, TearsEffect
  <2>2. faults \subseteq faults'
    <3>1. UNCHANGED faults \/ Fault("cut")
      BY <1>13, TearsEffect
    <3>2. QED
      BY <1>1, <3>1, FaultIs
  <2>3. ASSUME "pull" \notin faults
        PROVE  Free(sops', gone)
    <3>1. op[p].pc = "write" => Free(op[p].draft, gone) /\ op[p].draft \in RuleSets
      BY <1>1, <1>2, <2>3 DEF Free, Shape
    <3>2. Free(sops, gone) /\ Free(op[p].saved, gone) /\ op[p].saved \in RuleSets
      BY <1>1, <1>2, <2>1, <2>3 DEF Shape, Editing
    <3>3. CASE UNCHANGED sops
      BY <3>2, <3>3
    <3>4. CASE /\ op[p].pc = "write" /\ sops' \in RuleSets
               /\ \A r \in Rule : sops'[r] \subseteq op[p].draft[r]
      BY <3>1, <3>4 DEF Free, RuleSets
    <3>5. CASE /\ op[p].pc = "undo" /\ sops' \in RuleSets
               /\ \A r \in Rule : sops'[r] \subseteq op[p].saved[r]
      BY <3>2, <3>5 DEF Free, RuleSets
    <3>6. QED
      BY <1>13, <3>3, <3>4, <3>5, TearsEffect
  <2>4. Free(manifest, gone) => Free(manifest', gone)
    <3>1. UNCHANGED manifest
          \/ \E m \in Manifest : manifest' = [manifest EXCEPT ![m] = {}]
      BY <1>13, TearsEffect
    <3>2. QED
      BY <1>1, <3>1 DEF Free
  <2>5. CASE op'[p] = Idle
    BY <1>2, <2>1, <2>2, <2>3, <2>4, <2>5, IdleIs DEF Clean, Free, Editing
  <2>6. CASE op'[p].pc = "undo" /\ SameCopies(op'[p], op[p])
    BY <1>2, <2>1, <2>2, <2>3, <2>4, <2>6 DEF Clean, SameCopies, Editing
  <2>7. QED
    BY <2>1, <2>5, <2>6
<1>14. QED
  BY <1>3, <1>4, <1>5, <1>6, <1>7, <1>8, <1>9, <1>10, <1>11, <1>12, <1>13, StepCases

(* An edit of a lone operator's files adds a key that nothing mentions, or *)
(* is a pull.                                                              *)
LEMMA EditIs ==
  ASSUME Base, EditConfig
  PROVE  /\ UNCHANGED <<reg, manifest, torn, op, gone>> /\ faults \subseteq faults'
         /\ faults' # {}
         /\ \E r \in Rule, k \in Fingerprint :
              /\ sops' = [sops EXCEPT ![r] = @ \cup {k}]
              /\ k \notin FpsOf(reg) \/ "pull" \in faults'
         /\ AllIdle \/ "race" \in faults'
<1>1. PICK r \in Rule, k \in Fingerprint :
        /\ sops' = [sops EXCEPT ![r] = @ \cup {k}]
        /\ \/ Fault(IF AllIdle THEN "edit" ELSE "race") /\ k \in Fresh
           \/ AllIdle /\ Fault("pull")
  BY EditConfigEffect
<1>2. UNCHANGED <<reg, manifest, torn, op, gone>> /\ faults \subseteq Faults
  BY EditConfigEffect DEF Base, Typed
<1>3. k \in Fresh => k \notin FpsOf(reg)
  BY DEF Fresh
<1>4. CASE Fault(IF AllIdle THEN "edit" ELSE "race") /\ k \in Fresh
  <2>1. AllIdle \/ Fault("race")
    BY <1>4
  <2>2. \E kind : Fault(kind)
    BY <1>4
  <2>3. faults \subseteq faults' /\ faults' # {} /\ (AllIdle \/ "race" \in faults')
    BY <1>2, <2>1, <2>2, FaultIs
  <2>4. QED
    BY <1>1, <1>2, <1>3, <1>4, <2>3
<1>5. CASE AllIdle /\ Fault("pull")
  <2>1. faults \subseteq faults' /\ "pull" \in faults'
    BY <1>2, <1>5, FaultIs
  <2>2. QED
    BY <1>1, <1>2, <1>5, <2>1
<1>6. QED
  BY <1>1, <1>4, <1>5

(* An edit leaves retired keys out, unless it is a pull.                   *)
LEMMA CleanEdit ==
  ASSUME Base, Buried, NEW p \in Operator, Clean(p), EditConfig
  PROVE  Clean(p)'
<1>1. UNCHANGED <<reg, manifest, op, gone>> /\ faults \subseteq faults'
  BY EditIs
<1>2. PICK r \in Rule, k \in Fingerprint :
        /\ sops' = [sops EXCEPT ![r] = @ \cup {k}]
        /\ k \notin FpsOf(reg) \/ "pull" \in faults'
  BY EditIs
<1>3. sops \in RuleSets /\ Shed(op[p]) \subseteq FpsOf(reg) /\ gone \subseteq FpsOf(reg)
  BY DEF Base, Typed, Known, Buried, Shed
<1>4. "pull" \notin faults' => /\ Free(sops, gone) => Free(sops', gone)
                               /\ Free(sops, Shed(op[p])) => Free(sops', Shed(op[p]))
  BY <1>2, <1>3 DEF Free, RuleSets
<1>5. Shed(op[p])' = Shed(op[p])
  BY <1>1 DEF Shed
<1>6. QED
  BY <1>1, <1>4, <1>5 DEF Clean

(* What holds of a lone operator's work at the start.                      *)
LEMMA InitAlone ==
  ASSUME NEW p \in Operator, Init
  PROVE  Base /\ Buried /\ Current(p) /\ Clean(p) /\ Open(p) /\ Whole(p)
<1>1. Base /\ op[p] = Idle /\ op[p].pc = "idle" /\ DOMAIN op[p].copies = {}
  BY InitBase, IdleIs DEF Init
<1>2. gone = {} /\ sops = RuleKeys /\ manifest = [m \in Manifest |-> RuleKeys[RuleOf[m]]]
  BY DEF Init
<1>3. /\ ActiveAge(reg) = Recipients(RuleKeys) /\ DOMAIN RuleKeys = Rule
      /\ RuleOf \in [Manifest -> Rule]
      /\ \A r \in Rule : RuleKeys[r] \subseteq Recipients(RuleKeys) /\ RuleKeys[r] # {}
  BY InitRing, LifecycleConstants, RecipientsAre
<1>4. Current(p)
  BY <1>1 DEF Current, Working, Editing
<1>5. Clean(p)
  BY <1>1, <1>2 DEF Clean, Free, Editing
<1>6. Open(p)
  BY <1>1, <1>2, <1>3 DEF Open, Met, Use, Editing
<1>7. Whole(p)
  BY <1>1, <1>2, <1>3 DEF Whole, Only, Follow, Editing
<1>8. QED
  BY <1>1, <1>2, <1>4, <1>5, <1>6, <1>7 DEF Buried

(* What a lone operator's work rests on is kept by every step.             *)
LEMMA NextAlone ==
  ASSUME NEW p \in Operator, Operator = {p}, Base, Buried, Current(p), [Next]_vars
  PROVE  Base' /\ Buried' /\ Current(p)' /\ (Step(p) \/ EditConfig \/ UNCHANGED vars)
<1>1. Base' /\ Buried' /\ (Step(p) \/ EditConfig \/ UNCHANGED vars)
  BY NextBase, NextBuried DEF Next
<1>2. CASE Step(p)
  BY <1>1, <1>2, CurrentStep
<1>3. CASE EditConfig
  BY <1>1, <1>3, EditIs DEF Current
<1>4. CASE UNCHANGED vars
  BY <1>1, <1>4 DEF Current, vars
<1>5. QED
  BY <1>1, <1>2, <1>3, <1>4

(* One operator at a time: a key whose revocation was reported, or that a  *)
(* completed rotation replaced, is in no rule and decrypts no manifest,    *)
(* whatever later operations do, fail at or roll back, unless a pull       *)
(* brings it back or a manifest that could not be read was passed over.    *)
THEOREM RetiredKeysStayOut ==
  ASSUME NEW solo, Operator = {solo}
  PROVE  Spec => []RetiredStaysOut
<1> DEFINE Inv == Base /\ Buried /\ Current(solo) /\ Clean(solo)
<1>1. Init => Inv
  BY InitAlone
<1>2. Inv /\ [Next]_vars => Inv'
  <2> SUFFICES ASSUME Inv, [Next]_vars PROVE Inv'
    OBVIOUS
  <2>1. Base' /\ Buried' /\ Current(solo)' /\ (Step(solo) \/ EditConfig \/ UNCHANGED vars)
    BY NextAlone
  <2>2. Clean(solo)'
    <3>1. CASE Step(solo)
      BY <3>1, CleanStep
    <3>2. CASE EditConfig
      BY <3>2, CleanEdit
    <3>3. CASE UNCHANGED vars
      BY <3>3 DEF vars, Clean, Shed
    <3>4. QED
      BY <2>1, <3>1, <3>2, <3>3
  <2>3. QED
    BY <2>1, <2>2
<1>3. Inv => RetiredStaysOut
  BY DEF Base, Typed, RuleSets, Clean, Free, RetiredStaysOut
<1> HIDE DEF Inv
<1>4. QED
  BY <1>1, <1>2, <1>3, PTL DEF Spec

(* A rewritten rule keeps an active recipient.                             *)
LEMMA RewrittenMeets ==
  ASSUME Base, NEW p \in Operator, Current(p), op[p].pc \in Working,
         NEW rs \in SUBSET Fingerprint, rs \cap ActiveAge(reg) # {}, Rewritten(p, rs) # {},
         op[p].kind \in Revoking => rs \subseteq ActiveAge(reg)
  PROVE  Rewritten(p, rs) \cap Lasting(reg, op[p]) # {}
<1>1. Shape(op[p]) /\ op[p].kind \in Turning \cup Retiring
  BY OpIs DEF Shape
<1>2. Rewritten(p, rs) \cap Shed(op[p]) = {}
  BY RewrittenSheds
<1>3. CASE op[p].kind \in Turning
  BY <1>2, <1>3, RewrittenIs DEF Lasting
<1>4. CASE op[p].kind = "complete"
  <2>1. op[p].new \in ActiveAge(reg) /\ op[p].new \in Fingerprint /\ op[p].new # NoKey
    BY <1>1, <1>4, NoKeyIsNoFingerprint DEF Current, Shape
  <2>2. rs \cap FpsOf(op[p].out) # {} => op[p].new \in Rewritten(p, rs)
    BY <2>1, RewrittenIs
  <2>3. rs \ FpsOf(op[p].out) \subseteq Rewritten(p, rs)
    BY RewrittenIs
  <2>4. QED
    BY <1>2, <2>1, <2>2, <2>3 DEF Lasting
<1>5. CASE op[p].kind \in Revoking
  BY <1>2, <1>5, RewrittenSheds DEF Lasting
<1>6. QED
  BY <1>1, <1>3, <1>4, <1>5 DEF Retiring

(* The step of a lone operator.                                            *)
LEMMA OpenStep ==
  ASSUME Base, NEW p \in Operator, Current(p), Open(p), Step(p)
  PROVE  Open(p)'
<1> DEFINE A == ActiveAge(reg)
<1>1. /\ op[p] \in Operation /\ Shape(op[p]) /\ Shape(op'[p])
      /\ sops \in RuleSets /\ manifest \in [Manifest -> SUBSET Fingerprint]
      /\ faults \subseteq Faults
  BY OpIs, StepActs DEF Base, Typed, Acts
<1>2. "race" \notin faults /\ "config" \notin torn =>
        /\ Met(sops, A)
        /\ op[p].pc \in Editing => Met(op[p].saved, A)
        /\ op[p].pc = "write" => Met(op[p].draft, Lasting(reg, op[p]))
        /\ op[p].pc \in {"recipients", "reencrypt"} => Met(sops, Lasting(reg, op[p]))
        /\ op[p].pc \in {"backup", "copy", "edit"} /\ op[p].kind \in Revoking =>
             Within(sops, A)
        /\ "skip" \notin faults => Use(manifest, A, torn) /\ Use(op[p].copies, A, torn)
        /\ "skip" \notin faults /\ op[p].pc = "reencrypt" /\ ~op[p].failed =>
             \A m \in Manifest \ (op[p].todo \cup torn) :
               manifest[m] \cap Lasting(reg, op[p]) # {}
  BY DEF Open
<1> HIDE DEF A
<1>3. CASE Outside(p)
  <2>1. /\ op'[p].pc \notin Editing \cup {"backup"} /\ DOMAIN op'[p].copies = {}
        /\ UNCHANGED <<sops, manifest, torn>> /\ faults \subseteq faults'
        /\ A \subseteq ActiveAge(reg')
    BY <1>3 DEF Outside, Working, A
  <2>2. Met(sops, A) => Met(sops, ActiveAge(reg'))
    BY <2>1 DEF Met
  <2>3. Use(manifest, A, torn) => Use(manifest, ActiveAge(reg'), torn)
    BY <2>1 DEF Use
  <2>4. QED
    BY <1>2, <2>1, <2>2, <2>3 DEF Open, Use, Editing
<1>4. CASE Enters(p)
  <2>1. /\ op'[p].pc = "backup" /\ DOMAIN op'[p].copies = {}
        /\ UNCHANGED <<sops, manifest, torn, reg, faults>>
        /\ op'[p].kind \in Revoking => Recipients(sops) \subseteq A
    BY <1>4 DEF Enters, A
  <2>2. Recipients(sops) \subseteq A => Within(sops, A)
    BY RecipientsAre DEF Within
  <2>3. QED
    BY <1>2, <2>1, <2>2 DEF Open, Use, Editing, A
<1>5. CASE BackupConfig(p)
  <2>1. /\ UNCHANGED <<sops, manifest, torn, reg, faults>> /\ op'[p].saved = sops
        /\ op'[p].copies = op[p].copies /\ op[p].pc = "backup" /\ op'[p].pc = "copy"
        /\ op'[p].kind = op[p].kind
    BY <1>5, BackupConfigEffect DEF files, past, SameTask
  <2>2. QED
    BY <1>2, <2>1 DEF Open, A
<1>6. CASE BackupManifest(p)
  <2>1. /\ UNCHANGED <<sops, manifest, torn, reg, faults>> /\ op'[p].saved = op[p].saved
        /\ op[p].pc = "copy" /\ op'[p].pc \in {"copy", "edit"} /\ op'[p].kind = op[p].kind
    BY <1>6, BackupManifestEffect DEF files, past, SameTask
  <2>2. faults \cap {"race", "skip"} = {} /\ "config" \notin torn =>
          Use(op'[p].copies, A, torn)
    <3> SUFFICES ASSUME faults \cap {"race", "skip"} = {}, "config" \notin torn
                 PROVE  Use(op'[p].copies, A, torn)
      OBVIOUS
    <3>1. CASE op'[p].copies = op[p].copies
      BY <1>2, <3>1
    <3>2. ASSUME NEW m \in op[p].todo,
                 DOMAIN op'[p].copies = DOMAIN op[p].copies \cup {m},
                 op'[p].copies[m] = manifest[m],
                 \A n \in DOMAIN op[p].copies : n # m => op'[p].copies[n] = op[p].copies[n]
          PROVE  Use(op'[p].copies, A, torn)
      <4>1. m \in Manifest
        BY <1>1, <2>1 DEF Shape
      <4>2. QED
        BY <1>1, <1>2, <3>2, <4>1 DEF Use
    <3>3. QED
      BY <1>6, <3>1, <3>2, BackupManifestEffect
  <2>3. QED
    BY <1>2, <2>1, <2>2 DEF Open, Editing, A
<1>7. CASE ReadConfig(p)
  <2>1. /\ UNCHANGED <<sops, manifest, torn, reg, faults>> /\ SameCopies(op'[p], op[p])
        /\ SameTask(op'[p], op[p]) /\ op[p].pc = "edit" /\ op'[p].pc = "write"
        /\ op'[p].draft \in RuleSets
        /\ \A r \in Rule : /\ op'[p].draft[r] = Rewritten(p, sops[r])
                           /\ sops[r] # {} => op'[p].draft[r] # {}
    BY <1>7, ReadConfigEffect DEF files, past
  <2>2. Lasting(reg', op'[p]) = Lasting(reg, op[p]) /\ op[p].pc \in Working
    BY <2>1 DEF SameTask, Lasting, Shed, Working, Editing
  <2>3. ASSUME NEW r \in Rule, "race" \notin faults, "config" \notin torn
        PROVE  Rewritten(p, sops[r]) \cap Lasting(reg, op[p]) # {}
    <3>1. /\ sops[r] \in SUBSET Fingerprint /\ sops[r] \cap ActiveAge(reg) # {}
          /\ op[p].kind \in Revoking => sops[r] \subseteq ActiveAge(reg)
      BY <1>1, <1>2, <2>1, <2>3 DEF RuleSets, Met, Within, A
    <3>2. Rewritten(p, sops[r]) # {}
      BY <2>1, <3>1
    <3>3. QED
      BY <2>2, <3>1, <3>2, RewrittenMeets
  <2>4. "race" \notin faults /\ "config" \notin torn =>
          Met(op'[p].draft, Lasting(reg, op[p]))
    BY <2>1, <2>3 DEF Met, RuleSets
  <2>5. QED
    BY <1>2, <2>1, <2>2, <2>4 DEF Open, SameCopies, Editing, A
<1>8. CASE WriteConfig(p)
  <2>1. /\ UNCHANGED <<manifest, torn, reg, faults>> /\ SameCopies(op'[p], op[p])
        /\ SameTask(op'[p], op[p]) /\ op[p].pc = "write" /\ op'[p].pc = "recipients"
        /\ sops' = op[p].draft
    BY <1>8, WriteConfigEffect DEF past
  <2>2. Lasting(reg', op'[p]) = Lasting(reg, op[p])
    BY <2>1 DEF SameTask, Lasting, Shed
  <2>3. Met(op[p].draft, Lasting(reg, op[p])) => Met(op[p].draft, A)
    BY DEF Met, Lasting, A
  <2>4. QED
    BY <1>2, <2>1, <2>2, <2>3 DEF Open, SameCopies, Editing, A
<1>9. CASE activeRecipientSet(p)
  <2>1. /\ UNCHANGED <<sops, manifest, torn, reg, faults>> /\ SameCopies(op'[p], op[p])
        /\ SameTask(op'[p], op[p]) /\ op[p].pc = "recipients" /\ op'[p].pc = "reencrypt"
        /\ op'[p].todo = Manifest
    BY <1>9, activeRecipientSetEffect DEF files, past
  <2>2. Lasting(reg', op'[p]) = Lasting(reg, op[p])
    BY <2>1 DEF SameTask, Lasting, Shed
  <2>3. QED
    BY <1>2, <2>1, <2>2 DEF Open, SameCopies, Editing, A
<1>10. CASE EditFails(p) \/ CommitFails(p)
  <2>1. /\ UNCHANGED <<sops, manifest, torn, reg, faults>> /\ SameCopies(op'[p], op[p])
        /\ op[p].pc \in Editing /\ op'[p].pc = "undo"
    BY <1>10, FailureEffect DEF files, past, Editing
  <2>2. QED
    BY <1>2, <2>1 DEF Open, SameCopies, Editing, A
<1>11. CASE ReencryptManifest(p)
  <2>1. /\ UNCHANGED <<sops, torn, reg>>
        /\ SameCopies(op'[p], op[p]) /\ SameTask(op'[p], op[p])
        /\ op[p].pc = "reencrypt" /\ op'[p].pc = "reencrypt"
    BY <1>11, ReencryptManifestEffect
  <2>2. Lasting(reg', op'[p]) = Lasting(reg, op[p])
    BY <2>1 DEF SameTask, Lasting, Shed
  <2>3. PICK m \in Manifest :
          /\ op'[p].todo = op[p].todo \ {m}
          /\ \/ /\ manifest' = [manifest EXCEPT ![m] = sops[RuleOf[m]]]
                /\ op'[p].failed = op[p].failed /\ UNCHANGED faults
             \/ op'[p].failed /\ UNCHANGED <<manifest, faults>>
             \/ /\ op'[p].failed = op[p].failed /\ manifest[m] = {}
                /\ UNCHANGED <<manifest, faults>>
             \/ /\ op'[p].failed = op[p].failed /\ Fault("skip") /\ UNCHANGED manifest
    BY <1>11, ReencryptManifestEffect
  <2>4. RuleOf[m] \in DOMAIN sops
    BY <1>1, LifecycleConstants DEF RuleSets
  <2>5. CASE /\ manifest' = [manifest EXCEPT ![m] = sops[RuleOf[m]]]
             /\ op'[p].failed = op[p].failed /\ UNCHANGED faults
    <3> SUFFICES ASSUME "race" \notin faults, "config" \notin torn
                 PROVE  Open(p)'
      BY <2>1, <2>5 DEF Open
    <3>1. Met(sops, A) /\ Met(sops, Lasting(reg, op[p])) /\ Met(op[p].saved, A)
      BY <1>2, <2>1 DEF Editing
    <3>2. sops[RuleOf[m]] \cap A # {} /\ sops[RuleOf[m]] \cap Lasting(reg, op[p]) # {}
      BY <2>4, <3>1 DEF Met
    <3>3. "skip" \notin faults => Use(manifest', A, torn)
      BY <1>1, <1>2, <2>5, <3>2 DEF Use
    <3>4. "skip" \notin faults /\ ~op'[p].failed =>
            \A n \in Manifest \ (op'[p].todo \cup torn) : manifest'[n] \cap Lasting(reg, op[p]) # {}
      BY <1>1, <1>2, <2>1, <2>3, <2>5, <3>2
    <3>5. QED
      BY <1>2, <2>1, <2>2, <2>5, <3>1, <3>3, <3>4 DEF Open, SameCopies, A
  <2>6. CASE op'[p].failed /\ UNCHANGED <<manifest, faults>>
    BY <1>2, <2>1, <2>2, <2>6 DEF Open, SameCopies, Editing, A
  <2>7. CASE /\ op'[p].failed = op[p].failed /\ manifest[m] = {}
             /\ UNCHANGED <<manifest, faults>>
    <3>1. faults \cap {"race", "skip"} = {} /\ "config" \notin torn => m \in torn
      BY <1>1, <1>2, <2>7 DEF Use
    <3>2. m \in torn => Manifest \ (op'[p].todo \cup torn) = Manifest \ (op[p].todo \cup torn)
      BY <2>3
    <3>3. QED
      BY <1>2, <2>1, <2>2, <2>7, <3>1, <3>2 DEF Open, SameCopies, Editing, A
  <2>8. CASE Fault("skip") /\ UNCHANGED manifest
    <3>1. "skip" \in faults' /\ faults \subseteq faults'
      BY <1>1, <2>8, FaultIs
    <3>2. QED
      BY <1>2, <2>1, <2>2, <2>8, <3>1 DEF Open, SameCopies, Editing, A
  <2>9. QED
    BY <2>3, <2>5, <2>6, <2>7, <2>8
<1>12. CASE Commit(p)
  <2>1. /\ op[p].pc = "reencrypt" /\ op[p].todo = {} /\ ~op[p].failed
        /\ op'[p].pc \notin Working /\ DOMAIN op'[p].copies = {}
        /\ UNCHANGED <<sops, manifest, torn, faults>> /\ ActiveAge(reg') = After(reg, op[p])
    BY <1>12, CommitTurns
  <2>2. Lasting(reg, op[p]) \subseteq ActiveAge(reg')
    BY <2>1 DEF After
  <2>3. "race" \notin faults /\ "config" \notin torn => Met(sops, ActiveAge(reg'))
    BY <1>2, <2>1, <2>2 DEF Met
  <2>4. faults \cap {"race", "skip"} = {} /\ "config" \notin torn =>
          Use(manifest, ActiveAge(reg'), torn)
    BY <1>1, <1>2, <2>1, <2>2 DEF Use
  <2>5. QED
    BY <2>1, <2>3, <2>4 DEF Open, Use, Working, Editing
<1>13. CASE Rollback(p)
  <2>1. op[p].pc = "undo" /\ UNCHANGED <<reg, torn>>
    BY <1>13, RollbackEffect DEF files
  <2>2. CASE op'[p] = Idle /\ UNCHANGED <<files, faults>>
    BY <1>2, <2>1, <2>2, IdleIs DEF Open, Use, files, Editing, A
  <2>3. CASE op'[p] # Idle
    <3>1. /\ op'[p].pc = "undo" /\ SameCopies(op'[p], op[p])
          /\ faults' = faults \/ Fault("restore")
          /\ \/ sops' = sops /\ manifest' = manifest
             \/ sops' = op[p].saved /\ manifest' = manifest
             \/ \E m \in DOMAIN op[p].copies \cap Manifest :
                  sops' = sops /\ manifest' = [manifest EXCEPT ![m] = op[p].copies[m]]
      BY <1>13, <2>3, RollbackEffect DEF files
    <3>2. faults \subseteq faults'
      BY <1>1, <3>1, FaultIs
    <3>3. "race" \notin faults /\ "config" \notin torn => Met(sops', A) /\ Met(op[p].saved, A)
      BY <1>2, <2>1, <3>1 DEF Editing
    <3>4. faults \cap {"race", "skip"} = {} /\ "config" \notin torn => Use(manifest', A, torn)
      BY <1>1, <1>2, <3>1 DEF Use
    <3>5. QED
      BY <1>2, <2>1, <3>1, <3>2, <3>3, <3>4 DEF Open, SameCopies, Editing, A
  <2>4. QED
    BY <1>13, <2>2, <2>3, RollbackEffect, IdleIs
<1>14. CASE Tears(p)
  <2>1. CASE "config" \in torn'
    BY <2>1 DEF Open
  <2>2. CASE "config" \notin torn'
    <3>1. /\ op[p].pc = "undo" /\ UNCHANGED <<sops, reg>> /\ torn \subseteq torn'
          /\ \/ op'[p] = Idle
             \/ op'[p].pc = "undo" /\ SameCopies(op'[p], op[p])
          /\ faults' = faults \/ Fault("cut")
      BY <1>14, <2>2, TearsEffect
    <3>2. PICK m \in Manifest : m \in torn' /\ manifest' = [manifest EXCEPT ![m] = {}]
      BY <1>14, <2>2, TearsEffect
    <3>3. faults \subseteq faults'
      BY <1>1, <3>1, FaultIs
    <3>4. faults \cap {"race", "skip"} = {} => Use(manifest', A, torn')
      BY <1>1, <1>2, <2>2, <3>1, <3>2 DEF Use
    <3>5. faults \cap {"race", "skip"} = {} => Use(op'[p].copies, A, torn')
      <4>1. CASE op'[p] = Idle
        BY <4>1, IdleIs DEF Use
      <4>2. CASE SameCopies(op'[p], op[p])
        BY <1>2, <2>2, <3>1, <4>2 DEF Use, SameCopies
      <4>3. QED
        BY <3>1, <4>1, <4>2
    <3>6. op'[p].pc \in Editing => op'[p].pc = "undo" /\ op'[p].saved = op[p].saved
      BY <3>1, IdleIs DEF Editing, SameCopies
    <3>7. op'[p].pc \in {"idle", "undo"}
      BY <3>1, IdleIs
    <3>8. QED
      BY <1>2, <2>2, <3>1, <3>3, <3>4, <3>5, <3>6, <3>7 DEF Open, Editing, A
  <2>3. QED
    BY <2>1, <2>2
<1>15. QED
  BY <1>3, <1>4, <1>5, <1>6, <1>7, <1>8, <1>9, <1>10, <1>11, <1>12, <1>13, <1>14, StepCases

(* An edit only adds to the rules.                                         *)
LEMMA OpenEdit ==
  ASSUME NEW p \in Operator, Operator = {p}, Base, Open(p), EditConfig
  PROVE  Open(p)'
<1>1. UNCHANGED <<reg, manifest, torn, op>> /\ faults \subseteq faults'
  BY EditIs
<1>2. PICK r \in Rule, k \in Fingerprint : sops' = [sops EXCEPT ![r] = @ \cup {k}]
  BY EditIs
<1>3. sops \in RuleSets
  BY DEF Base, Typed
<1>4. \A keys : Met(sops, keys) => Met(sops', keys)
  BY <1>2, <1>3 DEF Met, RuleSets
<1>5. "race" \notin faults' => op[p].pc = "idle"
  BY EditIs DEF AllIdle, At
<1>6. QED
  BY <1>1, <1>4, <1>5 DEF Open, Lasting, Shed, Editing

(* One operator at a time: nobody is locked out.  In the middle of an      *)
(* operation, after any failure, rollback or crash between two writes      *)
(* every rule and every manifest has a recipient that is an active key,    *)
(* unless a hand edit raced an operation or a manifest was passed over;    *)
(* only the manifest whose write back was cut off is excepted, and nothing *)
(* is said once that has happened to .sops.yaml.                           *)
THEOREM NobodyIsLockedOut ==
  ASSUME NEW solo, Operator = {solo}
  PROVE  Spec => []NoLockout
<1> DEFINE Inv == Base /\ Buried /\ Current(solo) /\ Open(solo)
<1>1. Init => Inv
  BY InitAlone
<1>2. Inv /\ [Next]_vars => Inv'
  <2> SUFFICES ASSUME Inv, [Next]_vars PROVE Inv'
    OBVIOUS
  <2>1. Base' /\ Buried' /\ Current(solo)' /\ (Step(solo) \/ EditConfig \/ UNCHANGED vars)
    BY NextAlone
  <2>2. Open(solo)'
    <3>1. CASE Step(solo)
      BY <3>1, OpenStep
    <3>2. CASE EditConfig
      BY <3>2, OpenEdit
    <3>3. CASE UNCHANGED vars
      BY <3>3 DEF vars, Open, Lasting, Shed
    <3>4. QED
      BY <2>1, <3>1, <3>2, <3>3
  <2>3. QED
    BY <2>1, <2>2
<1>3. Inv => NoLockout
  BY DEF Base, Typed, RuleSets, Open, Met, Use, NoLockout
<1> HIDE DEF Inv
<1>4. QED
  BY <1>1, <1>2, <1>3, PTL DEF Spec

(* A rule that names active keys only is rewritten to name only keys that  *)
(* will be active after the commit.                                        *)
LEMMA RewrittenWithin ==
  ASSUME Base, NEW p \in Operator, Current(p), op[p].pc \in Working,
         NEW rs \in SUBSET Fingerprint, rs \subseteq ActiveAge(reg)
  PROVE  Rewritten(p, rs) \subseteq After(reg, op[p])
<1>1. Shape(op[p]) /\ op[p].kind \in Turning \cup Retiring
  BY OpIs DEF Shape
<1>2. Rewritten(p, rs) \subseteq rs \cup {op[p].new} /\ Rewritten(p, rs) \cap Shed(op[p]) = {}
  BY RewrittenSheds
<1>3. CASE op[p].kind \in Turning
  BY <1>2, <1>3 DEF After, Lasting
<1>4. CASE op[p].kind = "complete"
  BY <1>2, <1>4 DEF After, Lasting, Current
<1>5. CASE op[p].kind \in Revoking
  BY <1>2, <1>5, RewrittenSheds DEF After, Lasting
<1>6. QED
  BY <1>1, <1>3, <1>4, <1>5 DEF Retiring

(* The step of a lone operator.                                            *)
LEMMA WholeStep ==
  ASSUME Base, NEW p \in Operator, Current(p), Whole(p), Step(p), faults' = {}
  PROVE  Whole(p)'
<1> DEFINE A == ActiveAge(reg)
<1>1. /\ op[p] \in Operation /\ Shape(op[p]) /\ Shape(op'[p])
      /\ sops \in RuleSets /\ manifest \in [Manifest -> SUBSET Fingerprint]
      /\ faults \subseteq Faults /\ RuleOf \in [Manifest -> Rule]
  BY OpIs, StepActs, LifecycleConstants DEF Base, Typed, Acts
<1>2. \A kind : ~Fault(kind)
  BY <1>1, FaultIs
<1>3. faults = {}
  <2>1. CASE Commit(p)
    BY <2>1, CommitTurns
  <2>2. CASE Outside(p) \/ Enters(p)
    BY <2>2 DEF Outside, Enters
  <2>3. CASE Rollback(p)
    BY <1>2, <2>3, RollbackEffect DEF files
  <2>4. CASE \/ BackupConfig(p) \/ BackupManifest(p) \/ ReadConfig(p) \/ WriteConfig(p)
             \/ activeRecipientSet(p) \/ EditFails(p) \/ CommitFails(p)
    BY <2>4, BackupConfigEffect, BackupManifestEffect, ReadConfigEffect, WriteConfigEffect,
       activeRecipientSetEffect, FailureEffect DEF past
  <2>5. CASE ReencryptManifest(p)
    BY <1>2, <2>5, ReencryptManifestEffect
  <2>6. CASE Tears(p)
    BY <1>2, <2>6, TearsEffect
  <2>7. QED
    BY <2>1, <2>2, <2>3, <2>4, <2>5, <2>6, StepCases
<1>4. /\ \A m \in Manifest : manifest[m] # {}
      /\ op[p].pc \notin {"recipients", "reencrypt", "undo"} =>
           Only(sops, A) /\ Follow(manifest, sops)
      /\ op[p].pc \in Editing => Only(op[p].saved, A) /\ Follow(op[p].copies, op[p].saved)
      /\ op[p].pc \in {"copy", "edit", "write"} => sops = op[p].saved
      /\ op[p].pc = "write" => Only(op[p].draft, After(reg, op[p]))
      /\ op[p].pc \in {"recipients", "reencrypt"} => Only(sops, After(reg, op[p]))
      /\ op[p].pc = "reencrypt" /\ ~op[p].failed =>
           \A m \in Manifest \ op[p].todo : manifest[m] = sops[RuleOf[m]]
      /\ op[p].pc = "undo" =>
           /\ \A m \in Manifest \ op[p].todo : manifest[m] = op[p].saved[RuleOf[m]]
           /\ "config" \notin op[p].todo => sops = op[p].saved
  BY <1>3 DEF Whole
<1> HIDE DEF A
<1>5. CASE Outside(p)
  <2>1. /\ op'[p].pc \notin Editing /\ UNCHANGED <<sops, manifest>> /\ A \subseteq ActiveAge(reg')
        /\ op[p].pc \notin {"recipients", "reencrypt", "undo"}
    BY <1>5 DEF Outside, Working, A
  <2>2. Only(sops, A) => Only(sops', ActiveAge(reg'))
    BY <2>1 DEF Only
  <2>3. QED
    BY <1>4, <2>1, <2>2 DEF Whole, Editing
<1>6. CASE Enters(p)
  <2>1. op'[p].pc = "backup" /\ op[p].pc \notin Editing /\ UNCHANGED <<sops, manifest, reg>>
    BY <1>6 DEF Enters, Working
  <2>2. QED
    BY <1>4, <2>1 DEF Whole, Editing, A
<1>7. CASE BackupConfig(p)
  <2>1. /\ UNCHANGED <<sops, manifest, reg>> /\ op'[p].saved = sops
        /\ op'[p].copies = op[p].copies /\ op[p].pc = "backup" /\ op'[p].pc = "copy"
    BY <1>7, BackupConfigEffect DEF files, past
  <2>2. DOMAIN op[p].copies = {}
    BY <1>1, <2>1 DEF Shape, Editing
  <2>3. QED
    BY <1>4, <2>1, <2>2 DEF Whole, Follow, A
<1>8. CASE BackupManifest(p)
  <2>1. /\ UNCHANGED <<sops, manifest, reg>> /\ op'[p].saved = op[p].saved
        /\ op[p].pc = "copy" /\ op'[p].pc \in {"copy", "edit"}
    BY <1>8, BackupManifestEffect DEF files, past
  <2>2. Follow(op'[p].copies, op[p].saved)
    <3>1. CASE op'[p].copies = op[p].copies
      BY <1>4, <2>1, <3>1 DEF Editing
    <3>2. ASSUME NEW m \in op[p].todo,
                 DOMAIN op'[p].copies = DOMAIN op[p].copies \cup {m},
                 op'[p].copies[m] = manifest[m],
                 \A n \in DOMAIN op[p].copies : n # m => op'[p].copies[n] = op[p].copies[n]
          PROVE  Follow(op'[p].copies, op[p].saved)
      <4>1. m \in Manifest
        BY <1>1, <2>1 DEF Shape
      <4>2. manifest[m] = op[p].saved[RuleOf[m]] /\ Follow(op[p].copies, op[p].saved)
        BY <1>1, <1>4, <2>1, <4>1 DEF Follow, Editing
      <4>3. QED
        BY <3>2, <4>2 DEF Follow
    <3>3. QED
      BY <1>8, <3>1, <3>2, BackupManifestEffect
  <2>3. QED
    BY <1>4, <2>1, <2>2 DEF Whole, Editing, A
<1>9. CASE ReadConfig(p)
  <2>1. /\ UNCHANGED <<sops, manifest, reg>> /\ SameCopies(op'[p], op[p])
        /\ SameTask(op'[p], op[p]) /\ op[p].pc = "edit" /\ op'[p].pc = "write"
        /\ op'[p].draft \in RuleSets
        /\ \A r \in Rule : /\ op'[p].draft[r] = Rewritten(p, sops[r])
                           /\ sops[r] # {} => op'[p].draft[r] # {}
    BY <1>9, ReadConfigEffect DEF files, past
  <2>2. op[p].pc \in Working /\ After(reg', op'[p]) = After(reg, op[p])
    BY <2>1 DEF SameTask, After, Lasting, Shed, Working, Editing
  <2>3. ASSUME NEW r \in Rule
        PROVE  Rewritten(p, sops[r]) \subseteq After(reg, op[p]) /\ op'[p].draft[r] # {}
    <3>1. /\ sops[r] \in SUBSET Fingerprint /\ sops[r] \subseteq ActiveAge(reg)
          /\ sops[r] # {}
      BY <1>1, <1>4, <2>1 DEF RuleSets, Only, A
    <3>2. QED
      BY <2>1, <2>2, <3>1, RewrittenWithin
  <2>4. Only(op'[p].draft, After(reg, op[p]))
    BY <2>1, <2>3 DEF Only, RuleSets
  <2>5. QED
    BY <1>4, <2>1, <2>2, <2>4 DEF Whole, SameCopies, Editing, A
<1>10. CASE WriteConfig(p)
  <2>1. /\ UNCHANGED <<manifest, reg>> /\ SameCopies(op'[p], op[p])
        /\ SameTask(op'[p], op[p]) /\ op[p].pc = "write" /\ op'[p].pc = "recipients"
        /\ sops' = op[p].draft
    BY <1>10, WriteConfigEffect DEF past
  <2>2. After(reg', op'[p]) = After(reg, op[p])
    BY <2>1 DEF SameTask, After, Lasting, Shed
  <2>3. QED
    BY <1>4, <2>1, <2>2 DEF Whole, SameCopies, Editing, A
<1>11. CASE activeRecipientSet(p)
  <2>1. /\ UNCHANGED <<sops, manifest, reg>> /\ SameCopies(op'[p], op[p])
        /\ SameTask(op'[p], op[p]) /\ op[p].pc = "recipients" /\ op'[p].pc = "reencrypt"
        /\ op'[p].todo = Manifest
    BY <1>11, activeRecipientSetEffect DEF files, past
  <2>2. After(reg', op'[p]) = After(reg, op[p])
    BY <2>1 DEF SameTask, After, Lasting, Shed
  <2>3. QED
    BY <1>4, <2>1, <2>2 DEF Whole, SameCopies, Editing, A
<1>12. CASE EditFails(p) \/ CommitFails(p)
  <2>1. /\ UNCHANGED <<sops, manifest, reg>> /\ SameCopies(op'[p], op[p])
        /\ op[p].pc \in {"copy", "edit", "write", "recipients", "reencrypt"}
        /\ op'[p].pc = "undo" /\ op'[p].todo = DOMAIN op[p].copies \cup {"config"}
    BY <1>12, FailureEffect DEF files, past, Editing
  <2>2. ASSUME NEW m \in Manifest \ op'[p].todo
        PROVE  manifest[m] = op[p].saved[RuleOf[m]]
    <3>1. op[p].pc = "copy"
      BY <1>1, <2>1, <2>2 DEF Shape
    <3>2. QED
      BY <1>1, <1>4, <3>1 DEF Follow
  <2>3. QED
    BY <1>4, <2>1, <2>2 DEF Whole, SameCopies, Editing, A
<1>13. CASE ReencryptManifest(p)
  <2>1. /\ UNCHANGED <<sops, reg>> /\ SameCopies(op'[p], op[p]) /\ SameTask(op'[p], op[p])
        /\ op[p].pc = "reencrypt" /\ op'[p].pc = "reencrypt"
    BY <1>13, ReencryptManifestEffect
  <2>2. After(reg', op'[p]) = After(reg, op[p])
    BY <2>1 DEF SameTask, After, Lasting, Shed
  <2>3. PICK m \in Manifest :
          /\ op'[p].todo = op[p].todo \ {m}
          /\ \/ /\ manifest' = [manifest EXCEPT ![m] = sops[RuleOf[m]]]
                /\ op'[p].failed = op[p].failed
             \/ op'[p].failed /\ UNCHANGED manifest
    <3>1. \A m \in op[p].todo \cap Manifest : manifest[m] # {}
      BY <1>4
    <3>2. QED
      BY <1>2, <1>13, <3>1, ReencryptManifestEffect
  <2>4. ~op'[p].failed =>
          \A n \in Manifest \ op'[p].todo : manifest'[n] = sops[RuleOf[n]]
    BY <1>1, <1>4, <2>1, <2>3
  <2>5. \A n \in Manifest : manifest'[n] # {}
    <3>1. sops[RuleOf[m]] # {}
      BY <1>1, <1>4, <2>1 DEF Only, RuleSets
    <3>2. QED
      BY <1>1, <1>4, <2>3, <3>1
  <2>6. QED
    BY <1>4, <2>1, <2>2, <2>4, <2>5 DEF Whole, SameCopies, Editing, A
<1>14. CASE Commit(p)
  <2>1. /\ op[p].pc = "reencrypt" /\ op[p].todo = {} /\ ~op[p].failed
        /\ op'[p].pc \notin Editing /\ UNCHANGED <<sops, manifest>>
        /\ ActiveAge(reg') = After(reg, op[p])
    BY <1>14, CommitTurns DEF Working
  <2>2. Only(sops, ActiveAge(reg')) /\ Follow(manifest, sops)
    BY <1>1, <1>4, <2>1 DEF Follow
  <2>3. QED
    BY <1>4, <2>1, <2>2 DEF Whole, Editing
<1>15. CASE Rollback(p)
  <2>1. op[p].pc = "undo" /\ UNCHANGED reg
    BY <1>15, RollbackEffect
  <2>2. CASE op[p].todo = {} /\ op'[p] = Idle /\ UNCHANGED files
    <3>1. sops = op[p].saved /\ \A m \in Manifest : manifest[m] = sops[RuleOf[m]]
      BY <1>4, <2>1, <2>2
    <3>2. Only(sops, A) /\ Follow(manifest, sops)
      BY <1>1, <1>4, <2>1, <3>1 DEF Follow, Editing
    <3>3. QED
      BY <1>4, <2>1, <2>2, <3>2, IdleIs DEF Whole, files, Editing, A
  <2>3. CASE op'[p] # Idle
    <3>1. PICK f \in op[p].todo \cap (DOMAIN op[p].copies \cup {"config"}) :
            /\ op'[p].pc = "undo" /\ op'[p].todo = op[p].todo \ {f}
            /\ SameCopies(op'[p], op[p])
            /\ \/ f = "config" /\ sops' = op[p].saved /\ manifest' = manifest
               \/ /\ f # "config" /\ f \in Manifest
                  /\ manifest' = [manifest EXCEPT ![f] = op[p].copies[f]] /\ sops' = sops
      BY <1>2, <1>15, <2>3, RollbackEffect
    <3>2. "config" \notin op'[p].todo => sops' = op[p].saved
      BY <1>4, <2>1, <3>1
    <3>3. ASSUME NEW m \in Manifest \ op'[p].todo
          PROVE  manifest'[m] = op[p].saved[RuleOf[m]]
      <4>1. CASE m = f
        <5>1. m # "config" /\ f \in DOMAIN op[p].copies
          BY <3>1, <4>1, LifecycleConstants
        <5>2. manifest' = [manifest EXCEPT ![f] = op[p].copies[f]]
          BY <3>1, <4>1, <5>1
        <5>3. op[p].copies[f] = op[p].saved[RuleOf[f]]
          BY <1>4, <2>1, <5>1 DEF Follow, Editing
        <5>4. QED
          BY <1>1, <4>1, <5>2, <5>3
      <4>2. CASE m # f
        <5>1. m \notin op[p].todo /\ manifest'[m] = manifest[m]
          BY <1>1, <3>1, <3>3, <4>2
        <5>2. QED
          BY <1>4, <2>1, <5>1
      <4>3. QED
        BY <4>1, <4>2
    <3>4. ASSUME NEW m \in Manifest
          PROVE  manifest'[m] # {}
      <4>1. CASE m \in op'[p].todo
        <5>1. m # f
          BY <3>1, <4>1
        <5>2. QED
          BY <1>1, <1>4, <3>1, <5>1
      <4>2. CASE m \notin op'[p].todo
        BY <1>1, <1>4, <2>1, <3>3, <4>2 DEF Only, Editing, Shape, RuleSets
      <4>3. QED
        BY <4>1, <4>2
    <3>5. QED
      BY <1>4, <2>1, <3>1, <3>2, <3>3, <3>4 DEF Whole, SameCopies, Editing, A
  <2>4. QED
    BY <1>15, <2>2, <2>3, RollbackEffect, IdleIs
<1>16. CASE Tears(p)
  <2>1. /\ op[p].pc = "write" /\ op'[p].pc = "undo" /\ UNCHANGED <<manifest, reg>>
        /\ op'[p].todo = DOMAIN op[p].copies \cup {"config"}
    BY <1>2, <1>16, TearsEffect
  <2>2. SameCopies(op'[p], op[p])
    BY <1>16, <2>1, TearsEffect, IdleIs
  <2>3. DOMAIN op[p].copies = Manifest
    BY <1>1, <2>1 DEF Shape
  <2>4. QED
    BY <1>4, <2>1, <2>2, <2>3 DEF Whole, SameCopies, Editing, A
<1>17. QED
  BY <1>5, <1>6, <1>7, <1>8, <1>9, <1>10, <1>11, <1>12, <1>13, <1>14, <1>15, <1>16, StepCases

(* One operator at a time: an operation completes fully or leaves no       *)
(* partial change, also when its write of the rules is cut off.  As long   *)
(* as nothing crashed, no restore failed, nothing was passed over and      *)
(* nobody edited the rules, between operations every manifest follows its  *)
(* rule and each rule names active keys and nobody else.                   *)
THEOREM AllOrNothingHolds ==
  ASSUME NEW solo, Operator = {solo}
  PROVE  Spec => []AllOrNothing
<1> DEFINE Inv == Base /\ Buried /\ Current(solo) /\ Whole(solo)
<1>1. Init => Inv
  BY InitAlone
<1>2. Inv /\ [Next]_vars => Inv'
  <2> SUFFICES ASSUME Inv, [Next]_vars PROVE Inv'
    OBVIOUS
  <2>1. Base' /\ Buried' /\ Current(solo)' /\ (Step(solo) \/ EditConfig \/ UNCHANGED vars)
    BY NextAlone
  <2>2. Whole(solo)'
    <3>1. CASE Step(solo) /\ faults' = {}
      BY <3>1, WholeStep
    <3>2. CASE faults' # {}
      BY <3>2 DEF Whole
    <3>3. CASE EditConfig
      BY <3>3, EditIs DEF Whole
    <3>4. CASE UNCHANGED vars
      BY <3>4 DEF vars, Whole, After, Lasting, Shed
    <3>5. QED
      BY <2>1, <3>1, <3>2, <3>3, <3>4
  <2>3. QED
    BY <2>1, <2>2
<1>3. Inv => AllOrNothing
  <2> SUFFICES ASSUME Inv, faults = {}, AllIdle
               PROVE  /\ \A r \in Rule : sops[r] # {} /\ sops[r] \subseteq ActiveAge(reg)
                      /\ \A m \in Manifest : manifest[m] = sops[RuleOf[m]]
    BY DEF AllOrNothing
  <2>1. op[solo].pc = "idle"
    BY DEF AllIdle, At
  <2>2. Only(sops, ActiveAge(reg)) /\ Follow(manifest, sops)
    BY <2>1 DEF Whole
  <2>3. QED
    BY <2>2 DEF Base, Typed, RuleSets, Only, Follow
<1> HIDE DEF Inv
<1>4. QED
  BY <1>1, <1>2, <1>3, PTL DEF Spec

-----------------------------------------------------------------------------
(* 5. One rotation at a time, for any number of operators that rotate,     *)
(* complete and revoke.  Crowning a key by hand, or by a reconciliation,   *)
(* defeats it: it can give a key that was replaced its primary role back   *)
(* under a rotation that has already looked.                               *)

(* The active keys that replaced an active key: the rotations in progress. *)
SuccessorsIn(r) == {s \in r : IsActive(s) /\ \E x \in r : IsActive(x) /\ x.fp = s.from}
PrimaryFps(r)   == {x.fp : x \in {y \in r : IsPrimary(y)}}

(* What an active key replaced is a key of the registry.                   *)
Rooted(r) == \A x \in r : IsActive(x) => x.from \in FpsOf(r) \cup {NoKey}

(* A rotation that has looked and still holds the primary has no rival.    *)
Unrivalled(p) ==
  /\ op[p].pc \in {"generate"} \cup Working /\ op[p].kind \in Turning
  /\ FpsOf(op[p].out) \cap PrimaryFps(reg) # {}
  => SuccessorsIn(reg) = {}

(* One rotation is in progress at most, and no operation that could commit *)
(* another holds the primary.                                              *)
Chain ==
  /\ Rooted(reg) /\ \A x, y \in SuccessorsIn(reg) : x = y
  /\ \A p \in Operator : Unrivalled(p) /\ op[p].pc \notin Reconciling

(* The fingerprint of the primary.                                         *)
LEMMA PrimaryAre ==
  ASSUME NEW r, NEW k
  PROVE  k \in PrimaryFps(r) <=> \E x \in r : IsPrimary(x) /\ x.fp = k
BY DEF PrimaryFps

(* A transaction that retires keys touches no other entry, so it neither   *)
(* crowns a key nor starts a chain.                                        *)
LEMMA RetiringShrinks ==
  ASSUME NEW r, Ring(r), Rooted(r), NEW s, FpsOf(r) \subseteq FpsOf(s),
         \A x \in s : IsActive(x) => x \in r
  PROVE  /\ Rooted(s) /\ PrimaryFps(s) \subseteq PrimaryFps(r)
         /\ SuccessorsIn(s) \subseteq SuccessorsIn(r)
<1>1. Rooted(s)
  BY DEF Rooted
<1>2. PrimaryFps(s) \subseteq PrimaryFps(r)
  BY PrimaryAre DEF IsPrimary
<1>3. SuccessorsIn(s) \subseteq SuccessorsIn(r)
  BY DEF SuccessorsIn
<1>4. QED
  BY <1>1, <1>2, <1>3

(* The entries a completion or a revocation leaves active are as they were.*)
LEMMA RetiredOnly ==
  ASSUME Base, NEW p \in Operator, op[p].pc \in Working, op[p].kind \in Retiring,
         NEW s \in Requested(p)
  PROVE  \A x \in s : IsActive(x) => x \in reg
<1>1. /\ op[p].out \subseteq KeyEntry /\ Ring(reg)
  BY OpIs DEF Operation, Base, Typed
<1>2. ASSUME NEW x \in KeyEntry, NEW u \in KeyEntry, u.status \in {"archived", "revoked"}
      PROVE  ~IsActive(mergeKeyEntry(x, u))
  <2>1. PICK m : m = mergeKeyEntry(x, u)
    OBVIOUS
  <2>2. m.status = u.status
    BY <1>2, <2>1 DEF mergeKeyEntry, KeyEntry, Entry
  <2>3. QED
    BY <1>2, <2>1, <2>2 DEF IsActive
<1>3. CASE op[p].kind = "complete"
  <2>1. s \in UNION {UpdateKey(reg, [e EXCEPT !.status = "archived", !.primary = FALSE])
                       : e \in op[p].out}
    BY <1>3 DEF Requested
  <2>2. PICK e \in op[p].out :
          s \in UpdateKey(reg, [e EXCEPT !.status = "archived", !.primary = FALSE])
    BY <2>1
  <2>3. PICK u : u = [e EXCEPT !.status = "archived", !.primary = FALSE]
    OBVIOUS
  <2>4. u \in KeyEntry /\ u.status = "archived"
    BY <1>1, <2>3 DEF KeyEntry, Entry, Status
  <2>5. s \in UpdateKey(reg, u)
    BY <2>2, <2>3
  <2>6. PICK x \in reg : s = (reg \ {x}) \cup {mergeKeyEntry(x, u)}
    BY <2>5 DEF UpdateKey
  <2>7. ~IsActive(mergeKeyEntry(x, u))
    BY <1>1, <1>2, <2>4 DEF Ring
  <2>8. QED
    BY <2>6, <2>7
<1>4. CASE op[p].kind \in Revoking
  <2> DEFINE Revoked(e) == [e EXCEPT !.status = "revoked", !.primary = FALSE]
  <2>1. PICK batch : batch = {Revoked(e) : e \in op[p].out}
    OBVIOUS
  <2>2. s \in UpdateKeys(reg, batch)
    BY <1>4, <2>1 DEF Requested, Revoking
  <2>3. \A e \in op[p].out : Revoked(e) \in KeyEntry /\ Revoked(e).status = "revoked"
    BY <1>1 DEF KeyEntry, Entry, Status
  <2> HIDE DEF Revoked
  <2>4. \A u \in batch : u \in KeyEntry /\ u.status = "revoked"
    BY <2>1, <2>3
  <2>5. s = Merged(reg, batch)
    BY <2>2 DEF UpdateKeys
  <2>6. ASSUME NEW x \in s, IsActive(x)
        PROVE  x \in reg
    <3>1. \/ x \in reg
          \/ x \in {mergeKeyEntry(q[1], q[2]) : q \in {q \in reg \X batch : SameKey(q[1], q[2])}}
      BY <2>5, <2>6 DEF Merged
    <3>2. ASSUME NEW q \in reg \X batch, x = mergeKeyEntry(q[1], q[2])
          PROVE  FALSE
      <4>1. q[1] \in KeyEntry /\ q[2] \in KeyEntry /\ q[2].status \in {"archived", "revoked"}
        BY <1>1, <2>4 DEF Ring
      <4>2. QED
        BY <1>2, <2>6, <3>2, <4>1
    <3>3. QED
      BY <3>1, <3>2
  <2>7. QED
    BY <2>6
<1>5. QED
  BY <1>3, <1>4 DEF Retiring

(* A rotation replaces the primary by a new key that comes from it.        *)
LEMMA TurnIs ==
  ASSUME Base, Rooted(reg), NEW p \in Operator, op[p].pc \in Working, op[p].kind \in Turning,
         NEW s \in Requested(p)
  PROVE  /\ Rooted(s) /\ PrimaryFps(s) = {op[p].new} /\ op[p].new \notin FpsOf(reg)
         /\ FpsOf(op[p].out) \cap PrimaryFps(reg) # {}
         /\ SuccessorsIn(reg) = {} => \A x \in SuccessorsIn(s) : x.fp = op[p].new
<1>1. /\ op[p].out \subseteq KeyEntry /\ Ring(reg) /\ Shape(op[p])
  BY OpIs DEF Operation, Base, Typed
<1>2. s \in UNION {replacePrimary(reg, e.fp, AgeEntry(op[p].new, e.fp, TRUE), FALSE)
                     : e \in op[p].out}
  BY DEF Requested, Turning
<1>3. PICK e \in op[p].out :
        s \in replacePrimary(reg, e.fp, AgeEntry(op[p].new, e.fp, TRUE), FALSE)
  BY <1>2
<1>4. PICK n : n = AgeEntry(op[p].new, e.fp, TRUE)
  OBVIOUS
<1>5. op[p].new \in Fingerprint \ FpsOf(op[p].out) /\ e.fp \in FpsOf(op[p].out)
      /\ e \in KeyEntry
  BY <1>1 DEF Shape, FpsOf
<1>6. /\ n \in KeyEntry /\ IsActive(n) /\ n.fp = op[p].new /\ n.from = e.fp /\ n.primary
  BY <1>4, <1>5, LifecycleConstants
     DEF AgeEntry, KeyEntry, Entry, IsActive, KeyType, Status
<1>7. s \in Replaced(reg, e.fp, n)
  BY <1>3, <1>4 DEF Replaced
<1>8. /\ Ring(s) /\ n.fp \notin FpsOf(reg)
      /\ FpsOf(s) = FpsOf(reg) \cup {n.fp} /\ ActiveAge(s) = ActiveAge(reg) \cup {n.fp}
  <2>1. Ring(reg) /\ n \in KeyEntry /\ IsActive(n)
    BY <1>1, <1>6
  <2>2. QED
    BY <1>7, <2>1, ReplaceAdds
<1>9. PICK old \in reg : old.fp = e.fp /\ IsPrimary(old)
  BY <1>7 DEF Replaced, replacePrimary
<1> DEFINE new      == [n EXCEPT !.primary = TRUE]
           Aged(x) == [x EXCEPT !.primary = FALSE,
                                !.status = IF FALSE /\ x.fp = e.fp THEN "archived" ELSE @]
<1>10. s = {Aged(x) : x \in reg} \cup {new}
  <2>1. s = {IF SameGroup(x, n) THEN Aged(x) ELSE x : x \in reg} \cup {new}
    BY <1>7 DEF Replaced, replacePrimary, Demoted
  <2>2. \A x \in reg : SameGroup(x, n)
    BY <1>1, <1>6, KeysByFp DEF Ring
  <2>3. QED
    BY <2>1, <2>2
<1>11. \A x \in reg : /\ Aged(x).fp = x.fp /\ Aged(x).from = x.from
                      /\ IsActive(Aged(x)) <=> IsActive(x)
                      /\ ~IsPrimary(Aged(x))
  BY <1>1 DEF Ring, KeyEntry, Entry, IsActive, IsPrimary
<1>12. new.fp = n.fp /\ new.from = e.fp /\ IsPrimary(new) /\ IsActive(new)
  BY <1>6 DEF KeyEntry, Entry, IsActive, IsPrimary
<1> HIDE DEF Aged, new
<1>13. Rooted(s)
  <2>1. e.fp \in FpsOf(s)
    BY <1>8, <1>9, FpsAre
  <2>2. \A x \in reg : IsActive(x) => x.from \in FpsOf(s) \cup {NoKey}
    BY <1>8 DEF Rooted
  <2>3. QED
    BY <1>10, <1>11, <1>12, <2>1, <2>2 DEF Rooted
<1>14. PrimaryFps(s) = {op[p].new}
  <2>1. \A k : k \in PrimaryFps(s) <=> k = n.fp
    BY <1>10, <1>11, <1>12, PrimaryAre
  <2>2. QED
    BY <1>6, <2>1
<1>15. FpsOf(op[p].out) \cap PrimaryFps(reg) # {}
  BY <1>5, <1>9, PrimaryAre
<1>16. ASSUME SuccessorsIn(reg) = {}, NEW x \in SuccessorsIn(s), x.fp # op[p].new
       PROVE  FALSE
  <2>1. PICK y \in reg : x = Aged(y)
    BY <1>6, <1>10, <1>12, <1>16 DEF SuccessorsIn
  <2>2. IsActive(y) /\ x.from = y.from
    BY <1>11, <1>16, <2>1 DEF SuccessorsIn
  <2>3. PICK z \in s : IsActive(z) /\ z.fp = x.from
    BY <1>16 DEF SuccessorsIn
  <2>4. x.from \in FpsOf(reg)
    <3>1. x.from \in FpsOf(reg) \cup {NoKey}
      BY <2>2 DEF Rooted
    <3>2. z.fp \in Fingerprint
      BY <1>8 DEF Ring, KeyEntry, Entry
    <3>3. QED
      BY <2>3, <3>1, <3>2, NoKeyIsNoFingerprint
  <2>5. PICK w \in reg : z = Aged(w)
    BY <1>8, <1>10, <1>12, <2>3, <2>4
  <2>6. IsActive(w) /\ w.fp = y.from
    BY <1>11, <2>2, <2>3, <2>5
  <2>7. y \in SuccessorsIn(reg)
    BY <2>2, <2>6 DEF SuccessorsIn
  <2>8. QED
    BY <1>16, <2>7
<1>17. QED
  BY <1>6, <1>8, <1>13, <1>14, <1>15, <1>16

(* No operator crowns a key besides a rotation: by hand or by reconciling. *)
NobodyCrowns == \A p \in Operator : Begins[p] \cap {"reconcile", "set-primary"} = {}

(* Without reconciliations only commits change the registry.               *)
LEMMA OnlyCommitTurns ==
  ASSUME Base, NobodyCrowns, NEW p \in Operator, op[p].pc \notin Reconciling, Step(p)
  PROVE  (Commit(p) \/ UNCHANGED reg) /\ op'[p].pc \notin Reconciling
<1>1. /\ ~ReconcileCompare(p) /\ ~ReconcileList(p) /\ ~ReconcileImport(p) /\ ~ReconcileSelect(p)
      /\ ~SetPrimary(p)
  BY DEF ReconcileCompare, ReconcileList, ReconcileImport, ReconcileSelect, SetPrimary, At,
         Reconciling, NobodyCrowns
<1>2. CASE Begin(p)
  <2>1. op'[p].pc \in {"primary", "list"}
    BY <1>2, BeginEffect DEF NobodyCrowns
  <2>2. QED
    BY <1>2, <2>1 DEF Begin, Reconciling
<1>3. CASE Refuse(p) \/ Crash(p)
  BY <1>3, EndEffect, IdleIs DEF Reconciling
<1>4. CASE GetPrimaryKey(p)
  BY <1>4, GetPrimaryKeyEffect DEF Reconciling
<1>5. CASE GetRotationStatus(p)
  BY <1>5, GetRotationStatusEffect DEF Reconciling
<1>6. CASE generateAgeKey(p)
  BY <1>6, generateAgeKeyEffect DEF Reconciling
<1>7. CASE ListKeys(p)
  BY <1>7, ListKeysEffect DEF Reconciling
<1>8. CASE checkRegistryDrift(p)
  BY <1>8, checkRegistryDriftEffect DEF Reconciling
<1>9. CASE Commit(p)
  BY <1>9, CommitEffect, IdleIs DEF Reconciling
<1>10. CASE Rollback(p)
  BY <1>10, RollbackEffect, IdleIs DEF Reconciling
<1>11. CASE \/ BackupConfig(p) \/ BackupManifest(p) \/ ReadConfig(p) \/ WriteConfig(p)
            \/ activeRecipientSet(p) \/ EditFails(p) \/ CommitFails(p) \/ ReencryptManifest(p)
  <2>1. op'[p].pc \in Editing
    BY <1>11, BackupConfigEffect, BackupManifestEffect, ReadConfigEffect, WriteConfigEffect,
       activeRecipientSetEffect, FailureEffect, ReencryptManifestEffect DEF Editing
  <2>2. UNCHANGED reg
    BY <1>11, BackupConfigEffect, BackupManifestEffect, ReadConfigEffect, WriteConfigEffect,
       activeRecipientSetEffect, FailureEffect, ReencryptManifestEffect
  <2>3. QED
    BY <2>1, <2>2 DEF Editing, Reconciling
<1>12. CASE Tears(p)
  BY <1>12, TearsEffect, IdleIs DEF Reconciling
<1>13. QED
  BY <1>1, <1>2, <1>3, <1>4, <1>5, <1>6, <1>7, <1>8, <1>9, <1>10, <1>11, <1>12 DEF Step, Tears

(* A rotation that has looked found no rotation in progress, or looked     *)
(* before.                                                                 *)
LEMMA LookedStep ==
  ASSUME Base, NEW p \in Operator, op[p].pc \notin Reconciling, Step(p),
         op'[p].pc \in {"generate"} \cup Working, op'[p].kind \in Turning
  PROVE  \/ SuccessorsIn(reg) = {}
         \/ /\ op[p].pc \in {"generate"} \cup Working /\ op[p].kind \in Turning
            /\ op'[p].out = op[p].out
<1>1. CASE op[p].pc \in Working /\ op'[p].pc \in Working
  BY <1>1, Works DEF SameTask
<1>2. CASE GetRotationStatus(p)
  <2>1. op[p].kind \in Turning
    BY <1>2, GetRotationStatusEffect
  <2>2. Successors = {}
    BY <1>2, <2>1, GetRotationStatusEffect DEF Turning
  <2>3. QED
    BY <2>2 DEF Successors, SuccessorsIn
<1>3. CASE generateAgeKey(p)
  BY <1>3, generateAgeKeyEffect
<1>4. CASE checkRegistryDrift(p)
  BY <1>4, checkRegistryDriftEffect DEF SameTask, Turning, Revoking
<1>5. CASE Begin(p)
  BY <1>5, BeginEffect DEF Working, Editing
<1>6. CASE Refuse(p) \/ Crash(p)
  BY <1>6, EndEffect, IdleIs DEF Working, Editing
<1>7. CASE GetPrimaryKey(p)
  BY <1>7, GetPrimaryKeyEffect DEF Working, Editing
<1>8. CASE ListKeys(p)
  BY <1>8, ListKeysEffect DEF Working, Editing
<1>9. CASE SetPrimary(p)
  <2>1. op'[p] = op[p] /\ op[p].pc = "idle"
    BY <1>9, SetPrimaryEffect DEF SetPrimary, At
  <2>2. QED
    BY <2>1 DEF Working, Editing
<1>10. CASE Commit(p)
  BY <1>10, CommitTurns, CommitEffect, IdleIs DEF Working, Editing
<1>11. CASE Rollback(p)
  <2>1. op'[p] # Idle
    BY IdleIs DEF Working, Editing
  <2>2. op[p].pc = "undo" /\ op'[p].pc = "undo"
    BY <1>11, <2>1, RollbackEffect
  <2>3. QED
    BY <1>1, <2>2 DEF Working, Editing
<1>12. CASE \/ BackupConfig(p) \/ BackupManifest(p) \/ ReadConfig(p) \/ WriteConfig(p)
            \/ activeRecipientSet(p) \/ EditFails(p) \/ CommitFails(p) \/ ReencryptManifest(p)
  <2>1. op[p].pc \in {"backup"} \cup Editing /\ op'[p].pc \in Editing
    BY <1>12, BackupConfigEffect, BackupManifestEffect, ReadConfigEffect, WriteConfigEffect,
       activeRecipientSetEffect, FailureEffect, ReencryptManifestEffect DEF Editing
  <2>2. QED
    BY <1>1, <2>1 DEF Working
<1>13. /\ ~ReconcileCompare(p) /\ ~ReconcileList(p) /\ ~ReconcileImport(p) /\ ~ReconcileSelect(p)
  BY DEF ReconcileCompare, ReconcileList, ReconcileImport, ReconcileSelect, At, Reconciling
<1>14. CASE Tears(p)
  <2>1. op'[p] # Idle
    BY IdleIs DEF Working, Editing
  <2>2. op[p].pc \in {"write", "undo"} /\ op'[p].pc = "undo"
    BY <1>14, <2>1, TearsEffect
  <2>3. QED
    BY <1>1, <2>2 DEF Working, Editing
<1>15. QED
  BY <1>2, <1>3, <1>4, <1>5, <1>6, <1>7, <1>8, <1>9, <1>10, <1>11, <1>12, <1>13, <1>14
     DEF Step, Tears

(* Every step of the system keeps the chain.                               *)
LEMMA NextChain == NobodyCrowns /\ Base /\ Chain /\ [Next]_vars => Chain'
<1> SUFFICES ASSUME NobodyCrowns, Base, Chain, [Next]_vars PROVE Chain'
  OBVIOUS
<1>1. Ring(reg) /\ Base'
  BY NextBase DEF Base, Typed
<1>2. ASSUME NEW p \in Operator, Step(p)
      PROVE  Chain'
  <2>1. /\ op[p].pc \notin Reconciling /\ op'[p].pc \notin Reconciling
        /\ Commit(p) \/ UNCHANGED reg
        /\ \A q \in Operator : q # p => op'[q] = op[q]
    BY <1>2, OnlyCommitTurns, StepActs DEF Chain, Acts
  <2>2. \A q \in Operator : op'[q].pc \notin Reconciling
    BY <2>1 DEF Chain
  <2>3. CASE UNCHANGED reg
    <3>1. Unrivalled(p)'
      <4> SUFFICES ASSUME op'[p].pc \in {"generate"} \cup Working, op'[p].kind \in Turning,
                          FpsOf(op'[p].out) \cap PrimaryFps(reg) # {}
                   PROVE  SuccessorsIn(reg) = {}
        BY <2>3 DEF Unrivalled
      <4>1. QED
        BY <1>2, <2>1, LookedStep DEF Chain, Unrivalled
    <3>2. \A q \in Operator : Unrivalled(q)'
      BY <2>1, <2>3, <3>1 DEF Chain, Unrivalled
    <3>3. QED
      BY <2>2, <2>3, <3>2 DEF Chain
  <2>4. CASE Commit(p)
    <3>1. /\ op[p].pc \in Working /\ op[p].kind \in Turning \cup Retiring
          /\ reg' \in Requested(p) /\ op'[p].pc \notin Working \cup {"generate"}
      BY <2>4, OpIs, CommitEffect, IdleIs DEF Working, Editing, Shape
    <3>2. Unrivalled(p)'
      BY <3>1 DEF Unrivalled
    <3>3. CASE op[p].kind \in Turning
      <4>1. /\ Rooted(reg') /\ PrimaryFps(reg') = {op[p].new} /\ op[p].new \notin FpsOf(reg)
            /\ FpsOf(op[p].out) \cap PrimaryFps(reg) # {}
            /\ SuccessorsIn(reg) = {} => \A x \in SuccessorsIn(reg') : x.fp = op[p].new
        BY <3>1, <3>3, TurnIs DEF Chain
      <4>2. \A x \in SuccessorsIn(reg') : x.fp = op[p].new
        BY <3>1, <3>3, <4>1 DEF Chain, Unrivalled
      <4>3. \A x, y \in SuccessorsIn(reg') : x = y
        BY <1>1, <4>2 DEF Base, Typed, Ring, SuccessorsIn
      <4>4. ASSUME NEW q \in Operator, q # p
            PROVE  Unrivalled(q)'
        <5>1. FpsOf(op'[q].out) \subseteq FpsOf(reg)
          BY <2>1, <4>4 DEF Base, Known
        <5>2. FpsOf(op'[q].out) \cap PrimaryFps(reg') = {}
          BY <4>1, <5>1
        <5>3. QED
          BY <5>2 DEF Unrivalled
      <4>5. QED
        BY <2>2, <3>2, <4>1, <4>3, <4>4 DEF Chain
    <3>4. CASE op[p].kind \in Retiring
      <4>1. \A x \in reg' : IsActive(x) => x \in reg
        BY <3>1, <3>4, RetiredOnly
      <4>2. FpsOf(reg) \subseteq FpsOf(reg')
        BY <2>4, CommitTurns
      <4>3. /\ Rooted(reg') /\ PrimaryFps(reg') \subseteq PrimaryFps(reg)
            /\ SuccessorsIn(reg') \subseteq SuccessorsIn(reg)
        BY <1>1, <4>1, <4>2, RetiringShrinks DEF Chain
      <4>4. \A q \in Operator : Unrivalled(q)'
        BY <2>1, <3>2, <4>3 DEF Chain, Unrivalled
      <4>5. QED
        BY <2>2, <4>3, <4>4 DEF Chain
    <3>5. QED
      BY <3>1, <3>3, <3>4
  <2>5. QED
    BY <2>1, <2>3, <2>4
<1>3. CASE EditConfig
  BY <1>3, EditConfigEffect DEF Chain, Unrivalled
<1>4. CASE UNCHANGED vars
  BY <1>4 DEF vars, Chain, Unrivalled
<1>5. QED
  BY <1>2, <1>3, <1>4 DEF Next

(* One rotation at a time: however rotations, completions, revocations and *)
(* emergencies of any number of operators interleave, the registry never   *)
(* shows two rotations in progress, as long as nobody crowns a key besides *)
(* them.                                                                   *)
THEOREM RotationsAreAlone ==
  ASSUME NobodyCrowns
  PROVE  Spec => []OneRotation
<1>1. Init => Base /\ Chain
  <2> SUFFICES ASSUME Init PROVE Chain
    BY InitBase
  <2>1. reg = {AgeEntry(k, NoKey, k = Primary0) : k \in Recipients(RuleKeys)}
        /\ \A p \in Operator : op[p].pc = "idle"
    BY IdleIs DEF Init
  <2>2. \A x \in reg : x.from = NoKey /\ x.fp # NoKey
    BY <2>1, InitRing, NoKeyIsNoFingerprint DEF AgeEntry, Ring, KeyEntry, Entry
  <2>3. Rooted(reg) /\ SuccessorsIn(reg) = {}
    BY <2>2 DEF Rooted, SuccessorsIn
  <2>4. QED
    BY <2>1, <2>3 DEF Chain, Unrivalled, Reconciling
<1>2. Base /\ Chain /\ [Next]_vars => (Base /\ Chain)'
  BY NextBase, NextChain
<1>3. Base /\ Chain => OneRotation
  <2> SUFFICES ASSUME Chain PROVE OneRotation
    OBVIOUS
  <2>1. Successors = {} \/ \E x : Successors = {x}
    BY DEF Chain, Successors, SuccessorsIn
  <2>2. Cardinality(Successors) \in {0, 1}
    BY <2>1, FS_EmptySet, FS_Singleton
  <2>3. QED
    BY <2>2 DEF OneRotation
<1>4. QED
  BY <1>1, <1>2, <1>3, PTL DEF Spec

===============================================================================
