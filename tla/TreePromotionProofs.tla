-------------------------- MODULE TreePromotionProofs --------------------------
(***************************************************************************)
(* For any finite set of files, any contents, and any number of edits,     *)
(* failures and crashes, the promotion of a generated tree keeps what      *)
(* people wrote and is atomic.                                             *)
(*                                                                         *)
(* What a plan must be is said by Sound: each path is changed once, all    *)
(* that is planned is changed, what people wrote is backed up before it is *)
(* replaced, the ledgers will say what the files are, and they come last.  *)
(* PlanIsSound shows it of planRepositoryPromotion, and what follows uses  *)
(* nothing else of a plan.  The inductive invariant then says where        *)
(* applyGeneratedTreePlan stands: a preimage is what the scan saw (Ready   *)
(* and Captive), what is passed is as planned and the rest as it was       *)
(* (Forward), and what people wrote is safe without the backups that a     *)
(* rollback would take away (Saved).                                       *)
(***************************************************************************)
EXTENDS TreePromotion, FiniteSetTheorems, TLAPS

-----------------------------------------------------------------------------
(* A sequence that lists the elements of a set, each once.                 *)
Lists(s, X) ==
  /\ s \in Seq(X)
  /\ \A x \in X : \E i \in 1..Len(s) : s[i] = x
  /\ \A i, j \in 1..Len(s) : s[i] = s[j] => i = j

(* SetToSeq lists a finite set.                                            *)
LEMMA SetIsListed ==
  ASSUME NEW S, IsFiniteSet(S)
  PROVE  Lists(SetToSeq(S), S)
<1> DEFINE n == Cardinality(S)
<1>1. n \in Nat /\ ExistsBijection(1..n, S)
  BY FS_CardinalityType
<1>2. SetToSeq(S) \in [1..n -> S] /\ IsInjective(SetToSeq(S))
  BY <1>1 DEF SetToSeq, ExistsBijection, Bijection, Injection
<1>3. SetToSeq(S) \in Injection(1..n, S)
  BY <1>2 DEF Injection
<1>4. Cardinality(1..n) = n
  BY <1>1, FS_Interval
<1>5. SetToSeq(S) \in Surjection(1..n, S)
  BY <1>3, <1>4, FS_Injection
<1> HIDE DEF n
<1>6. SetToSeq(S) \in Seq(S) /\ Len(SetToSeq(S)) = n
  BY <1>1, <1>2
<1>7. QED
  BY <1>2, <1>5, <1>6 DEF Lists, IsInjective, Surjection

(* Written as an operator, lest the prover looks inside.                   *)
Join(s, t) == s \o t

Joined(X, Y, s, t, u) ==
  /\ Lists(u, X \cup Y)
  /\ Len(s) \in Nat /\ Len(t) \in Nat /\ Len(u) = Len(s) + Len(t)
  /\ \A i \in 1..Len(s) : u[i] = s[i]
  /\ \A i \in 1..Len(t) : u[Len(s) + i] = t[i]
  /\ \A i, j \in 1..Len(u) : u[i] \in X /\ u[j] \in Y => i < j

(* One list after another: what is in the first comes before what is in    *)
(* the second.                                                             *)
LEMMA ListsJoin ==
  ASSUME NEW X, NEW Y, X \cap Y = {}, NEW s, Lists(s, X), NEW t, Lists(t, Y), NEW u, u = Join(s, t)
  PROVE  Joined(X, Y, s, t, u)
<1>1. /\ Len(s) \in Nat /\ Len(t) \in Nat /\ s \in Seq(X) /\ t \in Seq(Y)
      /\ s \in Seq(X \cup Y) /\ t \in Seq(X \cup Y)
  BY DEF Lists
<1>. u = s \o t
  BY DEF Join
<1>2. u \in Seq(X \cup Y) /\ Len(u) = Len(s) + Len(t) /\ Len(u) \in Nat
  BY <1>1
<1>3. \A i \in 1..Len(s) : u[i] = s[i] /\ s[i] \in X
  BY <1>1
<1>4. \A i \in (Len(s) + 1)..Len(u) : u[i] = t[i - Len(s)] /\ i - Len(s) \in 1..Len(t)
  BY <1>1, <1>2
<1>5. \A i \in (Len(s) + 1)..Len(u) : u[i] \in Y
  BY <1>1, <1>4
<1>6. ASSUME NEW i \in 1..Len(u)
      PROVE  \/ i \in 1..Len(s) /\ u[i] \in X /\ u[i] \notin Y
             \/ i \in (Len(s) + 1)..Len(u) /\ u[i] \in Y /\ u[i] \notin X
  BY <1>1, <1>2, <1>3, <1>5
<1>7. \A i, j \in 1..Len(u) : u[i] = u[j] => i = j
  <2> SUFFICES ASSUME NEW i \in 1..Len(u), NEW j \in 1..Len(u), u[i] = u[j] PROVE i = j
    OBVIOUS
  <2>1. CASE i \in 1..Len(s) /\ j \in 1..Len(s)
    BY <1>3, <2>1 DEF Lists
  <2>2. CASE i \in (Len(s) + 1)..Len(u) /\ j \in (Len(s) + 1)..Len(u)
    <3>1. PICK a \in 1..Len(t) : a = i - Len(s) /\ u[i] = t[a]
      BY <1>4, <2>2
    <3>2. PICK b \in 1..Len(t) : b = j - Len(s) /\ u[j] = t[b]
      BY <1>4, <2>2
    <3>3. a = b
      BY <3>1, <3>2 DEF Lists
    <3>4. QED
      BY <3>1, <3>2, <3>3, <1>1, <1>2
  <2>3. QED
    BY <1>6, <2>1, <2>2
<1>8. ASSUME NEW x \in X \cup Y PROVE \E i \in 1..Len(u) : u[i] = x
  <2>1. CASE x \in X
    <3>1. PICK i \in 1..Len(s) : s[i] = x
      BY <2>1 DEF Lists
    <3>2. QED
      BY <3>1, <1>1, <1>2, <1>3
  <2>2. CASE x \in Y
    <3>1. PICK i \in 1..Len(t) : t[i] = x
      BY <2>2 DEF Lists
    <3>2. /\ i + Len(s) \in (Len(s) + 1)..Len(u) /\ (i + Len(s)) - Len(s) = i
          /\ i + Len(s) \in 1..Len(u)
      BY <1>1, <1>2
    <3>3. u[i + Len(s)] = x
      BY <3>1, <3>2, <1>4
    <3>4. QED
      BY <3>2, <3>3
  <2>3. QED
    BY <2>1, <2>2
<1>9. \A i, j \in 1..Len(u) : u[i] \in X /\ u[j] \in Y => i < j
  BY <1>1, <1>2, <1>6
<1>10. \A i \in 1..Len(t) : u[Len(s) + i] = t[i]
  BY <1>1
<1>11. QED
  BY <1>1, <1>2, <1>3, <1>7, <1>8, <1>9, <1>10 DEF Lists, Joined

Apart(D, B, W, S, L) ==
  /\ D \cap B = {} /\ (D \cup B) \cap W = {} /\ (D \cup B \cup W) \cap S = {}
  /\ (D \cup B \cup W \cup S) \cap L = {}

InRow(u, D, B, W, S, L, l) ==
  /\ Lists(u, D \cup B \cup W \cup S \cup L)
  /\ Len(u) \in Nat \ {0} /\ u[Len(u)] = l[Len(l)]
  /\ \A i, j \in 1..Len(u) : u[i] \in B /\ u[j] \in W \cup S => i < j

(* Five lists in a row: what is in the second comes before what is in the  *)
(* third and fourth, and what is last in the fifth is last.                *)
LEMMA FiveLists ==
  ASSUME NEW D, NEW B, NEW W, NEW S, NEW L, Apart(D, B, W, S, L),
         NEW d, Lists(d, D), NEW b, Lists(b, B), NEW w, Lists(w, W), NEW s, Lists(s, S),
         NEW l, Lists(l, L), Len(l) # 0
  PROVE  InRow(Join(Join(Join(Join(d, b), w), s), l), D, B, W, S, L, l)
<1>. SUFFICES ASSUME NEW u, u = Join(Join(Join(Join(d, b), w), s), l)
     PROVE  /\ Lists(u, D \cup B \cup W \cup S \cup L)
            /\ Len(u) \in Nat \ {0} /\ u[Len(u)] = l[Len(l)]
            /\ \A i, j \in 1..Len(u) : u[i] \in B /\ u[j] \in W \cup S => i < j
  BY DEF InRow
<1>. /\ D \cap B = {} /\ (D \cup B) \cap W = {} /\ (D \cup B \cup W) \cap S = {}
     /\ (D \cup B \cup W \cup S) \cap L = {}
  BY DEF Apart
<1>1. PICK c : c = Join(d, b)
  OBVIOUS
<1>2. PICK e : e = Join(c, w)
  OBVIOUS
<1>3. PICK g : g = Join(e, s)
  OBVIOUS
<1>4. u = Join(g, l)
  BY <1>1, <1>2, <1>3
<1>5. Joined(D, B, d, b, c)
  BY <1>1, ListsJoin
<1>6. Joined(D \cup B, W, c, w, e)
  <2>1. Lists(c, D \cup B)
    BY <1>5 DEF Joined
  <2>2. QED
    BY <2>1, <1>2, ListsJoin
<1>7. Joined(D \cup B \cup W, S, e, s, g)
  <2>1. Lists(e, D \cup B \cup W)
    BY <1>6 DEF Joined
  <2>2. QED
    BY <2>1, <1>3, ListsJoin
<1>8. Joined(D \cup B \cup W \cup S, L, g, l, u)
  <2>1. Lists(g, D \cup B \cup W \cup S)
    BY <1>7 DEF Joined
  <2>2. QED
    BY <2>1, <1>4, ListsJoin
<1>a. /\ Lists(e, D \cup B \cup W) /\ Lists(g, D \cup B \cup W \cup S)
      /\ Lists(u, D \cup B \cup W \cup S \cup L)
      /\ Len(e) \in Nat /\ Len(s) \in Nat /\ Len(l) \in Nat
      /\ Len(g) = Len(e) + Len(s) /\ Len(u) = Len(g) + Len(l)
  BY <1>6, <1>7, <1>8 DEF Joined
<1>b. /\ \A i \in 1..Len(e) : g[i] = e[i]
      /\ \A i \in 1..Len(g) : u[i] = g[i]
      /\ \A i \in 1..Len(l) : u[Len(g) + i] = l[i]
  BY <1>7, <1>8 DEF Joined
<1>c. /\ \A i, j \in 1..Len(e) : e[i] \in D \cup B /\ e[j] \in W => i < j
      /\ \A i, j \in 1..Len(g) : g[i] \in D \cup B \cup W /\ g[j] \in S => i < j
  BY <1>6, <1>7 DEF Joined
<1>9. \A o \in D \cup B \cup W : \E i \in 1..Len(e) : u[i] = o
  <2>1. \A o \in D \cup B \cup W : \E i \in 1..Len(e) : e[i] = o
    BY <1>a DEF Lists
  <2>2. \A i \in 1..Len(e) : i \in 1..Len(g)
    BY <1>a
  <2>3. QED
    BY <2>1, <2>2, <1>b
<1>10. \A o \in S : \E i \in 1..Len(g) : u[i] = o
  <2>1. \A o \in S : \E i \in 1..Len(g) : g[i] = o
    BY <1>a DEF Lists
  <2>2. QED
    BY <2>1, <1>b
<1>11. \A i, j \in 1..Len(u) : u[i] = u[j] => i = j
  BY <1>a DEF Lists
<1>12. ASSUME NEW i \in 1..Len(u), NEW j \in 1..Len(u), u[i] \in B, u[j] \in W \cup S
       PROVE  i < j
  <2>1. i \in 1..Len(e)
    <3>1. PICK x \in 1..Len(e) : u[x] = u[i]
      BY <1>9, <1>12
    <3>2. QED
      BY <1>a, <1>11, <3>1
  <2>2. CASE u[j] \in W
    <3>1. PICK x \in 1..Len(e) : u[x] = u[j]
      BY <1>9, <2>2
    <3>2. j \in 1..Len(e)
      BY <1>a, <1>11, <3>1
    <3>3. u[i] = e[i] /\ u[j] = e[j]
      BY <1>a, <1>b, <2>1, <3>2
    <3>4. QED
      BY <1>c, <1>12, <2>1, <2>2, <3>2, <3>3
  <2>3. CASE u[j] \in S
    <3>1. PICK x \in 1..Len(g) : u[x] = u[j]
      BY <1>10, <2>3
    <3>2. j \in 1..Len(g) /\ i \in 1..Len(g)
      BY <1>a, <1>11, <2>1, <3>1
    <3>3. u[i] = g[i] /\ u[j] = g[j]
      BY <1>b, <3>2
    <3>4. QED
      BY <1>c, <1>12, <2>3, <3>2, <3>3
  <2>4. QED
    BY <1>12, <2>2, <2>3
<1>13. Len(l) \in 1..Len(l) /\ Len(g) + Len(l) = Len(u) /\ Len(u) # 0
  BY <1>a
<1>14. QED
  BY <1>a, <1>b, <1>12, <1>13

(* The operations of one kind on a set of paths.                           *)
Each(kind, X) == {Op(kind, x) : x \in X}

(* They are of that kind, one for each path.                               *)
LEMMA EachIs ==
  ASSUME NEW kind, NEW X
  PROVE  /\ \A o \in Each(kind, X) : o.kind = kind /\ o.on \in X
         /\ \A x \in X : \E o \in Each(kind, X) : o.kind = kind /\ o.on = x
<1>1. \A o \in Each(kind, X) : o.kind = kind /\ o.on \in X
  BY DEF Each, Op
<1>2. ASSUME NEW x \in X
      PROVE  \E o \in Each(kind, X) : o.kind = kind /\ o.on = x
  <2>1. PICK o : o = [kind |-> kind, on |-> x]
    OBVIOUS
  <2>2. o \in Each(kind, X)
    BY <2>1 DEF Each, Op
  <2>3. QED
    BY <2>1, <2>2
<1>3. QED
  BY <1>1, <1>2

(* They are listed when there are finitely many.                           *)
LEMMA AllAreListed ==
  ASSUME NEW kind, NEW X, IsFiniteSet(X)
  PROVE  Lists(All(kind, X), Each(kind, X))
<1> DEFINE Y == Each(kind, X)
           f == [x \in X |-> Op(kind, x)]
<1>1. f \in Surjection(X, Y)
  BY DEF Surjection, Each
<1>2. IsFiniteSet(Y)
  BY <1>1, FS_Surjection
<1>3. QED
  BY <1>2, SetIsListed DEF All, Each

-----------------------------------------------------------------------------
(* What there is at each path, and what a promotion holds in each phase.   *)

Value   == Content \cup User \cup {Missing}
Records == [Generated -> Content \cup {NoRecord, "boot"}]
Trees   == {d \in [Path -> Value \cup Records] :
              (\A f \in File : d[f] \in Value) /\ \A l \in Ledger : d[l] \in Records}
Backups == SUBSET (File \X (Content \cup User))

Operation == [kind : {"delete", "backup", "write", "ledger"}, on : Path]

Staging ==
  [pc : {"plan"}, staged : UNION {[D -> Content] : D \in SUBSET Generated},
   adopt : BOOLEAN, prune : BOOLEAN]

Planning ==
  [pc : {"preimages"}, seen : Trees, to : Trees, ops : Seq(Operation),
   planned : SUBSET Generated, pruned : SUBSET Generated]

Applying ==
  [pc : {"verify", "operate", "undo"}, k : Nat, ops : Seq(Operation), to : Trees,
   planned : SUBSET Generated, pruned : SUBSET Generated, seen : Trees, kept : Backups,
   pre : Trees]

Typed ==
  /\ disk \in Trees /\ kept \in Backups
  /\ p \in {Idle} \cup Staging \cup Planning \cup Applying
  /\ mine \in [File -> User \cup {Nothing}]
  /\ exposed \subseteq File /\ unrestored \subseteq File /\ void \subseteq File

(* The ledger of a file is a ledger, and no file is one.                   *)
LEMMA LedgersAre ==
  /\ \A f : LedgerOf(f) \in Ledger
  /\ File \cap Ledger = {} /\ Generated \subseteq File /\ Seed \subseteq File
  /\ Seed \cap Generated = {} /\ File \subseteq Path /\ Ledger \subseteq Path
BY PromotionConstants DEF LedgerOf, Ledger, Generated, Path

(* The paths of a stage are some of the generated ones.                    *)
LEMMA StageIs ==
  ASSUME p \in Staging
  PROVE  /\ Planned \subseteq Generated /\ p.pc = "plan"
         /\ \A f \in Planned : p.staged[f] \in Content
         /\ Deletes \subseteq Generated \ Planned
         /\ Writes \subseteq Planned /\ Seeds \subseteq Seed
BY DEF Staging, Planned, Deletes, Pruned, Writes, Seeds

(* The files that the plan adopts.                                         *)
Adopted == {f \in Planned : Adopts(f)}

(* What the operations of a plan are, and in which order.                  *)
Ordered(s) ==
  /\ Len(s) \in Nat \ {0}
  /\ \A i \in 1..Len(s) : i = Len(s) => s[i].kind = "ledger" /\ s[i].on = "global ledger"
  /\ \A i \in 1..Len(s) :
       \/ s[i].kind = "delete" /\ s[i].on \in Deletes
       \/ s[i].kind = "backup" /\ s[i].on \in Adopted
       \/ s[i].kind = "write" /\ s[i].on \in Writes \cup Seeds
       \/ s[i].kind = "ledger" /\ s[i].on \in Ledger
  /\ \A f \in Deletes : \E i \in 1..Len(s) : s[i].kind = "delete" /\ s[i].on = f
  /\ \A f \in Adopted : \E i \in 1..Len(s) : s[i].kind = "backup" /\ s[i].on = f
  /\ \A f \in Writes \cup Seeds : \E i \in 1..Len(s) : s[i].kind = "write" /\ s[i].on = f
  /\ \A l \in Ledger : \E i \in 1..Len(s) : s[i].kind = "ledger" /\ s[i].on = l
  /\ \A i, j \in 1..Len(s) : s[i].kind = s[j].kind /\ s[i].on = s[j].on => i = j
  /\ \A i, j \in 1..Len(s) : s[i].kind = "backup" /\ s[j].kind = "write" => i < j

(* Backups come before writes, and the ledgers last.                       *)
LEMMA OperationsAre ==
  ASSUME p \in Staging, NEW s, s = Operations
  PROVE  s \in Seq(Operation) /\ Ordered(s)
<1>1. PICK D, B, W, S, L :
        /\ D = Each("delete", Deletes) /\ B = Each("backup", Adopted)
        /\ W = Each("write", Writes) /\ S = Each("write", Seeds) /\ L = Each("ledger", Ledger)
  OBVIOUS
<1>2. PICK d, b, w, c, l :
        /\ d = All("delete", Deletes) /\ b = All("backup", Adopted)
        /\ w = All("write", Writes) /\ c = All("write", Seeds)
        /\ l = <<Op("ledger", "cluster ledger"), Op("ledger", "global ledger")>>
  OBVIOUS
<1>3. /\ Lists(d, D) /\ Lists(b, B) /\ Lists(w, W) /\ Lists(c, S)
      /\ Lists(l, L) /\ Len(l) # 0
  <2>1. \A X : X \subseteq File => IsFiniteSet(X)
    BY PromotionConstants, FS_Subset
  <2>2. /\ IsFiniteSet(Deletes) /\ IsFiniteSet(Adopted)
        /\ IsFiniteSet(Writes) /\ IsFiniteSet(Seeds)
    BY <2>1, StageIs, LedgersAre DEF Adopted
  <2>3. Lists(d, D) /\ Lists(b, B) /\ Lists(w, W) /\ Lists(c, S)
    BY <1>1, <1>2, <2>2, AllAreListed
  <2>4. PICK x, y : x = Op("ledger", "cluster ledger") /\ y = Op("ledger", "global ledger")
    OBVIOUS
  <2>5. l = <<x, y>> /\ L = {x, y} /\ x # y
    BY <1>1, <1>2, <2>4 DEF Ledger, Op, Each
  <2>6. l \in Seq(L) /\ Len(l) = 2 /\ l[1] = x /\ l[2] = y
    BY <2>5
  <2>7. Lists(l, L)
    BY <2>5, <2>6 DEF Lists
  <2>8. QED
    BY <2>3, <2>6, <2>7
<1>4. Apart(D, B, W, S, L)
  BY <1>1, StageIs, LedgersAre DEF Op, Apart, Adopted, Each
<1>5. D \cup B \cup W \cup S \cup L \subseteq Operation
  BY <1>1, StageIs, LedgersAre DEF Op, Operation, Adopted, Each
<1>6. s = Join(Join(Join(Join(d, b), w), c), l)
  BY <1>2 DEF Operations, Join, Adopted
<1>7. /\ \A o \in D : o.kind = "delete" /\ o.on \in Deletes
      /\ \A o \in B : o.kind = "backup" /\ o.on \in Adopted
      /\ \A o \in W : o.kind = "write" /\ o.on \in Writes
      /\ \A o \in S : o.kind = "write" /\ o.on \in Seeds
      /\ \A o \in L : o.kind = "ledger" /\ o.on \in Ledger
  BY <1>1, EachIs
<1>8. /\ \A f \in Deletes : \E o \in D : o.kind = "delete" /\ o.on = f
      /\ \A f \in Adopted : \E o \in B : o.kind = "backup" /\ o.on = f
      /\ \A f \in Writes : \E o \in W : o.kind = "write" /\ o.on = f
      /\ \A f \in Seeds : \E o \in S : o.kind = "write" /\ o.on = f
      /\ \A x \in Ledger : \E o \in L : o.kind = "ledger" /\ o.on = x
  BY <1>1, EachIs
<1>9. l[Len(l)].kind = "ledger" /\ l[Len(l)].on = "global ledger"
  BY <1>2 DEF Op
<1>10. /\ Lists(s, D \cup B \cup W \cup S \cup L)
       /\ Len(s) \in Nat \ {0} /\ s[Len(s)] = l[Len(l)]
       /\ \A i, j \in 1..Len(s) : s[i] \in B /\ s[j] \in W \cup S => i < j
  <2>1. InRow(Join(Join(Join(Join(d, b), w), c), l), D, B, W, S, L, l)
    BY <1>3, <1>4, FiveLists
  <2>2. InRow(s, D, B, W, S, L, l)
    BY <1>6, <2>1, Zenon
  <2>3. QED
    BY <2>2 DEF InRow
<1>11. /\ s \in Seq(Operation)
       /\ \A i \in 1..Len(s) : s[i] \in D \cup B \cup W \cup S \cup L
       /\ \A o \in D \cup B \cup W \cup S \cup L : \E i \in 1..Len(s) : s[i] = o
       /\ \A i, j \in 1..Len(s) : s[i] = s[j] => i = j
  BY <1>5, <1>10 DEF Lists
<1>12. \A i \in 1..Len(s) :
         \/ s[i].kind = "delete" /\ s[i].on \in Deletes
         \/ s[i].kind = "backup" /\ s[i].on \in Adopted
         \/ s[i].kind = "write" /\ s[i].on \in Writes \cup Seeds
         \/ s[i].kind = "ledger" /\ s[i].on \in Ledger
  BY <1>7, <1>11
<1>13. /\ \A f \in Deletes : \E i \in 1..Len(s) : s[i].kind = "delete" /\ s[i].on = f
       /\ \A f \in Adopted : \E i \in 1..Len(s) : s[i].kind = "backup" /\ s[i].on = f
       /\ \A f \in Writes \cup Seeds : \E i \in 1..Len(s) : s[i].kind = "write" /\ s[i].on = f
       /\ \A x \in Ledger : \E i \in 1..Len(s) : s[i].kind = "ledger" /\ s[i].on = x
  BY <1>8, <1>11
<1>14. ASSUME NEW i \in 1..Len(s), NEW j \in 1..Len(s), s[i].kind = s[j].kind, s[i].on = s[j].on
       PROVE  i = j
  <2>1. s[i] \in Operation /\ s[j] \in Operation
    BY <1>11
  <2>2. s[i] = s[j]
    BY <1>14, <2>1 DEF Operation
  <2>3. QED
    BY <1>11, <2>2
<1>15. \A i, j \in 1..Len(s) : s[i].kind = "backup" /\ s[j].kind = "write" => i < j
  BY <1>7, <1>10, <1>11
<1>16. s[Len(s)].kind = "ledger" /\ s[Len(s)].on = "global ledger" /\ Len(s) \in Nat \ {0}
  BY <1>9, <1>10
<1>17. QED
  BY <1>11, <1>12, <1>13, <1>14, <1>15, <1>16 DEF Ordered

(* The record of a file in the ledgers that a plan has read.               *)
Record(q, f) == Recorded(q.seen[LedgerOf(f)], f)

(* The operations of a plan fit what it has seen.                          *)
Fits(q, o) ==
  /\ o.kind = "ledger" => o.on \in Ledger
  /\ o.kind = "backup" => o.on \in q.planned /\ q.seen[o.on] # Missing
  /\ o.kind = "delete" => o.on \in q.pruned
  /\ o.kind = "write" =>
       \/ o.on \in q.planned
       \/ o.on \in Seed /\ q.seen[o.on] = Missing /\ q.to[o.on] \in Content

Backs(q, i, f)   == q.ops[i].kind = "backup" /\ q.ops[i].on = f
Changes(q, i, x) == q.ops[i].kind # "backup" /\ q.ops[i].on = x

(* No path is changed twice or backed up twice, the ledgers are changed    *)
(* and the global one is last, and a plan changes all that it is to change.*)
Complete(q) ==
  /\ Len(q.ops) \in Nat \ {0}
  /\ \A i \in 1..Len(q.ops) : Fits(q, q.ops[i])
  /\ \A i, j \in 1..Len(q.ops), x \in Path : Changes(q, i, x) /\ Changes(q, j, x) => i = j
  /\ \A i, j \in 1..Len(q.ops), f \in File : Backs(q, i, f) /\ Backs(q, j, f) => i = j
  /\ \A l \in Ledger : \E i \in 1..Len(q.ops) : Changes(q, i, l)
  /\ Changes(q, Len(q.ops), "global ledger")
  /\ \A f \in q.planned \cup q.pruned :
       q.to[f] = q.seen[f] \/ \E i \in 1..Len(q.ops) : Changes(q, i, f)

(* What people wrote is backed up before it is replaced.                   *)
Cautious(q) ==
  \A j \in 1..Len(q.ops), f \in File :
    Changes(q, j, f) /\ q.seen[f] \in User =>
      q.ops[j].kind = "write" /\ \E i \in 1..(j - 1) : Backs(q, i, f)

(* A plan takes what it may take, and the ledgers will say so.             *)
Lawful(q) ==
  /\ q.planned \cap q.pruned = {}
  /\ \A f \in q.planned :
       /\ q.to[f] \in Content /\ q.to[LedgerOf(f)][f] = q.to[f]
       /\ \/ q.seen[f] \in {Missing, Record(q, f), q.to[f]}
          \/ \E i \in 1..Len(q.ops) : Backs(q, i, f)
  /\ \A f \in q.pruned :
       /\ q.to[f] = Missing /\ q.to[LedgerOf(f)][f] = NoRecord
       /\ Record(q, f) # NoRecord /\ q.seen[f] \in {Missing, Record(q, f)}
  /\ \A f \in Generated \ (q.planned \cup q.pruned) :
       q.to[LedgerOf(f)][f] = Record(q, f)

Sound(q) == Complete(q) /\ Cautious(q) /\ Lawful(q)

(* How far a promotion has come, and what it has changed by then.          *)
Reach      == IF p.pc = "verify" THEN p.k - 1 ELSE p.k
Reached(x) == \E i \in 1..Reach : Changes(p, i, x)

(* Before the preimages are read, what the scan has seen is there, except  *)
(* for what was edited meanwhile.                                          *)
Ready ==
  p \in Planning =>
    /\ Sound(p)
    /\ \A l \in Ledger : disk[l] = p.seen[l]
    /\ \A f \in File : disk[f] # p.seen[f] =>
         f \in void /\ (p.seen[f] = Missing => f \in exposed)

(* A preimage is what the scan has seen, unless the scan found nothing and *)
(* somebody was faster; and every backup that was made is there.           *)
Captive ==
  p \in Applying =>
    /\ Sound(p) /\ p.k \in 1..Len(p.ops) /\ p.kept \subseteq kept
    /\ \A l \in Ledger : p.pre[l] = p.seen[l]
    /\ \A f \in File : p.pre[f] # p.seen[f] =>
         p.seen[f] = Missing /\ f \in void /\ f \in exposed
    /\ \A i \in 1..(p.k - 1), f \in File :
         Backs(p, i, f) => <<f, p.pre[f]>> \in kept

(* While a promotion goes on, what it has not reached is as it was, and    *)
(* what it has passed is as planned.                                       *)
Forward ==
  p \in Applying /\ p.pc # "undo" =>
    /\ \A x \in Path : ~Reached(x) => disk[x] = p.pre[x] \/ x \in void
    /\ \A i \in 1..(p.k - 1), x \in Path :
         Changes(p, i, x) => disk[x] = p.to[x] \/ x \in void

(* What the promotion in progress has saved of a file: as long as it may   *)
(* roll back, a backup that it made does not count, but the preimage does. *)
Holds(f) ==
  \/ <<f, mine[f]>> \in p.kept
  \/ IF Reached(f) THEN p.pre[f] = mine[f] ELSE disk[f] = mine[f]

(* What people wrote is safe, in the middle of a promotion too.            *)
Saved ==
  \A f \in File : mine[f] # Nothing /\ f \notin exposed \cup unrestored =>
    IF p \in Applying THEN Holds(f) ELSE Survives(f)

Base == Typed /\ Ready /\ Captive /\ Forward
IInv == Base /\ Saved

(* What the ledgers say of a generated file.                               *)
LEMMA KnownIs ==
  ASSUME Typed, NEW f \in Generated
  PROVE  /\ Known(f) = Recorded(disk[LedgerOf(f)], f)
         /\ Known(f) \in Content \cup {NoRecord}
<1>1. disk[LedgerOf(f)] \in Records
  BY LedgersAre DEF Typed, Trees
<1>2. QED
  BY <1>1 DEF Known, Recorded, Records

(* The target of a plan.                                                   *)
LEMMA TargetIs ==
  ASSUME Typed, p \in Staging, NEW t, t = Target
  PROVE  /\ t \in Trees
         /\ \A l \in Ledger, f \in Generated : LedgerOf(f) = l =>
              t[l][f] = IF f \in Pruned THEN NoRecord
                        ELSE IF f \in Planned THEN p.staged[f] ELSE Known(f)
         /\ \A f \in Planned : t[f] = p.staged[f]
         /\ \A f \in Seeds : t[f] \in Content
         /\ \A f \in Pruned : t[f] = IF f \in Deletes THEN Missing ELSE disk[f]
<1>1. /\ \A l \in Ledger : t[l] = NewLedger(l)
      /\ \A f \in Planned : t[f] = p.staged[f]
      /\ \A f \in Seeds : t[f] = SeedContent
      /\ \A f \in Seed \ Seeds : t[f] = disk[f]
      /\ \A f \in Deletes : t[f] = Missing
      /\ \A f \in File \ (Planned \cup Deletes \cup Seed) : t[f] = disk[f]
      /\ DOMAIN t = Path /\ t = [x \in Path |-> t[x]]
  <2>1. ASSUME NEW x \in Path
        PROVE  /\ x \in Ledger => t[x] = NewLedger(x)
               /\ x \notin Ledger /\ x \in Seed =>
                    t[x] = IF x \in Seeds THEN SeedContent ELSE disk[x]
               /\ x \notin Ledger \cup Seed /\ x \in Planned => t[x] = p.staged[x]
               /\ x \notin Ledger \cup Seed \cup Planned =>
                    t[x] = IF x \in Deletes THEN Missing ELSE disk[x]
    <3>1. t[x] = CASE x \in Ledger -> NewLedger(x)
                   [] x \in Seed -> IF x \in Seeds THEN SeedContent ELSE disk[x]
                   [] x \in Planned -> p.staged[x]
                   [] x \in Deletes -> Missing
                   [] OTHER -> disk[x]
      BY DEF Target
    <3>2. CASE x \in Ledger
      BY <3>1, <3>2, StageIs, LedgersAre
    <3>3. CASE x \in Seed
      BY <3>1, <3>3, StageIs, LedgersAre
    <3>4. CASE x \in Planned
      BY <3>1, <3>4, StageIs, LedgersAre
    <3>5. CASE x \in Deletes
      BY <3>1, <3>5, StageIs, LedgersAre
    <3>6. CASE x \notin Ledger \cup Seed \cup Planned \cup Deletes
      BY <3>1, <3>6
    <3>7. QED
      BY <3>2, <3>3, <3>4, <3>5, <3>6
  <2>2. DOMAIN t = Path /\ t = [x \in Path |-> t[x]]
    BY DEF Target
  <2>3. \A l \in Ledger : t[l] = NewLedger(l)
    BY <2>1, LedgersAre
  <2>4. ASSUME NEW f \in File
        PROVE  /\ f \in Seeds /\ f \in Seed => t[f] = SeedContent
               /\ f \in Seed \ Seeds => t[f] = disk[f]
               /\ f \in Planned \ Seed => t[f] = p.staged[f]
               /\ f \in Deletes \ (Seed \cup Planned) => t[f] = Missing
               /\ f \notin Seed \cup Planned \cup Deletes => t[f] = disk[f]
    <3>1. f \in Path /\ f \notin Ledger
      BY LedgersAre
    <3>2. QED
      BY <2>1, <3>1
  <2>5. Planned \subseteq Generated /\ Deletes \subseteq Generated \ Planned /\ Seeds \subseteq Seed
    BY StageIs
  <2>6. QED
    BY <2>2, <2>3, <2>4, <2>5, LedgersAre
<1>2. SeedContent \in Content
  BY PromotionConstants DEF SeedContent
<1>3. /\ Planned \subseteq Generated /\ Pruned \subseteq Generated \ Planned
      /\ \A f \in Planned : p.staged[f] \in Content
      /\ Deletes \subseteq Pruned /\ Seeds \subseteq Seed
  BY StageIs DEF Pruned, Deletes
<1>4. \A l \in Ledger : NewLedger(l) \in Records
  BY <1>3, KnownIs DEF NewLedger, Records
<1>5. \A f \in File : t[f] \in Value
  BY <1>1, <1>2, <1>3, LedgersAre DEF Value, Typed, Trees
<1>6. t \in Trees
  <2>1. \A x \in Path : t[x] \in Value \cup Records
    BY <1>1, <1>4, <1>5 DEF Path
  <2>2. t \in [Path -> Value \cup Records]
    BY <1>1, <2>1
  <2>3. QED
    BY <2>2, <1>1, <1>4, <1>5 DEF Trees
<1>7. \A l \in Ledger, f \in Generated : LedgerOf(f) = l =>
        t[l][f] = IF f \in Pruned THEN NoRecord
                  ELSE IF f \in Planned THEN p.staged[f] ELSE Known(f)
  BY <1>1 DEF NewLedger
<1>8. QED
  BY <1>1, <1>2, <1>3, <1>6, <1>7, LedgersAre

(* Nothing stands in the way of a plan.                                    *)
Accepted == \A f \in Generated : Acceptable(f)

(* What a plan is made of, once nothing stands in its way.                 *)
LEMMA PlanIsSound ==
  ASSUME Typed, p \in Staging, Accepted, NEW q,
         q.seen = disk, q.to = Target, q.ops = Operations,
         q.planned = Planned, q.pruned = Pruned
  PROVE  Sound(q)
<1> PICK s, n : s = q.ops /\ n = Len(s)
  OBVIOUS
<1>0. Ordered(s)
  BY OperationsAre
<1>a. n \in Nat \ {0}
  BY <1>0 DEF Ordered
<1>b. \A i \in 1..n : i = n => s[i].kind = "ledger" /\ s[i].on = "global ledger"
  BY <1>0 DEF Ordered
<1>1. \A i \in 1..n :
        \/ s[i].kind = "delete" /\ s[i].on \in Deletes
        \/ s[i].kind = "backup" /\ s[i].on \in Adopted
        \/ s[i].kind = "write" /\ s[i].on \in Writes \cup Seeds
        \/ s[i].kind = "ledger" /\ s[i].on \in Ledger
  BY <1>0 DEF Ordered
<1>2. /\ \A f \in Deletes : \E i \in 1..n : s[i].kind = "delete" /\ s[i].on = f
      /\ \A f \in Adopted : \E i \in 1..n : s[i].kind = "backup" /\ s[i].on = f
      /\ \A f \in Writes \cup Seeds : \E i \in 1..n : s[i].kind = "write" /\ s[i].on = f
      /\ \A l \in Ledger : \E i \in 1..n : s[i].kind = "ledger" /\ s[i].on = l
  BY <1>0 DEF Ordered
<1>3. /\ \A i, j \in 1..n : s[i].kind = s[j].kind /\ s[i].on = s[j].on => i = j
      /\ \A i, j \in 1..n : s[i].kind = "backup" /\ s[j].kind = "write" => i < j
  BY <1>0 DEF Ordered
<1>4. /\ \A l \in Ledger, f \in Generated : LedgerOf(f) = l =>
           q.to[l][f] = IF f \in Pruned THEN NoRecord
                        ELSE IF f \in Planned THEN p.staged[f] ELSE Known(f)
      /\ \A f \in Planned : q.to[f] = p.staged[f]
      /\ \A f \in Seeds : q.to[f] \in Content
      /\ \A f \in Pruned : q.to[f] = IF f \in Deletes THEN Missing ELSE disk[f]
  BY TargetIs
<1>5. /\ Planned \subseteq Generated /\ \A f \in Planned : p.staged[f] \in Content
      /\ Deletes \subseteq Pruned /\ Pruned \subseteq Generated \ Planned
      /\ Writes = {f \in Planned : disk[f] # p.staged[f]}
      /\ Seeds = {f \in Seed : disk[f] = Missing}
  BY StageIs DEF Pruned, Deletes, Writes, Seeds
<1>6. /\ Generated \subseteq File /\ File \cap Ledger = {} /\ Seed \cap Generated = {}
      /\ Seed \subseteq File /\ \A f : LedgerOf(f) \in Ledger
  BY LedgersAre
<1>7. \A f \in Adopted :
        f \in Planned /\ disk[f] \notin {Missing, p.staged[f]} /\ Known(f) = NoRecord
  BY DEF Adopted, Adopts
<1>8. \A f \in Generated : Record(q, f) = Known(f) /\ Known(f) \in Content \cup {NoRecord}
  BY KnownIs DEF Record
<1>9. \A f \in Generated :
        \/ disk[f] = Missing
        \/ Known(f) # NoRecord /\ disk[f] = Known(f)
        \/ Known(f) = NoRecord /\ f \in Planned /\ (disk[f] = p.staged[f] \/ f \in Adopted)
  BY DEF Accepted, Acceptable, Adopted
<1>10. \A f \in Pruned : Known(f) # NoRecord /\ (f \in Deletes <=> disk[f] # Missing)
  BY DEF Pruned, Deletes
<1>11. /\ Missing \notin Content \cup User /\ NoRecord \notin Content \cup User
       /\ Content \cap User = {}
  BY PromotionConstants
<1>12. ASSUME NEW i \in 1..n
       PROVE  /\ s[i].kind = "ledger" <=> s[i].on \in Ledger
              /\ s[i].kind = "delete" => s[i].on \in Deletes
              /\ s[i].kind = "backup" => s[i].on \in Adopted
              /\ s[i].kind = "write" => s[i].on \in Writes \cup Seeds
              /\ s[i].kind \in {"delete", "backup", "write", "ledger"}
  <2>1. /\ Deletes \cap Ledger = {} /\ Adopted \cap Ledger = {}
        /\ (Writes \cup Seeds) \cap Ledger = {}
    BY <1>5, <1>6, <1>7
  <2>2. QED
    BY <1>1, <2>1
<1>13. \A i \in 1..n : Fits(q, s[i])
  BY <1>4, <1>5, <1>7, <1>12 DEF Fits
<1>14. ASSUME NEW i \in 1..n, NEW j \in 1..n, s[i].kind # "backup", s[j].kind # "backup",
              s[i].on = s[j].on
       PROVE  i = j
  <2>1. s[i].kind = s[j].kind
    BY <1>5, <1>6, <1>12, <1>14
  <2>2. QED
    BY <1>3, <1>14, <2>1
<1>15. ASSUME NEW f \in Planned \cup Pruned, q.to[f] # q.seen[f]
       PROVE  \E i \in 1..n : s[i].kind # "backup" /\ s[i].on = f
  BY <1>2, <1>4, <1>5, <1>15
<1>16. Complete(q)
  <2>1. \A l \in Ledger : \E i \in 1..n : Changes(q, i, l)
    BY <1>2 DEF Changes
  <2>2. Changes(q, n, "global ledger")
    <3>1. PICK i \in 1..n : i = n
      BY <1>a
    <3>2. s[i].kind # "backup" /\ s[i].on = "global ledger"
      BY <1>b, <3>1
    <3>3. QED
      BY <3>1, <3>2 DEF Changes
  <2>3. \A f \in Planned \cup Pruned :
          q.to[f] = q.seen[f] \/ \E i \in 1..n : Changes(q, i, f)
    BY <1>15 DEF Changes
  <2>4. \A i, j \in 1..n, x \in Path : Changes(q, i, x) /\ Changes(q, j, x) => i = j
    BY <1>14 DEF Changes
  <2>5. \A i, j \in 1..n, f \in File : Backs(q, i, f) /\ Backs(q, j, f) => i = j
    BY <1>3 DEF Backs
  <2>6. n \in Nat \ {0}
    BY <1>a
  <2>7. QED
    BY <1>13, <2>1, <2>2, <2>3, <2>4, <2>5, <2>6 DEF Complete
<1>17. ASSUME NEW j \in 1..n, NEW f \in File, Changes(q, j, f), q.seen[f] \in User
       PROVE  q.ops[j].kind = "write" /\ \E i \in 1..(j - 1) : Backs(q, i, f)
  <2>1. s[j].kind # "backup" /\ s[j].on = f
    BY <1>17 DEF Changes
  <2>2. disk[f] # Missing /\ disk[f] \in User
    BY <1>11, <1>17
  <2>3. f \in Generated
    BY <1>5, <1>6, <1>12, <2>1, <2>2
  <2>4. f \in Planned /\ f \in Adopted
    BY <1>5, <1>8, <1>9, <1>11, <2>2, <2>3
  <2>5. s[j].kind = "write"
    BY <1>5, <1>6, <1>12, <2>1, <2>4
  <2>6. PICK i \in 1..n : s[i].kind = "backup" /\ s[i].on = f
    BY <1>2, <2>4
  <2>7. i < j
    BY <1>3, <2>5, <2>6
  <2>8. i \in 1..(j - 1)
    BY <1>a, <2>7
  <2>9. QED
    BY <2>5, <2>6, <2>8 DEF Backs
<1>18. Cautious(q)
  BY <1>17 DEF Cautious
<1>19. ASSUME NEW f \in Planned
       PROVE  /\ q.to[f] \in Content /\ q.to[LedgerOf(f)][f] = q.to[f]
              /\ \/ q.seen[f] \in {Missing, Record(q, f), q.to[f]}
                 \/ \E i \in 1..n : Backs(q, i, f)
  <2>1. q.to[f] = p.staged[f] /\ q.to[f] \in Content
    BY <1>4, <1>5
  <2>2. q.to[LedgerOf(f)][f] = p.staged[f]
    BY <1>4, <1>5, <1>6
  <2>3. CASE f \in Adopted
    BY <1>2, <2>1, <2>2, <2>3 DEF Backs
  <2>4. CASE f \notin Adopted
    BY <1>5, <1>8, <1>9, <2>1, <2>2, <2>4
  <2>5. QED
    BY <2>3, <2>4
<1>20. ASSUME NEW f \in Pruned
       PROVE  /\ q.to[f] = Missing /\ q.to[LedgerOf(f)][f] = NoRecord
              /\ Record(q, f) # NoRecord /\ q.seen[f] \in {Missing, Record(q, f)}
  BY <1>4, <1>5, <1>6, <1>8, <1>9, <1>10
<1>21. \A f \in Generated \ (Planned \cup Pruned) : q.to[LedgerOf(f)][f] = Record(q, f)
  BY <1>4, <1>6, <1>8
<1>22. Lawful(q)
  BY <1>5, <1>19, <1>20, <1>21 DEF Lawful
<1>23. QED
  BY <1>16, <1>18, <1>22 DEF Sound

-----------------------------------------------------------------------------
(* The phase tells what a promotion holds.                                 *)
LEMMA Phases ==
  ASSUME Typed
  PROVE  /\ p.pc \in {"idle", "plan", "preimages", "verify", "operate", "undo"}
         /\ p = Idle => p.pc = "idle"
         /\ p.pc = "idle" => p = Idle
         /\ p.pc = "plan" <=> p \in Staging
         /\ p.pc = "preimages" <=> p \in Planning
         /\ p.pc \in {"verify", "operate", "undo"} <=> p \in Applying
BY DEF Typed, Idle, Staging, Planning, Applying

(* A promotion goes on with its plan and its preimages.                    *)
Like(q, r) ==
  /\ q.ops = r.ops /\ q.to = r.to /\ q.planned = r.planned /\ q.pruned = r.pruned
  /\ q.seen = r.seen /\ q.kept = r.kept /\ q.pre = r.pre

Runs(q, c, n) == q \in Applying /\ q.pc = c /\ q.k = n /\ Like(q, p)

Undone(n) == IF n = 0 THEN p' = Idle ELSE Runs(p', "undo", n)

(* It goes on at another operation, or in another phase.                   *)
LEMMA Moves ==
  ASSUME p \in Applying
  PROVE  /\ \A c \in {"verify", "operate", "undo"} : Runs(GoTo(c), c, p.k)
         /\ \A n \in Nat : p' = Undo(n) => Undone(n)
         /\ Runs([p EXCEPT !.pc = "verify", !.k = @ + 1], "verify", p.k + 1)
<1>1. ASSUME NEW c \in {"verify", "operate", "undo"}, NEW n \in Nat
      PROVE  Runs([p EXCEPT !.pc = c, !.k = n], c, n)
  BY DEF Runs, Like, Applying
<1>2. ASSUME NEW c \in {"verify", "operate", "undo"}
      PROVE  Runs([p EXCEPT !.pc = c], c, p.k)
  BY DEF Runs, Like, Applying
<1>3. p.k + 1 \in Nat
  BY DEF Applying
<1>4. Runs([p EXCEPT !.pc = "verify", !.k = @ + 1], "verify", p.k + 1)
  BY <1>1, <1>3
<1>5. ASSUME NEW n \in Nat, p' = Undo(n) PROVE Undone(n)
  BY <1>1, <1>5 DEF Undo, Undone
<1>6. QED
  BY <1>2, <1>4, <1>5 DEF GoTo

(* The operation that is next.                                             *)
LEMMA NowIs ==
  ASSUME p \in Applying, p.k \in 1..Len(p.ops)
  PROVE  /\ Now \in Operation /\ Now.on \in Path
         /\ Now.kind \in {"delete", "backup", "write", "ledger"}
         /\ \A x : Changes(p, p.k, x) <=> Now.kind # "backup" /\ Now.on = x
         /\ \A f : Backs(p, p.k, f) <=> Now.kind = "backup" /\ Now.on = f
<1>1. p.ops \in Seq(Operation)
  BY DEF Applying
<1>2. Now \in Operation
  BY <1>1 DEF Now
<1>3. Now.on \in Path /\ Now.kind \in {"delete", "backup", "write", "ledger"}
  BY <1>2 DEF Operation
<1>4. QED
  BY <1>2, <1>3 DEF Now, Changes, Backs

(* What a promotion has changed, after a step that goes on with it.        *)
LEMMA ReachedThen ==
  ASSUME NEW c, NEW n, Runs(p', c, n)
  PROVE  /\ \A i, x : Changes(p', i, x) <=> Changes(p, i, x)
         /\ \A i, f : Backs(p', i, f) <=> Backs(p, i, f)
         /\ c # "verify" => \A x : Reached(x)' <=> \E i \in 1..n : Changes(p, i, x)
         /\ c = "verify" => \A x : Reached(x)' <=> \E i \in 1..(n - 1) : Changes(p, i, x)
<1>1. /\ \A i, x : Changes(p', i, x) <=> Changes(p, i, x)
      /\ \A i, f : Backs(p', i, f) <=> Backs(p, i, f)
  BY DEF Runs, Like, Changes, Backs
<1>2. Reach' = IF c = "verify" THEN n - 1 ELSE n
  BY DEF Reach, Runs
<1>3. \A x : Reached(x)' <=> \E i \in 1..Reach' : Changes(p', i, x)
  BY DEF Reached
<1>4. QED
  BY <1>1, <1>2, <1>3

(* Soundness is a property of the plan alone.                              *)
LEMMA SoundSame ==
  ASSUME NEW q, NEW r, Sound(r), q.ops = r.ops, q.to = r.to, q.planned = r.planned,
         q.pruned = r.pruned, q.seen = r.seen
  PROVE  Sound(q)
<1>1. \A i, x : Changes(q, i, x) <=> Changes(r, i, x)
  BY DEF Changes
<1>2. \A i, f : Backs(q, i, f) <=> Backs(r, i, f)
  BY DEF Backs
<1>3. \A f : Record(q, f) = Record(r, f)
  BY DEF Record
<1>4. \A o : Fits(q, o) <=> Fits(r, o)
  BY DEF Fits
<1>5. Complete(q)
  BY <1>1, <1>2, <1>4 DEF Sound, Complete
<1>6. Cautious(q)
  BY <1>1, <1>2 DEF Sound, Cautious
<1>7. Lawful(q)
  BY <1>2, <1>3 DEF Sound, Lawful
<1>8. QED
  BY <1>5, <1>6, <1>7 DEF Sound

(* The paths that callers see through the preimages.                       *)
LEMMA TouchedIs ==
  ASSUME Typed
  PROVE  /\ p \in Applying /\ p.k \in 1..Len(p.ops) =>
              \A x : x \in Touched <=> Reached(x)
         /\ p \notin Applying => Touched = {}
<1>1. CASE p \in Applying /\ p.k \in 1..Len(p.ops)
  <2>1. /\ p.pc \in {"verify", "operate", "undo"} /\ p.ops \in Seq(Operation)
        /\ Reach \in 0..Len(p.ops)
    BY <1>1 DEF Applying, Reach
  <2>2. Captured = SubSeq(p.ops, 1, Reach)
    BY <2>1 DEF Captured, Reach
  <2>3. DOMAIN Captured = 1..Reach /\ \A i \in 1..Reach : Captured[i] = p.ops[i]
    BY <2>1, <2>2
  <2>4. QED
    BY <1>1, <2>3 DEF Touched, Reached, Changes
<1>2. CASE p \notin Applying
  <2>1. Captured = <<>>
    BY <1>2, Phases DEF Captured
  <2>2. DOMAIN Captured = {}
    BY <2>1
  <2>3. QED
    BY <1>2, <2>2 DEF Touched
<1>3. QED
  BY <1>1, <1>2

-----------------------------------------------------------------------------
(* What the steps do.                                                      *)

(* verify and capture go on, or undo what was done before.                 *)
LEMMA VerifyIs ==
  ASSUME Typed, Captive, Verify
  PROVE  /\ p \in Applying /\ p.pc = "verify" /\ p.k \in 1..Len(p.ops)
         /\ \/ /\ Runs(p', "operate", p.k)
               /\ Now.kind = "backup" \/ disk[Now.on] = p.pre[Now.on]
            \/ Undone(p.k - 1)
         /\ UNCHANGED <<disk, kept, mine, exposed, unrestored, void>>
<1>1. p \in Applying /\ p.pc = "verify" /\ p.k \in 1..Len(p.ops)
  BY Phases DEF Verify, Captive
<1>2. p.k - 1 \in Nat
  BY <1>1 DEF Applying
<1>3. CASE Now.kind = "backup" \/ disk[Now.on] = p.pre[Now.on]
  <2>1. p' = GoTo("operate")
    BY <1>3 DEF Verify
  <2>2. QED
    BY <1>1, <1>3, <2>1, Moves DEF Verify, history
<1>4. CASE ~(Now.kind = "backup" \/ disk[Now.on] = p.pre[Now.on])
  <2>1. p' = Undo(p.k - 1)
    BY <1>4 DEF Verify
  <2>2. QED
    BY <1>1, <1>2, <2>1, Moves DEF Verify, history
<1>5. QED
  BY <1>3, <1>4

(* An operation changes its path or makes its backup, and the last one is  *)
(* the end of the promotion.                                               *)
LEMMA OperateIs ==
  ASSUME Typed, Captive, Operate
  PROVE  /\ p \in Applying /\ p.pc = "operate" /\ p.k \in 1..Len(p.ops)
         /\ \/ Now.kind = "backup" /\ kept' = kept \cup {<<Now.on, p.pre[Now.on]>>} /\ disk' = disk
            \/ /\ Now.kind # "backup" /\ kept' = kept
               /\ disk' = [disk EXCEPT ![Now.on] = p.to[Now.on]]
         /\ \/ p.k < Len(p.ops) /\ Runs(p', "verify", p.k + 1) /\ void' = void
            \/ /\ p.k = Len(p.ops) /\ p' = Idle
               /\ void' = void \ {f \in p.planned \cup p.pruned : Done(f)}
         /\ UNCHANGED <<mine, exposed, unrestored>>
<1>1. p \in Applying /\ p.pc = "operate" /\ p.k \in 1..Len(p.ops)
  BY Phases DEF Operate, Captive
<1>2. CASE p.k < Len(p.ops)
  BY <1>1, <1>2, Moves DEF Operate
<1>3. CASE p.k = Len(p.ops)
  BY <1>1, <1>3 DEF Operate
<1>4. Len(p.ops) \in Nat
  BY <1>1 DEF Applying
<1>5. QED
  BY <1>1, <1>2, <1>3, <1>4

(* An operation that fails is undone as well.                              *)
LEMMA OperateFailsIs ==
  ASSUME Typed, Captive, OperateFails
  PROVE  /\ p \in Applying /\ p.pc = "operate" /\ p.k \in 1..Len(p.ops)
         /\ Runs(p', "undo", p.k)
         /\ UNCHANGED <<disk, kept, mine, exposed, unrestored, void>>
<1>1. p \in Applying /\ p.pc = "operate" /\ p.k \in 1..Len(p.ops)
  BY Phases DEF OperateFails, Captive
<1>2. p.k \in Nat /\ p.k # 0
  BY <1>1 DEF Applying
<1>3. p' = Undo(p.k)
  BY DEF OperateFails
<1>4. QED
  BY <1>1, <1>2, <1>3, Moves DEF OperateFails, history, Undone

(* Undoing restores the preimage or takes the backup back.                 *)
LEMMA RollbackIs ==
  ASSUME Typed, Captive, Rollback
  PROVE  /\ p \in Applying /\ p.pc = "undo" /\ p.k \in 1..Len(p.ops)
         /\ Undone(p.k - 1)
         /\ \/ Now.kind = "backup" /\ kept' = kept \ Backup /\ disk' = disk
            \/ /\ Now.kind # "backup" /\ kept' = kept
               /\ disk' = [disk EXCEPT ![Now.on] = p.pre[Now.on]]
         /\ UNCHANGED <<mine, exposed, unrestored, void>>
<1>1. p \in Applying /\ p.pc = "undo" /\ p.k \in 1..Len(p.ops)
  BY Phases DEF Rollback, Captive
<1>2. p.k - 1 \in Nat
  BY <1>1 DEF Applying
<1>3. p' = Undo(p.k - 1)
  BY DEF Rollback
<1>4. QED
  BY <1>1, <1>2, <1>3, Moves DEF Rollback, history

(* It goes on when it cannot restore a path.                               *)
LEMMA RestoreFailsIs ==
  ASSUME Typed, Captive, RestoreFails
  PROVE  /\ p \in Applying /\ p.pc = "undo" /\ p.k \in 1..Len(p.ops)
         /\ Undone(p.k - 1)
         /\ Now.kind = "write" => unrestored' = unrestored \cup {Now.on}
         /\ Now.kind # "write" => unrestored' = unrestored
         /\ void' = IF Now.kind = "backup" THEN void ELSE void \cup Left({Now.on})
         /\ UNCHANGED <<disk, kept, mine, exposed>>
<1>1. p \in Applying /\ p.pc = "undo" /\ p.k \in 1..Len(p.ops)
  BY Phases DEF RestoreFails, Captive
<1>2. p.k - 1 \in Nat
  BY <1>1 DEF Applying
<1>3. p' = Undo(p.k - 1)
  BY DEF RestoreFails
<1>4. QED
  BY <1>1, <1>2, <1>3, Moves DEF RestoreFails

(* A crash leaves everything as it is.                                     *)
LEMMA CrashIs ==
  ASSUME Crash
  PROVE  /\ p' = Idle /\ void' = void \cup Left(Path)
         /\ UNCHANGED <<disk, kept, mine, exposed, unrestored>>
BY DEF Crash

(* A plan, and the preimages that it takes.                                *)
LEMMA TakePreimagesIs ==
  ASSUME Typed, TakePreimages
  PROVE  /\ p \in Planning
         /\ p'.pc = "verify" /\ p'.k = 1 /\ p'.kept = kept
         /\ p'.ops = p.ops /\ p'.to = p.to /\ p'.planned = p.planned
         /\ p'.pruned = p.pruned /\ p'.seen = p.seen
         /\ p'.pre = [x \in Path |-> IF x \in File /\ p.seen[x] # Missing
                                     THEN p.seen[x] ELSE disk[x]]
         /\ p'.pre \in Trees /\ p' \in Applying
         /\ UNCHANGED <<disk, kept, mine, exposed, unrestored, void>>
<1>1. p \in Planning
  BY Phases DEF TakePreimages
<1>2. PICK r : r = [x \in Path |-> IF x \in File /\ p.seen[x] # Missing
                                  THEN p.seen[x] ELSE disk[x]]
  OBVIOUS
<1>3. p.seen \in Trees /\ disk \in Trees
  BY <1>1 DEF Planning, Typed
<1>4. r \in Trees
  BY <1>2, <1>3, LedgersAre DEF Trees
<1>5. p' = [pc |-> "verify", k |-> 1, ops |-> p.ops, to |-> p.to,
            planned |-> p.planned, pruned |-> p.pruned, seen |-> p.seen, kept |-> kept,
            pre |-> r]
  BY <1>2 DEF TakePreimages
<1>6. p' \in Applying
  <2>1. kept \in Backups
    BY DEF Typed
  <2>2. QED
    BY <1>1, <1>4, <1>5, <2>1 DEF Planning, Applying
<1>7. QED
  BY <1>1, <1>2, <1>4, <1>5, <1>6 DEF TakePreimages, history

(* A plan is made of what is there, or refused.                            *)
LEMMA PlanIs ==
  ASSUME Typed, Plan
  PROVE  /\ p \in Staging
         /\ \/ p' = Idle
            \/ /\ Accepted /\ p' \in Planning
               /\ p'.seen = disk /\ p'.to = Target /\ p'.ops = Operations
               /\ p'.planned = Planned /\ p'.pruned = Pruned
         /\ UNCHANGED <<disk, kept, mine, exposed, unrestored, void>>
<1>1. p \in Staging
  BY Phases DEF Plan
<1>2. /\ \/ p' = Idle
         \/ /\ Accepted
            /\ p' = [pc |-> "preimages", seen |-> disk, to |-> Target, ops |-> Operations,
                     planned |-> Planned, pruned |-> Pruned]
      /\ UNCHANGED <<disk, kept, mine, exposed, unrestored, void>>
  BY DEF Plan, Accepted, history
<1>3. PICK s, t : s = Operations /\ t = Target
  OBVIOUS
<1>4. s \in Seq(Operation) /\ t \in Trees /\ disk \in Trees
  BY <1>1, <1>3, OperationsAre, TargetIs DEF Typed
<1>5. Planned \in SUBSET Generated /\ Pruned \in SUBSET Generated
  BY <1>1, StageIs DEF Pruned
<1>6. QED
  BY <1>1, <1>2, <1>3, <1>4, <1>5 DEF Planning

(* A stage changes nothing yet.                                            *)
LEMMA GenerateIs ==
  ASSUME NEW S \in SUBSET Generated, NEW a \in BOOLEAN, NEW b \in BOOLEAN,
         GenerateClusterTree(S, a, b)
  PROVE  /\ p = Idle /\ p' \in Staging
         /\ UNCHANGED <<disk, kept, mine, exposed, unrestored, void>>
BY DEF GenerateClusterTree, Staging, history

(* An edit changes one file and is remembered.                             *)
LEMMA EditIs ==
  ASSUME NEW f \in File, NEW v \in User \cup {Missing}, EditFile(f, v)
  PROVE  /\ disk' = [disk EXCEPT ![f] = v]
         /\ mine' = [mine EXCEPT ![f] = IF v = Missing THEN Nothing ELSE v]
         /\ InWindow(f) => exposed' = exposed \cup {f}
         /\ ~InWindow(f) => exposed' = exposed
         /\ p.pc \in {"idle", "plan"} => void' = void
         /\ p.pc \notin {"idle", "plan"} => void' = void \cup {f}
         /\ UNCHANGED <<kept, p, unrestored>>
BY DEF EditFile

-----------------------------------------------------------------------------
(* The base of the invariant.                                              *)

(* One path of a tree is replaced.                                         *)
LEMMA TreesAre ==
  ASSUME NEW d \in Trees
  PROVE  /\ \A e \in Trees, x \in Path : [d EXCEPT ![x] = e[x]] \in Trees
         /\ \A f \in File, v \in Value : [d EXCEPT ![f] = v] \in Trees
<1>1. /\ d \in [Path -> Value \cup Records]
      /\ \A f \in File : d[f] \in Value
      /\ \A l \in Ledger : d[l] \in Records
  BY DEF Trees
<1>2. ASSUME NEW x \in Path, NEW v, x \in File => v \in Value, x \in Ledger => v \in Records
      PROVE  [d EXCEPT ![x] = v] \in Trees
  <2>1. PICK e : e = [d EXCEPT ![x] = v]
    OBVIOUS
  <2>2. e \in [Path -> Value \cup Records]
    BY <1>1, <1>2, <2>1, LedgersAre DEF Path
  <2>3. \A f \in File : e[f] \in Value
    BY <1>1, <1>2, <2>1, LedgersAre
  <2>4. \A l \in Ledger : e[l] \in Records
    BY <1>1, <1>2, <2>1, LedgersAre
  <2>5. QED
    BY <2>1, <2>2, <2>3, <2>4 DEF Trees
<1>3. \A e \in Trees, x \in Path :
        (x \in File => e[x] \in Value) /\ (x \in Ledger => e[x] \in Records)
  BY DEF Trees
<1>4. QED
  BY <1>2, <1>3, LedgersAre

(* Only what the scan has found is backed up, and that was its preimage.   *)
LEMMA BackupIs ==
  ASSUME Typed, Captive, p \in Applying, NEW i \in 1..Len(p.ops), NEW f, Backs(p, i, f)
  PROVE  f \in File /\ p.pre[f] \in Content \cup User /\ p.pre[f] = p.seen[f]
<1>1. Fits(p, p.ops[i]) /\ p.ops[i].kind = "backup" /\ p.ops[i].on = f
  BY DEF Captive, Sound, Complete, Backs
<1>2. f \in p.planned /\ p.seen[f] # Missing
  BY <1>1 DEF Fits
<1>3. f \in File
  BY <1>2, LedgersAre DEF Applying
<1>4. p.pre[f] = p.seen[f]
  BY <1>2, <1>3 DEF Captive
<1>5. p.pre[f] \in Value
  BY <1>3 DEF Applying, Trees
<1>6. QED
  BY <1>2, <1>3, <1>4, <1>5 DEF Value

(* Only files are written, and the ledgers are ledgers.                    *)
LEMMA FileIs ==
  ASSUME Captive, p \in Applying, p.k \in 1..Len(p.ops)
  PROVE  /\ Now.kind # "ledger" => Now.on \in File
         /\ Now.kind = "ledger" => Now.on \in Ledger
<1>1. PICK o : o = Now
  OBVIOUS
<1>2. \A i \in 1..Len(p.ops) : Fits(p, p.ops[i])
  BY DEF Captive, Sound, Complete
<1>3. Fits(p, o)
  BY <1>1, <1>2, Zenon DEF Now
<1>4. o.kind \in {"delete", "backup", "write", "ledger"}
  BY <1>1, NowIs
<1>5. p.planned \subseteq File /\ p.pruned \subseteq File /\ Seed \subseteq File
  BY LedgersAre DEF Applying
<1>6. QED
  BY <1>1, <1>3, <1>4, <1>5 DEF Fits

(* Undoing ends, or goes on.                                               *)
LEMMA UndoneIs ==
  ASSUME NEW n, Undone(n), Typed
  PROVE  p' = Idle \/ (p' \in Applying /\ n # 0 /\ Runs(p', "undo", n))
BY DEF Undone, Runs

(* Every step keeps the types, ...                                         *)
LEMMA TypedThen ==
  ASSUME Typed, Captive, Next
  PROVE  Typed'
<1> USE DEF Typed
<1>1. ASSUME NEW S \in SUBSET Generated, NEW a \in BOOLEAN, NEW b \in BOOLEAN,
             GenerateClusterTree(S, a, b)
      PROVE  Typed'
  BY <1>1, GenerateIs
<1>2. CASE Plan
  BY <1>2, PlanIs
<1>3. CASE TakePreimages
  BY <1>3, TakePreimagesIs
<1>4. CASE Verify
  BY <1>4, VerifyIs, UndoneIs DEF Runs
<1>5. CASE Operate
  <2>1. /\ p \in Applying /\ p.k \in 1..Len(p.ops) /\ p.to \in Trees
        /\ Now.on \in Path /\ (p' = Idle \/ p' \in Applying)
    BY <1>5, OperateIs, NowIs DEF Applying, Runs
  <2>2. Now.kind = "backup" => <<Now.on, p.pre[Now.on]>> \in File \X (Content \cup User)
    BY <2>1, NowIs, BackupIs
  <2>3. kept' \in Backups
    BY <1>5, <2>2, OperateIs DEF Backups
  <2>4. disk' \in Trees
    BY <1>5, <2>1, OperateIs, TreesAre
  <2>5. void' \subseteq File
    BY <1>5, OperateIs
  <2>6. QED
    BY <1>5, <2>1, <2>3, <2>4, <2>5, OperateIs
<1>6. CASE OperateFails
  BY <1>6, OperateFailsIs DEF Runs
<1>7. CASE Rollback
  <2>1. /\ p \in Applying /\ p.k \in 1..Len(p.ops) /\ p.pre \in Trees
        /\ Now.on \in Path /\ (p' = Idle \/ p' \in Applying)
    BY <1>7, RollbackIs, UndoneIs, NowIs DEF Applying
  <2>2. kept' \in Backups
    BY <1>7, RollbackIs DEF Backups
  <2>3. disk' \in Trees
    <3>1. \A x \in Path : [disk EXCEPT ![x] = p.pre[x]] \in Trees
      BY <2>1, TreesAre
    <3>2. disk' = disk \/ disk' = [disk EXCEPT ![Now.on] = p.pre[Now.on]]
      BY <1>7, RollbackIs
    <3>3. QED
      BY <2>1, <3>1, <3>2
  <2>4. QED
    BY <1>7, <2>1, <2>2, <2>3, RollbackIs
<1>8. CASE RestoreFails
  <2>1. p' = Idle \/ p' \in Applying
    BY <1>8, RestoreFailsIs, UndoneIs
  <2>2. Now.kind = "write" => Now.on \in File
    <3>1. p \in Applying /\ p.k \in 1..Len(p.ops)
      BY <1>8, RestoreFailsIs
    <3>2. QED
      BY <3>1, FileIs
  <2>3. void' \subseteq File
    BY <1>8, RestoreFailsIs DEF Left
  <2>4. unrestored' \subseteq File
    BY <1>8, <2>2, RestoreFailsIs
  <2>5. QED
    BY <1>8, <2>1, <2>3, <2>4, RestoreFailsIs
<1>9. CASE Crash
  <2>1. void' \subseteq File
    BY <1>9, CrashIs DEF Left
  <2>2. QED
    BY <1>9, <2>1, CrashIs
<1>10. ASSUME NEW f \in File, NEW v \in User \cup {Missing}, EditFile(f, v)
       PROVE  Typed'
  <2>1. disk' \in Trees
    BY <1>10, EditIs, TreesAre DEF Value
  <2>2. QED
    BY <1>10, <2>1, EditIs
<1>11. QED
  BY <1>1, <1>2, <1>3, <1>4, <1>5, <1>6, <1>7, <1>8, <1>9, <1>10 DEF Next, Promotion

(* A promotion is in one phase.                                            *)
LEMMA PhasesApart ==
  /\ \A q \in Staging : q \notin Planning /\ q \notin Applying /\ q # Idle /\ q.pc = "plan"
  /\ \A q \in Planning : q \notin Applying /\ q # Idle /\ q.pc = "preimages"
  /\ \A q \in Applying : q # Idle /\ q.pc \in {"verify", "operate", "undo"}
  /\ Idle \notin Staging \cup Planning \cup Applying
BY DEF Idle, Staging, Planning, Applying

(* ... what the scan has seen, ...                                         *)
LEMMA ReadyThen ==
  ASSUME Base, Next
  PROVE  Ready'
<1> USE DEF Base
<1>1. ASSUME NEW S \in SUBSET Generated, NEW a \in BOOLEAN, NEW b \in BOOLEAN,
             GenerateClusterTree(S, a, b)
      PROVE  p' \notin Planning
  BY <1>1, GenerateIs, PhasesApart
<1>2. CASE Plan
  <2>1. PICK q : q = p'
    OBVIOUS
  <2>2. CASE p' = Idle
    BY <2>2, PhasesApart DEF Ready
  <2>3. CASE p' # Idle
    <3>1. /\ p \in Staging /\ Accepted /\ q.seen = disk /\ q.to = Target /\ q.ops = Operations
          /\ q.planned = Planned /\ q.pruned = Pruned
      BY <1>2, <2>1, <2>3, PlanIs
    <3>2. Sound(q)
      BY <3>1, PlanIsSound
    <3>3. p'.seen = disk /\ disk' = disk
      BY <1>2, <2>3, PlanIs
    <3>4. QED
      BY <2>1, <3>2, <3>3 DEF Ready
  <2>4. QED
    BY <2>2, <2>3
<1>3. CASE TakePreimages
  BY <1>3, TakePreimagesIs, PhasesApart DEF Ready
<1>4. CASE Verify
  BY <1>4, VerifyIs, UndoneIs, PhasesApart DEF Ready, Runs
<1>5. CASE Operate
  BY <1>5, OperateIs, PhasesApart DEF Ready, Runs
<1>6. CASE OperateFails
  BY <1>6, OperateFailsIs, PhasesApart DEF Ready, Runs
<1>7. CASE Rollback
  BY <1>7, RollbackIs, UndoneIs, PhasesApart DEF Ready
<1>8. CASE RestoreFails
  BY <1>8, RestoreFailsIs, UndoneIs, PhasesApart DEF Ready
<1>9. CASE Crash
  BY <1>9, CrashIs, PhasesApart DEF Ready
<1>10. ASSUME NEW f \in File, NEW v \in User \cup {Missing}, EditFile(f, v), p \in Planning
       PROVE  Ready'
  <2>1. p.pc = "preimages" /\ p' = p
    BY <1>10, EditIs, PhasesApart
  <2>2. /\ \A g \in File \ {f} : disk'[g] = disk[g] /\ f \in void'
        /\ \A l \in Ledger : disk'[l] = disk[l]
        /\ void \subseteq void' /\ exposed \subseteq exposed'
    BY <1>10, <2>1, EditIs, LedgersAre DEF Typed, Trees
  <2>3. p.seen[f] = Missing => f \in exposed'
    BY <1>10, <2>1, EditIs DEF InWindow
  <2>4. f \in void'
    BY <1>10, <2>1, EditIs
  <2>5. QED
    BY <1>10, <2>1, <2>2, <2>3, <2>4 DEF Ready
<1>11. ASSUME NEW f \in File, NEW v \in User \cup {Missing}, EditFile(f, v)
       PROVE  Ready'
  <2>1. CASE p \in Planning
    BY <1>10, <1>11, <2>1
  <2>2. CASE p \notin Planning
    BY <1>11, <2>2, EditIs DEF Ready
  <2>3. QED
    BY <2>1, <2>2
<1>12. QED
  BY <1>1, <1>2, <1>3, <1>4, <1>5, <1>6, <1>7, <1>8, <1>9, <1>11 DEF Next, Promotion, Ready

(* A promotion that goes on keeps its preimages, as long as its backups    *)
(* stay and what people edit is remembered.                                *)
LEMMA CaptiveGoesOn ==
  ASSUME Captive, p \in Applying, NEW c, NEW n, Runs(p', c, n), n \in 1..Len(p.ops),
         p.kept \subseteq kept', void \subseteq void', exposed \subseteq exposed',
         \A i \in 1..(n - 1), f \in File : Backs(p, i, f) => <<f, p.pre[f]>> \in kept'
  PROVE  Captive'
<1>1. PICK q, r : q = p' /\ r = p
  OBVIOUS
<1>2. Like(q, r) /\ Sound(r)
  BY <1>1 DEF Captive, Runs
<1>3. Sound(q)
  BY <1>2, SoundSame DEF Like
<1>4. /\ p'.ops = p.ops /\ p'.seen = p.seen /\ p'.kept = p.kept /\ p'.pre = p.pre /\ p'.k = n
  BY DEF Runs, Like
<1>5. \A i, f : Backs(p', i, f) <=> Backs(p, i, f)
  BY <1>4 DEF Backs
<1>6. QED
  BY <1>1, <1>3, <1>4, <1>5 DEF Captive

(* ... the preimages and the backups, ...                                  *)
LEMMA CaptiveThen ==
  ASSUME Base, Next
  PROVE  Captive'
<1> USE DEF Base
<1>0. p \in Applying => p.k \in 1..Len(p.ops) /\ Len(p.ops) \in Nat /\ p.kept \subseteq kept
  BY DEF Captive, Applying
<1>1. ASSUME NEW S \in SUBSET Generated, NEW a \in BOOLEAN, NEW b \in BOOLEAN,
             GenerateClusterTree(S, a, b)
      PROVE  Captive'
  BY <1>1, GenerateIs, PhasesApart DEF Captive
<1>2. CASE Plan
  BY <1>2, PlanIs, PhasesApart DEF Captive
<1>3. CASE TakePreimages
  <2>1. PICK q, r : q = p' /\ r = p
    OBVIOUS
  <2>2. p \in Planning /\ Sound(r)
    BY <1>3, <2>1, TakePreimagesIs DEF Ready
  <2>4. Sound(q)
    BY <1>3, <2>1, <2>2, TakePreimagesIs, SoundSame
  <2>5. Len(p.ops) \in Nat \ {0}
    BY <2>1, <2>2 DEF Sound, Complete
  <2>6. /\ \A l \in Ledger : p'.pre[l] = disk[l]
        /\ \A f \in File : p'.pre[f] = IF p.seen[f] # Missing THEN p.seen[f] ELSE disk[f]
    BY <1>3, TakePreimagesIs, LedgersAre
  <2>7. /\ \A l \in Ledger : p'.pre[l] = p'.seen[l]
        /\ \A f \in File : p'.pre[f] # p'.seen[f] =>
             p'.seen[f] = Missing /\ f \in void' /\ f \in exposed'
    BY <1>3, <2>2, <2>6, TakePreimagesIs DEF Ready
  <2>8. p'.k = 1 /\ p'.kept = kept' /\ p'.ops = p.ops
    BY <1>3, TakePreimagesIs
  <2>9. QED
    BY <2>1, <2>4, <2>5, <2>7, <2>8 DEF Captive
<1>4. CASE Verify
  <2>1. /\ p \in Applying /\ UNCHANGED <<kept, void, exposed>>
        /\ p' = Idle \/ (\E c : Runs(p', c, p.k)) \/ (Runs(p', "undo", p.k - 1) /\ p.k - 1 # 0)
    BY <1>4, VerifyIs, UndoneIs
  <2>2. \A i \in 1..(p.k - 1), f \in File : Backs(p, i, f) => <<f, p.pre[f]>> \in kept
    BY <2>1 DEF Captive
  <2>3. CASE p' = Idle
    BY <2>3, PhasesApart DEF Captive
  <2>4. CASE \E c : Runs(p', c, p.k)
    BY <1>0, <2>1, <2>2, <2>4, CaptiveGoesOn
  <2>5. CASE Runs(p', "undo", p.k - 1) /\ p.k - 1 # 0
    <3>1. p.k - 1 \in 1..Len(p.ops) /\ \A i \in 1..((p.k - 1) - 1) : i \in 1..(p.k - 1)
      BY <1>0, <2>1, <2>5
    <3>2. QED
      BY <1>0, <2>1, <2>2, <2>5, <3>1, CaptiveGoesOn
  <2>6. QED
    BY <2>1, <2>3, <2>4, <2>5
<1>5. CASE Operate
  <2>1. CASE p.k < Len(p.ops)
    <3>1. /\ p \in Applying /\ Runs(p', "verify", p.k + 1)
          /\ UNCHANGED <<void, exposed>> /\ kept \subseteq kept'
          /\ Now.kind = "backup" => <<Now.on, p.pre[Now.on]>> \in kept'
      BY <1>5, <2>1, OperateIs
    <3>2. p.k + 1 \in 1..Len(p.ops) /\ \A i \in 1..((p.k + 1) - 1) : i \in 1..(p.k - 1) \/ i = p.k
      BY <1>0, <2>1, <3>1
    <3>3. \A f \in File : Backs(p, p.k, f) => <<f, p.pre[f]>> \in kept'
      BY <1>0, <3>1, NowIs
    <3>4. \A i \in 1..(p.k - 1), f \in File : Backs(p, i, f) => <<f, p.pre[f]>> \in kept'
      BY <3>1 DEF Captive
    <3>5. QED
      BY <1>0, <3>1, <3>2, <3>3, <3>4, CaptiveGoesOn
  <2>2. CASE p.k = Len(p.ops)
    BY <1>5, <2>2, OperateIs, PhasesApart DEF Captive
  <2>3. QED
    BY <1>5, <2>1, <2>2, OperateIs
<1>6. CASE OperateFails
  <2>1. p \in Applying /\ Runs(p', "undo", p.k) /\ UNCHANGED <<kept, void, exposed>>
    BY <1>6, OperateFailsIs
  <2>2. \A i \in 1..(p.k - 1), f \in File : Backs(p, i, f) => <<f, p.pre[f]>> \in kept
    BY <2>1 DEF Captive
  <2>3. QED
    BY <1>0, <2>1, <2>2, CaptiveGoesOn
<1>7. ASSUME p \in Applying, Undone(p.k - 1), p.kept \subseteq kept',
             void \subseteq void', exposed = exposed',
             kept' = kept \/ (Now.kind = "backup" /\ kept' = kept \ Backup)
      PROVE  Captive'
  <2>1. CASE p' = Idle
    BY <2>1, PhasesApart DEF Captive
  <2>2. CASE p.k - 1 # 0 /\ Runs(p', "undo", p.k - 1)
    <3>1. p.k - 1 \in 1..Len(p.ops) /\ \A i \in 1..((p.k - 1) - 1) : i \in 1..(p.k - 1)
      BY <1>0, <1>7, <2>2
    <3>2. \A i \in 1..(p.k - 1), f \in File : Backs(p, i, f) => <<f, p.pre[f]>> \in kept
      BY <1>7 DEF Captive
    <3>3. ASSUME NEW i \in 1..(p.k - 1), NEW f \in File, Backs(p, i, f)
          PROVE  <<f, p.pre[f]>> \in kept'
      <4>1. CASE kept' = kept
        BY <3>2, <3>3, <4>1
      <4>2. CASE Now.kind = "backup" /\ kept' = kept \ Backup
        <5>1. i \in 1..Len(p.ops) /\ i # p.k
          BY <1>0, <1>7
        <5>2. Now.on # f
          <6>1. \A a, b \in 1..Len(p.ops), g \in File : Backs(p, a, g) /\ Backs(p, b, g) => a = b
            BY <1>7 DEF Captive, Sound, Complete
          <6>2. Backs(p, p.k, Now.on)
            BY <1>0, <1>7, <4>2, NowIs
          <6>3. QED
            BY <1>0, <1>7, <3>3, <5>1, <6>1, <6>2
        <5>3. <<f, p.pre[f]>> \notin Backup
          BY <5>2 DEF Backup
        <5>4. QED
          BY <3>2, <3>3, <4>2, <5>3
      <4>3. QED
        BY <1>7, <4>1, <4>2
    <3>4. QED
      BY <1>7, <2>2, <3>1, <3>3, CaptiveGoesOn
  <2>3. QED
    BY <1>7, <2>1, <2>2 DEF Undone
<1>8. CASE Rollback
  <2>1. /\ p \in Applying /\ Undone(p.k - 1) /\ void' = void /\ exposed' = exposed
        /\ kept' = kept \/ (Now.kind = "backup" /\ kept' = kept \ Backup)
    BY <1>8, RollbackIs
  <2>2. p.kept \subseteq kept'
    BY <1>0, <2>1 DEF Backup
  <2>3. QED
    BY <1>7, <2>1, <2>2
<1>9. CASE RestoreFails
  <2>1. /\ p \in Applying /\ Undone(p.k - 1) /\ void \subseteq void' /\ exposed' = exposed
        /\ kept' = kept
    BY <1>9, RestoreFailsIs
  <2>2. QED
    BY <1>0, <1>7, <2>1
<1>10. CASE Crash
  BY <1>10, CrashIs, PhasesApart DEF Captive
<1>11. ASSUME NEW f \in File, NEW v \in User \cup {Missing}, EditFile(f, v)
       PROVE  Captive'
  <2>1. p' = p /\ kept' = kept /\ void \subseteq void' /\ exposed \subseteq exposed'
    BY <1>11, EditIs, Phases
  <2>2. QED
    BY <2>1 DEF Captive
<1>12. QED
  BY <1>1, <1>2, <1>3, <1>4, <1>5, <1>6, <1>8, <1>9, <1>10, <1>11 DEF Next, Promotion

(* One path of the disk is replaced.                                       *)
LEMMA DiskIs ==
  ASSUME Typed, NEW x \in Path, NEW v, disk' = [disk EXCEPT ![x] = v]
  PROVE  disk'[x] = v /\ \A y \in Path \ {x} : disk'[y] = disk[y]
BY DEF Typed, Trees

(* ... how far the promotion has come ...                                  *)
LEMMA ForwardThen ==
  ASSUME Base, Next
  PROVE  Forward'
<1> USE DEF Base
<1>0. p \in Applying => p.k \in 1..Len(p.ops) /\ Len(p.ops) \in Nat
  BY DEF Captive, Applying
<1>1. ASSUME NEW S \in SUBSET Generated, NEW a \in BOOLEAN, NEW b \in BOOLEAN,
             GenerateClusterTree(S, a, b)
      PROVE  Forward'
  BY <1>1, GenerateIs, PhasesApart DEF Forward
<1>2. CASE Plan
  BY <1>2, PlanIs, PhasesApart DEF Forward
<1>3. CASE TakePreimages
  <2>1. p'.pc = "verify" /\ p'.k = 1 /\ disk' = disk /\ void' = void
    BY <1>3, TakePreimagesIs
  <2>2. \A i : i \notin 1..(1 - 1)
    OBVIOUS
  <2>3. ASSUME NEW x \in Path PROVE disk[x] = p'.pre[x] \/ x \in void
    <3>1. p'.pre[x] = IF x \in File /\ p.seen[x] # Missing THEN p.seen[x] ELSE disk[x]
      BY <1>3, TakePreimagesIs
    <3>2. \A f \in File : disk[f] # p.seen[f] => f \in void
      BY <1>3, TakePreimagesIs DEF Ready
    <3>3. QED
      BY <3>1, <3>2
  <2>4. QED
    BY <2>1, <2>2, <2>3 DEF Forward
<1>4. CASE Verify
  <2>1. /\ p \in Applying /\ p.pc = "verify" /\ UNCHANGED <<disk, void>>
        /\ p' = Idle \/ Runs(p', "operate", p.k) \/ Runs(p', "undo", p.k - 1)
    BY <1>4, VerifyIs, UndoneIs
  <2>2. CASE Runs(p', "operate", p.k)
    <3>1. /\ \A i, x : Changes(p', i, x) <=> Changes(p, i, x)
          /\ \A x : Reached(x)' <=> \E i \in 1..p.k : Changes(p, i, x)
          /\ p'.k = p.k /\ p'.pre = p.pre /\ p'.to = p.to
      BY <2>2, ReachedThen DEF Runs, Like
    <3>2. \A x : Reached(x) => \E i \in 1..p.k : Changes(p, i, x)
      BY <1>0, <2>1 DEF Reached, Reach
    <3>3. QED
      BY <2>1, <3>1, <3>2 DEF Forward
  <2>3. CASE p' = Idle \/ Runs(p', "undo", p.k - 1)
    BY <2>3, PhasesApart DEF Forward, Runs
  <2>4. QED
    BY <2>1, <2>2, <2>3
<1>5. CASE Operate
  <2>1. CASE p' = Idle
    BY <2>1, PhasesApart DEF Forward
  <2>2. CASE p' # Idle
    <3>1. /\ p \in Applying /\ p.pc = "operate" /\ Runs(p', "verify", p.k + 1) /\ void' = void
          /\ disk' = disk \/ disk' = [disk EXCEPT ![Now.on] = p.to[Now.on]]
          /\ Now.kind # "backup" => disk' = [disk EXCEPT ![Now.on] = p.to[Now.on]]
          /\ Now.kind = "backup" => disk' = disk
      BY <1>5, <2>2, OperateIs
    <3>2. /\ \A i, x : Changes(p', i, x) <=> Changes(p, i, x)
          /\ \A x : Reached(x)' <=> \E i \in 1..((p.k + 1) - 1) : Changes(p, i, x)
          /\ p'.k = p.k + 1 /\ p'.pre = p.pre /\ p'.to = p.to
      BY <3>1, ReachedThen DEF Runs, Like
    <3>3. (p.k + 1) - 1 = p.k /\ \A i \in 1..p.k : i \in 1..(p.k - 1) \/ i = p.k
      BY <1>0, <3>1
    <3>4. \A x : Reached(x)' <=> Reached(x)
      BY <3>1, <3>2, <3>3 DEF Reached, Reach
    <3>5. /\ Now.on \in Path /\ p.k \in 1..p.k
          /\ \A x : Changes(p, p.k, x) <=> Now.kind # "backup" /\ Now.on = x
      BY <1>0, <3>1, NowIs
    <3>6. \A x \in Path : disk'[x] = disk[x] \/ (disk'[x] = p.to[x] /\ Changes(p, p.k, x))
      <4>1. CASE Now.kind = "backup"
        BY <3>1, <4>1
      <4>2. CASE Now.kind # "backup"
        <5>1. disk'[Now.on] = p.to[Now.on] /\ \A x \in Path \ {Now.on} : disk'[x] = disk[x]
          BY <3>1, <3>5, <4>2, DiskIs
        <5>2. QED
          BY <3>5, <4>2, <5>1
      <4>3. QED
        BY <4>1, <4>2
    <3>7. \A x \in Path : Changes(p, p.k, x) => disk'[x] = p.to[x]
      <4>1. CASE Now.kind = "backup"
        BY <3>5, <4>1
      <4>2. CASE Now.kind # "backup"
        <5>1. disk'[Now.on] = p.to[Now.on]
          BY <3>1, <3>5, <4>2, DiskIs
        <5>2. QED
          BY <3>5, <4>2, <5>1
      <4>3. QED
        BY <4>1, <4>2
    <3>8. ASSUME NEW x \in Path, ~Reached(x) PROVE disk'[x] = p.pre[x] \/ x \in void
      <4>1. ~Changes(p, p.k, x)
        BY <3>1, <3>5, <3>8 DEF Reached, Reach
      <4>2. QED
        BY <3>1, <3>6, <3>8, <4>1 DEF Forward
    <3>9. ASSUME NEW i \in 1..p.k, NEW x \in Path, Changes(p, i, x)
          PROVE  disk'[x] = p.to[x] \/ x \in void
      <4>1. CASE i \in 1..(p.k - 1)
        BY <3>1, <3>6, <3>9, <4>1 DEF Forward
      <4>2. CASE i = p.k
        BY <3>7, <3>9, <4>2
      <4>3. QED
        BY <3>3, <4>1, <4>2
    <3>10. QED
      BY <3>1, <3>2, <3>3, <3>4, <3>8, <3>9 DEF Forward
  <2>3. QED
    BY <2>1, <2>2
<1>6. CASE OperateFails
  BY <1>6, OperateFailsIs DEF Forward, Runs
<1>7. CASE Rollback
  BY <1>7, RollbackIs, UndoneIs, PhasesApart DEF Forward, Runs
<1>8. CASE RestoreFails
  BY <1>8, RestoreFailsIs, UndoneIs, PhasesApart DEF Forward, Runs
<1>9. CASE Crash
  BY <1>9, CrashIs, PhasesApart DEF Forward
<1>10. ASSUME NEW f \in File, NEW v \in User \cup {Missing}, EditFile(f, v)
       PROVE  Forward'
  <2>1. p' = p
    BY <1>10, EditIs
  <2>2. CASE p \notin Applying
    BY <2>1, <2>2 DEF Forward
  <2>3. CASE p \in Applying
    <3>1. void' = void \cup {f} /\ disk' = [disk EXCEPT ![f] = v]
      BY <1>10, <2>3, EditIs, PhasesApart
    <3>2. \A x \in Path : disk'[x] = disk[x] \/ x \in void'
      BY <3>1, DiskIs, LedgersAre
    <3>3. \A x : Reached(x)' <=> Reached(x)
      BY <2>1 DEF Reached, Reach, Changes
    <3>4. QED
      BY <2>1, <2>3, <3>1, <3>2, <3>3 DEF Forward
  <2>4. QED
    BY <2>2, <2>3
<1>11. QED
  BY <1>1, <1>2, <1>3, <1>4, <1>5, <1>6, <1>7, <1>8, <1>9, <1>10 DEF Next, Promotion

(* What people wrote is only ever replaced by a write, after its backup.   *)
LEMMA BackedUp ==
  ASSUME Base, p \in Applying, NEW f \in File, mine[f] # Nothing, f \notin exposed,
         p.pre[f] = mine[f], NEW j \in 1..p.k, Changes(p, j, f)
  PROVE  p.ops[j].kind = "write" /\ <<f, mine[f]>> \in kept
<1>1. mine[f] \in User
  BY DEF Base, Typed
<1>2. p.seen[f] \in User
  BY <1>1 DEF Base, Captive
<1>3. p.k \in 1..Len(p.ops) /\ Len(p.ops) \in Nat
  BY DEF Base, Captive, Applying
<1>4. j \in 1..Len(p.ops)
  BY <1>3
<1>5. p.ops[j].kind = "write" /\ \E i \in 1..(j - 1) : Backs(p, i, f)
  BY <1>2, <1>4 DEF Base, Captive, Sound, Cautious
<1>6. PICK i \in 1..(j - 1) : Backs(p, i, f)
  BY <1>5
<1>7. i \in 1..(p.k - 1)
  BY <1>3
<1>8. <<f, p.pre[f]>> \in kept
  BY <1>6, <1>7 DEF Base, Captive
<1>9. QED
  BY <1>5, <1>8

(* ... and what people wrote.                                              *)
LEMMA SavedThen ==
  ASSUME Base, Saved, Next
  PROVE  Saved'
<1> USE DEF Base
<1>0. p \in Applying =>
        /\ p.k \in 1..Len(p.ops) /\ Len(p.ops) \in Nat /\ p.kept \subseteq kept
        /\ \A i, j \in 1..Len(p.ops), x \in Path : Changes(p, i, x) /\ Changes(p, j, x) => i = j
  BY DEF Captive, Applying, Sound, Complete
<1>a. \A f \in File : mine[f] # Nothing /\ f \notin exposed \cup unrestored =>
        /\ p \in Applying => Holds(f)
        /\ p \notin Applying => Survives(f)
  BY DEF Saved, Holds
<1>b. SUFFICES ASSUME NEW f \in File, mine'[f] # Nothing, f \notin exposed' \cup unrestored'
               PROVE  /\ p' \in Applying => Holds(f)'
                      /\ p' \notin Applying => Survives(f)'
  BY DEF Saved, Holds
<1>1. ASSUME NEW S \in SUBSET Generated, NEW a \in BOOLEAN, NEW b \in BOOLEAN,
             GenerateClusterTree(S, a, b)
      PROVE  p' \notin Applying /\ Survives(f)'
  BY <1>1, <1>a, <1>b, GenerateIs, PhasesApart DEF Survives
<1>2. CASE Plan
  <2>1. p \notin Applying /\ p' \notin Applying
    BY <1>2, PlanIs, PhasesApart
  <2>2. QED
    BY <1>2, <1>a, <1>b, <2>1, PlanIs DEF Survives
<1>3. CASE TakePreimages
  <2>1. p \notin Applying /\ p' \in Applying /\ p'.pc = "verify" /\ p'.k = 1 /\ p'.kept = kept
    BY <1>3, TakePreimagesIs, PhasesApart
  <2>2. ~Reached(f)'
    <3>1. \A i : i \notin 1..(1 - 1)
      OBVIOUS
    <3>2. QED
      BY <2>1, <3>1 DEF Reached, Reach
  <2>3. Survives(f)
    BY <1>3, <1>a, <1>b, <2>1, TakePreimagesIs
  <2>4. QED
    BY <1>3, <2>1, <2>2, <2>3, TakePreimagesIs DEF Survives, Holds
<1>4. CASE Verify
  <2>1. /\ p \in Applying /\ p.pc = "verify" /\ p.k \in 1..Len(p.ops)
        /\ UNCHANGED <<disk, kept, mine, exposed, unrestored>>
        /\ \/ Runs(p', "operate", p.k) /\ (Now.kind = "backup" \/ disk[Now.on] = p.pre[Now.on])
           \/ Undone(p.k - 1)
    BY <1>4, VerifyIs
  <2>2. Holds(f)
    BY <1>a, <1>b, <2>1
  <2>3. Reached(f) <=> \E i \in 1..(p.k - 1) : Changes(p, i, f)
    BY <2>1 DEF Reached, Reach
  <2>4. CASE Runs(p', "operate", p.k) /\ (Now.kind = "backup" \/ disk[Now.on] = p.pre[Now.on])
    <3>1. /\ Reached(f)' <=> \E i \in 1..p.k : Changes(p, i, f)
          /\ p'.pre = p.pre /\ p'.kept = p.kept /\ p' \in Applying
      BY <2>4, ReachedThen DEF Runs, Like
    <3>2. Changes(p, p.k, f) => disk[f] = p.pre[f]
      BY <2>1, <2>4, NowIs
    <3>3. Reached(f)' <=> Reached(f) \/ Changes(p, p.k, f)
      BY <1>0, <2>1, <2>3, <3>1
    <3>4. QED
      BY <2>1, <2>2, <3>1, <3>2, <3>3 DEF Holds
  <2>5. CASE Undone(p.k - 1)
    <3>1. CASE p' = Idle
      <4>1. p.k - 1 = 0
        BY <2>5, <3>1, PhasesApart DEF Undone, Runs
      <4>2. ~Reached(f)
        BY <2>3, <4>1
      <4>3. QED
        BY <1>0, <2>1, <2>2, <3>1, <4>2, PhasesApart DEF Holds, Survives
    <3>2. CASE Runs(p', "undo", p.k - 1)
      <4>1. /\ Reached(f)' <=> \E i \in 1..(p.k - 1) : Changes(p, i, f)
            /\ p'.pre = p.pre /\ p'.kept = p.kept /\ p' \in Applying
        BY <3>2, ReachedThen DEF Runs, Like
      <4>2. QED
        BY <2>1, <2>2, <2>3, <4>1 DEF Holds
    <3>3. QED
      BY <2>5, <3>1, <3>2 DEF Undone
  <2>6. QED
    BY <2>1, <2>4, <2>5
<1>5. CASE Operate
  <2>1. /\ p \in Applying /\ p.pc = "operate" /\ p.k \in 1..Len(p.ops)
        /\ UNCHANGED <<mine, exposed, unrestored>> /\ kept \subseteq kept'
    BY <1>5, OperateIs
  <2>2. Holds(f)
    BY <1>a, <1>b, <2>1
  <2>3. Reached(f) <=> \E i \in 1..p.k : Changes(p, i, f)
    BY <2>1 DEF Reached, Reach
  <2>4. ~Reached(f) => disk'[f] = disk[f]
    <3>1. p.k \in 1..p.k
      BY <1>0, <2>1
    <3>2. ~Changes(p, p.k, f) <=> Now.kind = "backup" \/ Now.on # f
      BY <2>1, NowIs
    <3>3. CASE Now.kind = "backup"
      BY <1>5, <3>3, OperateIs
    <3>4. CASE Now.kind # "backup"
      <4>1. Now.on \in Path /\ disk' = [disk EXCEPT ![Now.on] = p.to[Now.on]]
        BY <1>5, <2>1, <3>4, OperateIs, NowIs
      <4>2. \A y \in Path \ {Now.on} : disk'[y] = disk[y]
        BY <4>1, DiskIs
      <4>3. QED
        BY <2>3, <3>1, <3>2, <3>4, <4>2, LedgersAre
    <3>5. QED
      BY <3>3, <3>4
  <2>5. CASE p' = Idle
    <3>1. Reached(f) /\ p.pre[f] = mine[f] => <<f, mine[f]>> \in kept
      BY <1>b, <2>1, <2>3, BackedUp
    <3>2. QED
      BY <1>0, <2>1, <2>2, <2>4, <2>5, <3>1, PhasesApart DEF Holds, Survives
  <2>6. CASE Runs(p', "verify", p.k + 1)
    <3>1. /\ Reached(f)' <=> \E i \in 1..((p.k + 1) - 1) : Changes(p, i, f)
          /\ p'.pre = p.pre /\ p'.kept = p.kept /\ p' \in Applying
      BY <2>6, ReachedThen DEF Runs, Like
    <3>2. (p.k + 1) - 1 = p.k
      BY <1>0, <2>1
    <3>3. Reached(f)' <=> Reached(f)
      BY <2>3, <3>1, <3>2
    <3>4. QED
      BY <2>1, <2>2, <2>4, <3>1, <3>3 DEF Holds
  <2>7. QED
    BY <1>5, <2>5, <2>6, OperateIs
<1>6. CASE OperateFails
  <2>1. /\ p \in Applying /\ p.pc = "operate" /\ Runs(p', "undo", p.k)
        /\ UNCHANGED <<disk, kept, mine, exposed, unrestored>>
    BY <1>6, OperateFailsIs
  <2>2. Holds(f)
    BY <1>a, <1>b, <2>1
  <2>3. /\ Reached(f)' <=> \E i \in 1..p.k : Changes(p, i, f)
        /\ p'.pre = p.pre /\ p'.kept = p.kept /\ p' \in Applying
    BY <2>1, ReachedThen DEF Runs, Like
  <2>4. Reached(f) <=> \E i \in 1..p.k : Changes(p, i, f)
    BY <2>1 DEF Reached, Reach
  <2>5. QED
    BY <2>1, <2>2, <2>3, <2>4 DEF Holds
(* One operation less to undo.                                             *)
<1>7. ASSUME p \in Applying, p.pc = "undo", Undone(p.k - 1), p.kept \subseteq kept', Holds(f),
             mine'[f] = mine[f],
             ~Changes(p, p.k, f) => disk'[f] = disk[f],
             Changes(p, p.k, f) /\ p.pre[f] = mine[f] => disk'[f] = mine[f]
      PROVE  /\ p' \in Applying => Holds(f)'
             /\ p' \notin Applying => Survives(f)'
  <2>1. p.k \in 1..Len(p.ops) /\ Len(p.ops) \in Nat
    BY <1>0, <1>7
  <2>2. Reached(f) <=> \E i \in 1..p.k : Changes(p, i, f)
    BY <1>7 DEF Reached, Reach
  <2>3. \A i \in 1..p.k : i \in 1..(p.k - 1) \/ i = p.k
    BY <2>1
  <2>4. \A i \in 1..(p.k - 1) : i \in 1..p.k /\ i # p.k
    BY <2>1
  <2>5. p.k \in 1..p.k /\ f \in Path
    BY <2>1, LedgersAre
  <2>6. CASE p' = Idle
    <3>1. p.k - 1 = 0
      BY <1>7, <2>6, PhasesApart DEF Undone, Runs
    <3>2. Reached(f) <=> Changes(p, p.k, f)
      BY <2>2, <2>3, <2>5, <3>1
    <3>3. <<f, mine[f]>> \in p.kept \/ disk'[f] = mine[f]
      BY <1>7, <3>2 DEF Holds
    <3>4. QED
      BY <1>7, <2>6, <3>3, PhasesApart DEF Survives
  <2>7. CASE Runs(p', "undo", p.k - 1)
    <3>1. /\ Reached(f)' <=> \E i \in 1..(p.k - 1) : Changes(p, i, f)
          /\ p'.pre = p.pre /\ p'.kept = p.kept /\ p' \in Applying
      BY <2>7, ReachedThen DEF Runs, Like
    <3>2. CASE Changes(p, p.k, f)
      <4>1. \A i, j \in 1..Len(p.ops) : Changes(p, i, f) /\ Changes(p, j, f) => i = j
        BY <1>0, <1>7, <2>5
      <4>2. \A i \in 1..(p.k - 1) : i \in 1..Len(p.ops)
        BY <2>1
      <4>3. ~Reached(f)' /\ Reached(f)
        BY <2>1, <2>2, <2>4, <2>5, <3>1, <3>2, <4>1, <4>2
      <4>4. QED
        BY <1>7, <3>1, <3>2, <4>3 DEF Holds
    <3>3. CASE ~Changes(p, p.k, f)
      <4>1. Reached(f)' <=> Reached(f)
        BY <2>2, <2>3, <2>4, <3>1, <3>3
      <4>2. QED
        BY <1>7, <3>1, <3>3, <4>1 DEF Holds
    <3>4. QED
      BY <3>2, <3>3
  <2>8. QED
    BY <1>7, <2>6, <2>7 DEF Undone
<1>8. CASE Rollback
  <2>1. /\ p \in Applying /\ p.pc = "undo" /\ p.k \in 1..Len(p.ops) /\ Undone(p.k - 1)
        /\ UNCHANGED <<mine, exposed, unrestored>>
    BY <1>8, RollbackIs
  <2>2. p.kept \subseteq kept'
    BY <1>0, <1>8, <2>1, RollbackIs DEF Backup
  <2>3. CASE Now.kind = "backup"
    BY <1>8, <1>a, <1>b, <1>7, <2>1, <2>2, <2>3, RollbackIs, NowIs
  <2>4. CASE Now.kind # "backup"
    <3>1. Now.on \in Path /\ disk' = [disk EXCEPT ![Now.on] = p.pre[Now.on]]
      BY <1>8, <2>1, <2>4, RollbackIs, NowIs
    <3>2. disk'[Now.on] = p.pre[Now.on] /\ \A y \in Path \ {Now.on} : disk'[y] = disk[y]
      BY <3>1, DiskIs
    <3>3. /\ Changes(p, p.k, f) => disk'[f] = p.pre[f]
          /\ ~Changes(p, p.k, f) => disk'[f] = disk[f]
      BY <2>1, <2>4, <3>2, NowIs, LedgersAre
    <3>4. QED
      BY <1>a, <1>b, <1>7, <2>1, <2>2, <3>3
  <2>5. QED
    BY <2>3, <2>4
<1>9. CASE RestoreFails
  <2>1. /\ p \in Applying /\ p.pc = "undo" /\ p.k \in 1..Len(p.ops) /\ Undone(p.k - 1)
        /\ UNCHANGED <<disk, kept, mine, exposed>>
        /\ Now.kind = "write" => unrestored' = unrestored \cup {Now.on}
        /\ unrestored \subseteq unrestored'
    BY <1>9, RestoreFailsIs
  <2>2. p.kept \subseteq kept' /\ p.k \in 1..p.k
    BY <1>0, <2>1
  <2>3. ~(Changes(p, p.k, f) /\ p.pre[f] = mine[f])
    <3>1. SUFFICES ASSUME Changes(p, p.k, f), p.pre[f] = mine[f] PROVE FALSE
      OBVIOUS
    <3>2. Now.on = f
      BY <2>1, <3>1, NowIs
    <3>3. p.ops[p.k].kind = "write"
      BY <1>b, <2>1, <2>2, <3>1, BackedUp
    <3>4. f \in unrestored'
      BY <2>1, <3>2, <3>3 DEF Now
    <3>5. QED
      BY <1>b, <3>4
  <2>4. QED
    BY <1>a, <1>b, <1>7, <2>1, <2>2, <2>3
<1>10. CASE Crash
  <2>1. /\ p' = Idle /\ p' \notin Applying /\ UNCHANGED <<disk, kept, mine, exposed, unrestored>>
    BY <1>10, CrashIs, PhasesApart
  <2>2. CASE p \notin Applying
    BY <1>a, <1>b, <2>1, <2>2 DEF Survives
  <2>3. CASE p \in Applying
    <3>1. Reached(f) => \E i \in 1..p.k : Changes(p, i, f)
      BY <1>0, <2>3 DEF Reached, Reach
    <3>2. Reached(f) /\ p.pre[f] = mine[f] => <<f, mine[f]>> \in kept
      BY <1>b, <2>1, <2>3, <3>1, BackedUp
    <3>3. Holds(f)
      BY <1>a, <1>b, <2>1, <2>3
    <3>4. QED
      BY <1>0, <2>1, <2>3, <3>2, <3>3 DEF Holds, Survives
  <2>4. QED
    BY <2>2, <2>3
<1>11. ASSUME NEW g \in File, NEW v \in User \cup {Missing}, EditFile(g, v)
       PROVE  /\ p' \in Applying => Holds(f)'
              /\ p' \notin Applying => Survives(f)'
  <2>1. /\ p' = p /\ kept' = kept /\ disk' = [disk EXCEPT ![g] = v]
        /\ mine' = [mine EXCEPT ![g] = IF v = Missing THEN Nothing ELSE v]
        /\ exposed \subseteq exposed' /\ unrestored' = unrestored
        /\ InWindow(g) => g \in exposed'
    BY <1>11, EditIs
  <2>2. Reached(f)' <=> Reached(f)
    BY <2>1 DEF Reached, Reach, Changes
  <2>3. CASE f = g
    <3>1. disk'[f] = v /\ mine'[f] = v
      BY <1>b, <2>1, <2>3, LedgersAre DEF Typed, Trees
    <3>2. p \in Applying => ~Reached(f)
      BY <1>0, <1>b, <2>1, <2>3, TouchedIs DEF InWindow
    <3>3. QED
      BY <2>1, <2>2, <3>1, <3>2 DEF Holds, Survives
  <2>4. CASE f # g
    <3>1. disk'[f] = disk[f] /\ mine'[f] = mine[f]
      BY <2>1, <2>4, LedgersAre DEF Typed, Trees
    <3>2. QED
      BY <1>a, <1>b, <2>1, <2>2, <3>1 DEF Holds, Survives
  <2>5. QED
    BY <2>3, <2>4
<1>12. QED
  BY <1>1, <1>2, <1>3, <1>4, <1>5, <1>6, <1>8, <1>9, <1>10, <1>11 DEF Next, Promotion

(* It is so in the beginning, ...                                          *)
LEMMA InitIsSaved ==
  ASSUME Init
  PROVE  IInv
<1>1. p = Idle /\ p \notin Staging \cup Planning \cup Applying
  BY PhasesApart DEF Init
<1>2. disk \in Trees
  <2>1. PICK b : b = Boot
    OBVIOUS
  <2>2. b \in Records
    BY <2>1 DEF Boot, Records
  <2>3. disk = [x \in Path |-> IF x \in Ledger THEN b ELSE Missing]
    BY <2>1 DEF Init
  <2>4. QED
    BY <2>2, <2>3, LedgersAre DEF Trees, Value
<1>3. Typed
  BY <1>1, <1>2 DEF Init, Typed, Backups
<1>4. \A f \in File : mine[f] = Nothing
  BY DEF Init
<1>5. QED
  BY <1>1, <1>3, <1>4 DEF IInv, Base, Ready, Captive, Forward, Saved

(* ... stays so with every step ...                                        *)
LEMMA StepIsSaved ==
  ASSUME IInv, [Next]_vars
  PROVE  IInv'
<1>1. CASE Next
  <2>1. Typed' /\ Ready' /\ Captive' /\ Forward'
    BY <1>1, TypedThen, ReadyThen, CaptiveThen, ForwardThen DEF IInv, Base
  <2>2. Saved'
    BY <1>1, SavedThen DEF IInv
  <2>3. QED
    BY <2>1, <2>2 DEF IInv, Base
<1>2. CASE UNCHANGED vars
  <2>1. /\ disk' = disk /\ kept' = kept /\ p' = p /\ mine' = mine /\ exposed' = exposed
        /\ unrestored' = unrestored /\ void' = void
    BY <1>2 DEF vars
  <2>2. Typed'
    BY <2>1 DEF IInv, Base, Typed
  <2>3. Ready' /\ Captive'
    BY <2>1 DEF IInv, Base, Ready, Captive
  <2>4. \A x : Reached(x)' <=> Reached(x)
    BY <2>1 DEF Reached, Reach, Changes
  <2>5. Forward'
    BY <2>1, <2>4 DEF IInv, Base, Forward
  <2>6. Saved'
    BY <2>1, <2>4 DEF IInv, Saved, Survives, Holds
  <2>7. QED
    BY <2>2, <2>3, <2>5, <2>6 DEF IInv, Base
<1>3. QED
  BY <1>1, <1>2

(* ... and is always so.                                                   *)
LEMMA AlwaysSaved == Spec => []IInv
BY InitIsSaved, StepIsSaved, PTL DEF Spec

(* The ledgers speak of generated contents only, backups are of files, and *)
(* a promotion that applies, or undoes, an operation of its plan has one.  *)
THEOREM TypeIsSafe == Spec => []TypeOK
<1>1. ASSUME IInv PROVE TypeOK
  <2>1. \A f \in File : disk[f] \in Content \union User \union {Missing}
    BY <1>1 DEF IInv, Base, Typed, Trees, Value
  <2>2. \A l \in Ledger, f \in Generated : disk[l][f] \in Content \union {NoRecord, "boot"}
    BY <1>1 DEF IInv, Base, Typed, Trees, Records
  <2>3. kept \subseteq File \X (Content \union User)
    BY <1>1 DEF IInv, Base, Typed, Backups
  <2>4. /\ p.pc \in {"idle", "plan", "preimages", "verify", "operate", "undo"}
        /\ p.pc \in {"verify", "operate", "undo"} => p.k \in 1..Len(p.ops)
    BY <1>1, Phases DEF IInv, Base, Captive
  <2>5. QED
    BY <2>1, <2>2, <2>3, <2>4 DEF TypeOK
<1>2. QED
  BY <1>1, AlwaysSaved, PTL

(* What people wrote is where they left it or in a backup, wherever        *)
(* promotions fail, roll back or die: a plan adopts a file only after its  *)
(* backup (planRepositoryPromotion), a rollback restores the preimage      *)
(* before it takes the backup back (applyGeneratedTreePlan).  The edits    *)
(* that fall into a window are excepted, and so are failed restores.       *)
THEOREM UserWorkIsKept == Spec => []UserWorkKept
<1>1. ASSUME IInv PROVE UserWorkKept
  <2>1. SUFFICES ASSUME NEW f \in File, mine[f] # Nothing, f \notin exposed \union unrestored
                 PROVE  Survives(f)
    BY DEF UserWorkKept
  <2>2. CASE p \notin Applying
    BY <1>1, <2>1, <2>2 DEF IInv, Saved
  <2>3. CASE p \in Applying
    <3>1. Holds(f) /\ p.kept \subseteq kept
      BY <1>1, <2>1, <2>3 DEF IInv, Base, Captive, Saved, Holds
    <3>2. CASE Reached(f) /\ p.pre[f] = mine[f]
      <4>1. \E i \in 1..p.k : Changes(p, i, f)
        BY <1>1, <2>3, <3>2 DEF Reached, Reach, IInv, Base, Captive, Applying
      <4>2. QED
        BY <1>1, <2>1, <2>3, <3>2, <4>1, BackedUp DEF IInv, Survives
    <3>3. QED
      BY <3>1, <3>2 DEF Holds, Survives
  <2>4. QED
    BY <2>2, <2>3
<1>2. QED
  BY <1>1, AlwaysSaved, PTL

-----------------------------------------------------------------------------
(* The refinement.                                                         *)

(* What callers see of a path, and of the backups.                         *)
Viewed ==
  /\ p \in Applying => /\ InBackup = p.kept
                       /\ \A x : ViewOf(x) = IF Reached(x) THEN p.pre[x] ELSE disk[x]
  /\ p \notin Applying => InBackup = kept /\ \A x : ViewOf(x) = disk[x]

(* It is the preimage of what was reached, and what is there elsewhere.    *)
LEMMA ViewIs == Typed /\ Captive => Viewed
<1>1. SUFFICES ASSUME Typed, Captive PROVE Viewed
  OBVIOUS
<1>2. CASE p \in Applying
  <2>1. p.pc \in {"verify", "operate", "undo"} /\ p.k \in 1..Len(p.ops)
    BY <1>1, <1>2, PhasesApart DEF Captive
  <2>2. QED
    BY <1>1, <1>2, <2>1, TouchedIs DEF Viewed, ViewOf, InBackup
<1>3. CASE p \notin Applying
  <2>1. p.pc \notin {"verify", "operate", "undo"} /\ Touched = {}
    BY <1>1, <1>3, Phases, TouchedIs
  <2>2. QED
    BY <1>3, <2>1 DEF Viewed, ViewOf, InBackup
<1>4. QED
  BY <1>2, <1>3

(* Before and after every step.                                            *)
LEMMA ViewsAre ==
  ASSUME Base, Next
  PROVE  Viewed /\ Viewed' /\ Typed' /\ Captive'
<1>1. Typed' /\ Captive'
  BY TypedThen, CaptiveThen DEF Base
<1>2. (Typed /\ Captive)' => Viewed'
  BY ViewIs, PTL
<1>3. QED
  BY <1>1, <1>2, ViewIs DEF Base

(* The same record in what callers see.                                    *)
RecordOf(f) == Recorded(ViewOf(LedgerOf(f)), f)

(* Callers see no difference, except at paths for which the promise is     *)
(* void.                                                                   *)
Unseen ==
  /\ void \subseteq void' /\ InBackup \subseteq InBackup'
  /\ \A f \in File \ void' : ViewOf(f)' = ViewOf(f)
  /\ \A f \in Generated \ void' : RecordOf(f)' = RecordOf(f)

(* The refinement mapping, in these terms.                                 *)
Visible ==
  /\ tree = [f \in File |-> IF f \in void THEN Unsure ELSE ViewOf(f)]
  /\ owned = [f \in File |-> IF f \in void THEN Unsure
                             ELSE IF f \in Seed THEN NoRecord ELSE RecordOf(f)]

(* So it is defined.                                                       *)
LEMMA TreeIs == Visible
<1>1. \A f \in File : owned[f] = IF f \in void THEN Unsure
                                 ELSE IF f \in Seed THEN NoRecord ELSE RecordOf(f)
  <2>1. SUFFICES ASSUME NEW f \in File
                 PROVE  owned[f] = IF f \in void THEN Unsure
                                   ELSE IF f \in Seed THEN NoRecord ELSE RecordOf(f)
    OBVIOUS
  <2>2. owned[f] = CASE f \in void -> Unsure
                     [] f \in Seed \ void -> NoRecord
                     [] OTHER -> RecordOf(f)
    BY DEF owned, RecordOf
  <2>3. CASE f \in void
    BY <2>2, <2>3
  <2>4. CASE f \in Seed \ void
    BY <2>2, <2>4
  <2>5. CASE f \notin void \cup Seed
    BY <2>2, <2>5
  <2>6. QED
    BY <2>3, <2>4, <2>5
<1>2. QED
  BY <1>1 DEF tree, owned, Visible

(* Such a step voids the promise of some files, if it does anything.       *)
LEMMA UnseenIsVoid ==
  ASSUME Unseen, void' \subseteq File
  PROVE  Promise!Void
<1>1. void \subseteq void' /\ InBackup \subseteq InBackup'
  BY DEF Unseen
<1>2. Visible /\ Visible'
  BY TreeIs, PTL
<1>3. tree' = [f \in File |-> IF f \in void' THEN Unsure ELSE tree[f]]
  BY <1>1, <1>2 DEF Visible, Unseen
<1>4. owned' = [f \in File |-> IF f \in void' THEN Unsure ELSE owned[f]]
  BY <1>1, <1>2 DEF Visible, Unseen, Generated
<1>5. QED
  BY <1>1, <1>3, <1>4 DEF Promise!Void

(* What callers see of a step that undoes, or does not undo, an operation. *)
LEMMA UndoneView ==
  ASSUME Base, p \in Applying, p.pc = "undo", Undone(p.k - 1), Viewed, Viewed'
  PROVE  /\ \A x \in Path : ViewOf(x)' = IF Reached(x) /\ ~Changes(p, p.k, x)
                                       THEN p.pre[x] ELSE disk'[x]
         /\ \A x \in Path : ViewOf(x) = IF Reached(x) THEN p.pre[x] ELSE disk[x]
         /\ \A x \in Path : Changes(p, p.k, x) => Reached(x)
         /\ InBackup = p.kept
         /\ InBackup' = p.kept \/ InBackup' = kept'
<1>1. /\ p.k \in 1..Len(p.ops) /\ Len(p.ops) \in Nat
      /\ \A i, j \in 1..Len(p.ops), x \in Path : Changes(p, i, x) /\ Changes(p, j, x) => i = j
  BY DEF Base, Captive, Applying, Sound, Complete
<1>2. \A x : Reached(x) <=> \E i \in 1..p.k : Changes(p, i, x)
  BY DEF Reached, Reach
<1>3. /\ \A i \in 1..p.k : i \in 1..(p.k - 1) \/ i = p.k
      /\ \A i \in 1..(p.k - 1) : i \in 1..p.k /\ i # p.k /\ i \in 1..Len(p.ops)
      /\ p.k \in 1..p.k
  BY <1>1
<1>4. ASSUME NEW x \in Path
      PROVE  Reached(x) /\ ~Changes(p, p.k, x) <=> \E i \in 1..(p.k - 1) : Changes(p, i, x)
  BY <1>1, <1>2, <1>3
<1>5. CASE p' = Idle
  <2>1. p.k - 1 = 0
    BY <1>5, PhasesApart DEF Undone, Runs
  <2>2. \A x \in Path : ViewOf(x)' = disk'[x]
    BY <1>5, PhasesApart DEF Viewed
  <2>3. \A x \in Path : ~(Reached(x) /\ ~Changes(p, p.k, x))
    BY <1>4, <2>1
  <2>4. InBackup' = kept'
    BY <1>5, PhasesApart DEF Viewed
  <2>5. QED
    BY <1>2, <1>3, <2>2, <2>3, <2>4 DEF Viewed
<1>6. CASE Runs(p', "undo", p.k - 1)
  <2>1. /\ \A x : Reached(x)' <=> \E i \in 1..(p.k - 1) : Changes(p, i, x)
        /\ p'.pre = p.pre /\ p'.kept = p.kept /\ p' \in Applying
    BY <1>6, ReachedThen DEF Runs, Like
  <2>2. \A x : ViewOf(x)' = IF Reached(x)' THEN p.pre[x] ELSE disk'[x]
    BY <2>1 DEF Viewed
  <2>3. QED
    BY <1>2, <1>3, <1>4, <2>1, <2>2 DEF Viewed
<1>7. QED
  BY <1>5, <1>6 DEF Undone

(* No difference at all.                                                   *)
LEMMA SameView ==
  ASSUME Typed', void \subseteq void', InBackup \subseteq InBackup',
         \A x \in Path : ViewOf(x)' = ViewOf(x)
  PROVE  Promise!Void
<1>1. \A f \in Generated : RecordOf(f)' = RecordOf(f)
  BY LedgersAre DEF RecordOf
<1>2. Unseen
  BY <1>1, LedgersAre DEF Unseen
<1>3. QED
  BY <1>2, UnseenIsVoid DEF Typed

(* Every step but an edit outside of a promotion and the last operation of *)
(* one is no step at all to callers, except where the promise is void.     *)
LEMMA QuietSteps ==
  ASSUME Base, Next,
         Verify \/ OperateFails \/ Rollback \/ RestoreFails \/ Crash \/ Plan \/ TakePreimages
  PROVE  Promise!Void
<1> USE DEF Base
<1>0. Viewed /\ Viewed' /\ Typed' /\ Captive' /\ (p \in Applying => p.kept \subseteq kept)
  BY ViewsAre DEF Captive
<1>1. CASE Plan
  <2>1. /\ p \notin Applying /\ p' \notin Applying /\ UNCHANGED <<disk, kept, void>>
    BY <1>1, PlanIs, PhasesApart
  <2>2. QED
    BY <1>0, <2>1, SameView DEF Viewed
<1>2. CASE TakePreimages
  <2>1. /\ p \notin Applying /\ p' \in Applying /\ UNCHANGED <<disk, kept, void>>
        /\ p'.pc = "verify" /\ p'.k = 1 /\ p'.kept = kept
    BY <1>2, TakePreimagesIs, PhasesApart
  <2>2. \A x : ~Reached(x)'
    <3>1. \A i : i \notin 1..(1 - 1)
      OBVIOUS
    <3>2. QED
      BY <2>1, <3>1 DEF Reached, Reach
  <2>3. QED
    BY <1>0, <2>1, <2>2, SameView DEF Viewed
<1>3. CASE Verify
  <2>1. /\ p \in Applying /\ p.pc = "verify" /\ p.k \in 1..Len(p.ops)
        /\ UNCHANGED <<disk, kept, void>>
        /\ \/ Runs(p', "operate", p.k) /\ (Now.kind = "backup" \/ disk[Now.on] = p.pre[Now.on])
           \/ Undone(p.k - 1)
    BY <1>3, VerifyIs
  <2>2. \A x : Reached(x) <=> \E i \in 1..(p.k - 1) : Changes(p, i, x)
    BY <2>1 DEF Reached, Reach
  <2>3. CASE Runs(p', "operate", p.k) /\ (Now.kind = "backup" \/ disk[Now.on] = p.pre[Now.on])
    <3>1. /\ \A x : Reached(x)' <=> \E i \in 1..p.k : Changes(p, i, x)
          /\ p'.pre = p.pre /\ p'.kept = p.kept /\ p' \in Applying
      BY <2>3, ReachedThen DEF Runs, Like
    <3>2. \A x : Changes(p, p.k, x) => disk[x] = p.pre[x]
      BY <2>1, <2>3, NowIs
    <3>3. Len(p.ops) \in Nat
      BY <2>1 DEF Applying
    <3>4. /\ \A i \in 1..p.k : i \in 1..(p.k - 1) \/ i = p.k
          /\ \A i \in 1..(p.k - 1) : i \in 1..p.k
          /\ p.k \in 1..p.k
      BY <2>1, <3>3
    <3>5. \A x : Reached(x)' <=> Reached(x) \/ Changes(p, p.k, x)
      BY <2>2, <3>1, <3>4
    <3>6. \A x : ViewOf(x)' = ViewOf(x)
      BY <1>0, <2>1, <3>1, <3>2, <3>5 DEF Viewed
    <3>7. QED
      BY <1>0, <2>1, <3>1, <3>6, SameView DEF Viewed
  <2>4. CASE Undone(p.k - 1)
    <3>1. CASE p' = Idle
      <4>1. p.k - 1 = 0
        BY <2>4, <3>1, PhasesApart DEF Undone, Runs
      <4>2. \A x : ~Reached(x)
        BY <2>2, <4>1
      <4>3. QED
        BY <1>0, <2>1, <3>1, <4>2, SameView, PhasesApart DEF Viewed
    <3>2. CASE Runs(p', "undo", p.k - 1)
      <4>1. /\ \A x : Reached(x)' <=> \E i \in 1..(p.k - 1) : Changes(p, i, x)
            /\ p'.pre = p.pre /\ p'.kept = p.kept /\ p' \in Applying
        BY <3>2, ReachedThen DEF Runs, Like
      <4>2. QED
        BY <1>0, <2>1, <2>2, <4>1, SameView DEF Viewed
    <3>3. QED
      BY <2>4, <3>1, <3>2 DEF Undone
  <2>5. QED
    BY <2>1, <2>3, <2>4
<1>4. CASE OperateFails
  <2>1. /\ p \in Applying /\ p.pc = "operate" /\ Runs(p', "undo", p.k)
        /\ UNCHANGED <<disk, kept, void>>
    BY <1>4, OperateFailsIs
  <2>2. /\ \A x : Reached(x)' <=> \E i \in 1..p.k : Changes(p, i, x)
        /\ p'.pre = p.pre /\ p'.kept = p.kept /\ p' \in Applying
    BY <2>1, ReachedThen DEF Runs, Like
  <2>3. \A x : Reached(x) <=> \E i \in 1..p.k : Changes(p, i, x)
    BY <2>1 DEF Reached, Reach
  <2>4. QED
    BY <1>0, <2>1, <2>2, <2>3, SameView DEF Viewed
<1>5. CASE Rollback
  <2>1. /\ p \in Applying /\ p.pc = "undo" /\ p.k \in 1..Len(p.ops) /\ Undone(p.k - 1)
        /\ void' = void
    BY <1>5, RollbackIs
  <2>2. p.kept \subseteq kept'
    BY <1>0, <1>5, <2>1, RollbackIs DEF Backup
  <2>3. \A x \in Path : disk'[x] = IF Changes(p, p.k, x) THEN p.pre[x] ELSE disk[x]
    <3>1. CASE Now.kind = "backup"
      BY <1>5, <2>1, <3>1, RollbackIs, NowIs
    <3>2. CASE Now.kind # "backup"
      <4>1. Now.on \in Path /\ disk' = [disk EXCEPT ![Now.on] = p.pre[Now.on]]
        BY <1>5, <2>1, <3>2, RollbackIs, NowIs
      <4>2. disk'[Now.on] = p.pre[Now.on] /\ \A y \in Path \ {Now.on} : disk'[y] = disk[y]
        BY <4>1, DiskIs
      <4>3. QED
        BY <2>1, <3>2, <4>2, NowIs
    <3>3. QED
      BY <3>1, <3>2
  <2>4. /\ \A x \in Path : ViewOf(x)' = ViewOf(x)
        /\ InBackup \subseteq InBackup'
    BY <1>0, <2>1, <2>2, <2>3, UndoneView
  <2>5. QED
    BY <1>0, <2>1, <2>4, SameView
<1>6. CASE RestoreFails
  <2>1. /\ p \in Applying /\ p.pc = "undo" /\ p.k \in 1..Len(p.ops) /\ Undone(p.k - 1)
        /\ disk' = disk /\ kept' = kept
        /\ void' = IF Now.kind = "backup" THEN void ELSE void \cup Left({Now.on})
    BY <1>6, RestoreFailsIs
  <2>2. \A x \in Path : ViewOf(x)' # ViewOf(x) =>
          Now.kind # "backup" /\ x = Now.on /\ ViewOf(x)' = disk[x]
    BY <1>0, <2>1, UndoneView, NowIs
  <2>3. void \subseteq void' /\ InBackup \subseteq InBackup'
    BY <1>0, <2>1, UndoneView
  <2>4. ASSUME NEW f \in File \ void' PROVE ViewOf(f)' = ViewOf(f)
    BY <2>1, <2>2, LedgersAre DEF Left
  <2>5. ASSUME NEW f \in Generated \ void' PROVE RecordOf(f)' = RecordOf(f)
    <3>1. f \in File \ Seed /\ LedgerOf(f) \in Path
      BY LedgersAre DEF Generated
    <3>2. CASE ViewOf(LedgerOf(f))' = ViewOf(LedgerOf(f))
      BY <3>2 DEF RecordOf
    <3>3. CASE ViewOf(LedgerOf(f))' # ViewOf(LedgerOf(f))
      <4>1. Now.kind # "backup" /\ LedgerOf(f) = Now.on /\ ViewOf(LedgerOf(f))' = disk[LedgerOf(f)]
        BY <2>2, <3>1, <3>3
      <4>2. f \notin Left({Now.on})
        BY <2>1, <4>1
      <4>3. Recorded(disk[LedgerOf(f)], f) = Recorded(ViewOf(LedgerOf(f)), f)
        BY <3>1, <4>1, <4>2 DEF Left
      <4>4. QED
        BY <4>1, <4>3 DEF RecordOf
    <3>4. QED
      BY <3>2, <3>3
  <2>6. QED
    BY <1>0, <2>3, <2>4, <2>5, UnseenIsVoid DEF Unseen, Typed
<1>7. CASE Crash
  <2>1. /\ p' \notin Applying /\ void' = void \cup Left(Path) /\ UNCHANGED <<disk, kept>>
    BY <1>7, CrashIs, PhasesApart
  <2>2. /\ InBackup \subseteq InBackup' /\ \A x : ViewOf(x)' = disk[x]
    BY <1>0, <2>1 DEF Viewed
  <2>3. \A f \in File \ void' : ViewOf(f)' = ViewOf(f)
    BY <2>1, <2>2, LedgersAre DEF Left
  <2>4. ASSUME NEW f \in Generated \ void' PROVE RecordOf(f)' = RecordOf(f)
    <3>1. f \in File \ Seed /\ LedgerOf(f) \in Path
      BY LedgersAre DEF Generated
    <3>2. Recorded(disk[LedgerOf(f)], f) = Recorded(ViewOf(LedgerOf(f)), f)
      BY <2>1, <3>1 DEF Left
    <3>3. QED
      BY <2>2, <3>2 DEF RecordOf
  <2>5. QED
    BY <1>0, <2>1, <2>2, <2>3, <2>4, UnseenIsVoid DEF Unseen, Typed
<1>8. QED
  BY <1>1, <1>2, <1>3, <1>4, <1>5, <1>6, <1>7

(* An edit is the edit of a file that nobody promotes, or voids it.        *)
LEMMA EditRefines ==
  ASSUME Base, Next, NEW f \in File, NEW v \in User \cup {Missing}, EditFile(f, v)
  PROVE  Promise!Edit \/ Promise!Void
<1> USE DEF Base
<1>1. Viewed /\ Viewed' /\ Typed' /\ Captive'
  BY ViewsAre
<1>2. /\ p' = p /\ kept' = kept /\ disk' = [disk EXCEPT ![f] = v]
      /\ p.pc \in {"idle", "plan"} => void' = void
      /\ p.pc \notin {"idle", "plan"} => void' = void \cup {f}
  BY EditIs
<1>3. disk'[f] = v /\ \A x \in Path \ {f} : disk'[x] = disk[x]
  BY <1>2, DiskIs, LedgersAre
<1>4. \A x : Reached(x)' <=> Reached(x)
  BY <1>2 DEF Reached, Reach, Changes
<1>5. InBackup' = InBackup /\ \A x \in Path \ {f} : ViewOf(x)' = ViewOf(x)
  BY <1>1, <1>2, <1>3, <1>4 DEF Viewed
<1>6. \A g \in Generated : RecordOf(g)' = RecordOf(g)
  BY <1>5, LedgersAre DEF RecordOf
<1>7. CASE f \in void'
  <2>1. \A g \in File \ void' : ViewOf(g)' = ViewOf(g)
    BY <1>5, <1>7, LedgersAre
  <2>2. QED
    BY <1>1, <1>2, <1>5, <1>6, <2>1, UnseenIsVoid DEF Unseen, Typed
<1>8. CASE f \notin void'
  <2>1. void' = void /\ p \notin Applying
    BY <1>2, <1>8, PhasesApart
  <2>2. ViewOf(f)' = v
    BY <1>1, <1>2, <1>3, <2>1 DEF Viewed
  <2>3. Visible /\ Visible'
    BY TreeIs, PTL
  <2>4. tree' = [tree EXCEPT ![f] = v]
    BY <1>5, <1>8, <2>1, <2>2, <2>3, LedgersAre DEF Visible
  <2>5. owned' = owned
    BY <1>6, <2>1, <2>3 DEF Visible, Generated
  <2>6. QED
    BY <1>5, <2>4, <2>5 DEF Promise!Edit
<1>9. QED
  BY <1>7, <1>8

(* The last operation makes the promotion visible as a whole: what it has  *)
(* reached is as planned, and what it has not reached is as it was.        *)
LEMMA LastOperation ==
  ASSUME Base, Next, Operate, p' = Idle
  PROVE  /\ p \in Applying /\ p.k = Len(p.ops) /\ void' \subseteq void /\ void \subseteq File
         /\ p.planned \subseteq Generated /\ p.pruned \subseteq Generated /\ Lawful(p)
         /\ void' = void \ {f \in p.planned \cup p.pruned : Done(f)}
         /\ InBackup = p.kept /\ InBackup' = kept' /\ p.kept \subseteq kept'
         /\ \A x \in Path : ViewOf(x)' = disk'[x]
         /\ \A l \in Ledger : ViewOf(l) = p.seen[l] /\ disk'[l] = p.to[l]
         /\ \A f \in File \ void :
              /\ ViewOf(f) = p.seen[f]
              /\ Reached(f) => disk'[f] = p.to[f]
              /\ ~Reached(f) => disk'[f] = p.seen[f]
              /\ p.pre[f] = p.seen[f]
         /\ \A f \in p.planned \cup p.pruned : p.to[f] = p.seen[f] \/ Reached(f)
         /\ \A f \in File \ (p.planned \cup p.pruned) :
              Reached(f) => f \in Seed /\ p.seen[f] = Missing /\ p.to[f] \in Content
         /\ \A i \in 1..Len(p.ops), f \in File : Backs(p, i, f) => <<f, p.pre[f]>> \in kept'
<1> USE DEF Base
<1>1. Viewed /\ Viewed'
  BY ViewsAre
<1>2. /\ p \in Applying /\ p.pc = "operate" /\ p.k = Len(p.ops) /\ p.k \in 1..Len(p.ops)
      /\ void' = void \ {f \in p.planned \cup p.pruned : Done(f)}
      /\ kept \subseteq kept'
      /\ Now.kind = "backup" => disk' = disk
      /\ Now.kind # "backup" => disk' = [disk EXCEPT ![Now.on] = p.to[Now.on]]
  BY OperateIs, PhasesApart DEF Runs
<1>3. Complete(p) /\ Lawful(p) /\ p.kept \subseteq kept
  BY <1>2 DEF Captive, Sound
<1>4. Len(p.ops) \in Nat /\ p.k \in 1..p.k /\ \A i \in 1..p.k : i \in 1..(p.k - 1) \/ i = p.k
  BY <1>2 DEF Applying
<1>5. Changes(p, p.k, "global ledger")
  BY <1>2, <1>3 DEF Complete
<1>6. Now.kind # "backup" /\ Now.on \in Ledger
  BY <1>2, <1>5, NowIs DEF Ledger
<1>7. \A x : Reached(x) <=> \E i \in 1..p.k : Changes(p, i, x)
  BY <1>2 DEF Reached, Reach
<1>8. disk'[Now.on] = p.to[Now.on] /\ \A x \in Path \ {Now.on} : disk'[x] = disk[x]
  BY <1>2, <1>6, DiskIs, LedgersAre
<1>9. \A x : Changes(p, p.k, x) <=> Now.on = x
  BY <1>2, <1>6, NowIs
<1>10. ASSUME NEW x \in Path, Reached(x) PROVE disk'[x] = p.to[x] \/ x \in void
  <2>1. PICK i \in 1..p.k : Changes(p, i, x)
    BY <1>7, <1>10
  <2>2. CASE i = p.k
    BY <1>8, <1>9, <2>1, <2>2
  <2>3. CASE i \in 1..(p.k - 1) /\ x # Now.on
    <3>1. disk[x] = p.to[x] \/ x \in void
      BY <1>2, <2>1, <2>3 DEF Forward
    <3>2. QED
      BY <1>8, <2>3, <3>1
  <2>4. CASE x = Now.on
    BY <1>8, <2>4
  <2>5. QED
    BY <1>4, <2>2, <2>3, <2>4
<1>11. ASSUME NEW x \in Path, ~Reached(x)
       PROVE  disk'[x] = disk[x] /\ (disk[x] = p.pre[x] \/ x \in void)
  <2>1. x # Now.on
    BY <1>4, <1>7, <1>9, <1>11
  <2>2. QED
    BY <1>2, <1>8, <1>11, <2>1 DEF Forward
<1>12. void \subseteq File /\ p.planned \subseteq Generated /\ p.pruned \subseteq Generated
  BY <1>2 DEF Typed, Applying
<1>13. /\ InBackup = p.kept /\ InBackup' = kept'
       /\ \A x \in Path : ViewOf(x)' = disk'[x]
       /\ \A x : ViewOf(x) = IF Reached(x) THEN p.pre[x] ELSE disk[x]
  BY <1>1, <1>2, PhasesApart DEF Viewed
<1>14. ASSUME NEW l \in Ledger PROVE ViewOf(l) = p.seen[l] /\ disk'[l] = p.to[l]
  <2>1. Reached(l)
    BY <1>2, <1>3, <1>7 DEF Complete
  <2>2. l \in Path /\ l \notin void
    BY <1>12, LedgersAre
  <2>3. p.pre[l] = p.seen[l]
    BY <1>2 DEF Captive
  <2>4. QED
    BY <1>10, <1>13, <2>1, <2>2, <2>3
<1>15. ASSUME NEW f \in File \ void
       PROVE  /\ ViewOf(f) = p.seen[f]
              /\ Reached(f) => disk'[f] = p.to[f]
              /\ ~Reached(f) => disk'[f] = p.seen[f]
              /\ p.pre[f] = p.seen[f]
  <2>1. p.pre[f] = p.seen[f] /\ f \in Path
    BY <1>2, LedgersAre DEF Captive
  <2>2. QED
    BY <1>10, <1>11, <1>13, <2>1
<1>16. \A f \in p.planned \cup p.pruned : p.to[f] = p.seen[f] \/ Reached(f)
  BY <1>2, <1>3, <1>7 DEF Complete
<1>17. ASSUME NEW f \in File \ (p.planned \cup p.pruned), Reached(f)
       PROVE  f \in Seed /\ p.seen[f] = Missing /\ p.to[f] \in Content
  <2>1. PICK i \in 1..p.k : Changes(p, i, f)
    BY <1>7, <1>17
  <2>2. PICK o : o = p.ops[i]
    OBVIOUS
  <2>3. o.kind # "backup" /\ o.on = f
    BY <2>1, <2>2 DEF Changes
  <2>4. Fits(p, o)
    BY <1>2, <1>3, <2>2 DEF Complete
  <2>5. o \in Operation
    BY <1>2, <2>2 DEF Applying
  <2>6. o.kind \in {"delete", "backup", "write", "ledger"} /\ f \notin Ledger
    BY <2>5, LedgersAre DEF Operation
  <2>7. QED
    BY <1>17, <2>3, <2>4, <2>6 DEF Fits
<1>18. ASSUME NEW i \in 1..Len(p.ops), NEW f \in File, Backs(p, i, f)
       PROVE  <<f, p.pre[f]>> \in kept'
  <2>1. i # p.k
    BY <1>2, <1>6, <1>18, NowIs
  <2>2. i \in 1..(p.k - 1)
    BY <1>2, <1>4, <2>1
  <2>3. QED
    BY <1>2, <1>18, <2>2 DEF Captive
<1>19. QED
  BY <1>2, <1>3, <1>12, <1>13, <1>14, <1>15, <1>16, <1>17, <1>18

(* An operation is no step, or the whole promotion.                        *)
LEMMA OperateRefines ==
  ASSUME Base, Next, Operate
  PROVE  Promise!Promote \/ Promise!Void
<1> USE DEF Base
<1>0. Viewed /\ Viewed' /\ Typed' /\ Captive'
  BY ViewsAre
<1>1. CASE p' # Idle
  <2>1. /\ p \in Applying /\ p.pc = "operate" /\ p.k \in 1..Len(p.ops) /\ void' = void
        /\ Runs(p', "verify", p.k + 1)
        /\ Now.kind = "backup" => disk' = disk
        /\ Now.kind # "backup" => disk' = [disk EXCEPT ![Now.on] = p.to[Now.on]]
    BY <1>1, OperateIs
  <2>2. Len(p.ops) \in Nat /\ (p.k + 1) - 1 = p.k /\ p.k \in 1..p.k
    BY <2>1 DEF Applying
  <2>3. /\ \A x : Reached(x)' <=> \E i \in 1..p.k : Changes(p, i, x)
        /\ p'.pre = p.pre /\ p'.kept = p.kept /\ p' \in Applying
    BY <2>1, <2>2, ReachedThen DEF Runs, Like
  <2>4. \A x : Reached(x) <=> \E i \in 1..p.k : Changes(p, i, x)
    BY <2>1 DEF Reached, Reach
  <2>5. ASSUME NEW x \in Path, ~Reached(x) PROVE disk'[x] = disk[x]
    <3>1. ~Changes(p, p.k, x)
      BY <2>2, <2>4, <2>5
    <3>2. CASE Now.kind = "backup"
      BY <2>1, <3>2
    <3>3. CASE Now.kind # "backup"
      <4>1. Now.on # x /\ Now.on \in Path
        BY <2>1, <3>1, <3>3, NowIs
      <4>2. \A y \in Path \ {Now.on} : disk'[y] = disk[y]
        BY <2>1, <3>3, <4>1, DiskIs
      <4>3. QED
        BY <4>1, <4>2
    <3>4. QED
      BY <3>2, <3>3
  <2>6. QED
    BY <1>0, <2>1, <2>3, <2>4, <2>5, SameView DEF Viewed
<1>2. CASE p' = Idle
  <2> DEFINE planned == p.planned \ void'
             stale   == p.pruned \ void'
             seeded  == {f \in Seed : Reached(f)} \ void'
  <2>a. Visible /\ Visible'
    BY TreeIs, PTL
  <2>b. /\ \A f \in File : tree[f] = IF f \in void THEN Unsure ELSE ViewOf(f)
        /\ \A f \in File : tree'[f] = IF f \in void' THEN Unsure ELSE ViewOf(f)'
        /\ \A f \in File : owned[f] = IF f \in void THEN Unsure
                                      ELSE IF f \in Seed THEN NoRecord ELSE RecordOf(f)
        /\ \A f \in File : owned'[f] = IF f \in void' THEN Unsure
                                       ELSE IF f \in Seed THEN NoRecord ELSE RecordOf(f)'
    BY <2>a DEF Visible
  <2>c. /\ File \subseteq Path /\ Generated \subseteq File /\ Seed \subseteq File
        /\ Seed \cap Generated = {} /\ Generated = File \ Seed
    BY LedgersAre DEF Generated
  <2>d. /\ p \in Applying /\ void' \subseteq void /\ void \subseteq File
        /\ p.planned \subseteq Generated /\ p.pruned \subseteq Generated
        /\ void' = void \ {f \in p.planned \cup p.pruned : Done(f)}
        /\ InBackup \subseteq InBackup' /\ InBackup' = kept'
        /\ \A f \in File : ViewOf(f)' = disk'[f]
    BY <1>2, <2>c, LastOperation
  <2>e. /\ \A f \in File \ void :
             /\ ViewOf(f) = p.seen[f] /\ p.pre[f] = p.seen[f]
             /\ Reached(f) => disk'[f] = p.to[f]
             /\ ~Reached(f) => disk'[f] = p.seen[f]
        /\ \A f \in p.planned \cup p.pruned : p.to[f] = p.seen[f] \/ Reached(f)
        /\ \A f \in File \ (p.planned \cup p.pruned) :
             Reached(f) => f \in Seed /\ p.seen[f] = Missing /\ p.to[f] \in Content
    BY <1>2, LastOperation
  <2>f. \A f \in Generated : /\ RecordOf(f) = Record(p, f)
                             /\ RecordOf(f)' = Recorded(p.to[LedgerOf(f)], f)
                             /\ Record(p, f) \in Content \cup {NoRecord}
    <3>1. SUFFICES ASSUME NEW f \in Generated
                   PROVE  /\ RecordOf(f) = Record(p, f)
                          /\ RecordOf(f)' = Recorded(p.to[LedgerOf(f)], f)
                          /\ Record(p, f) \in Content \cup {NoRecord}
      OBVIOUS
    <3>2. PICK l \in Ledger : l = LedgerOf(f)
      BY LedgersAre
    <3>3. ViewOf(l) = p.seen[l] /\ ViewOf(l)' = p.to[l]
      BY <1>2, LastOperation, LedgersAre
    <3>4. p.seen[l] \in Records
      BY <2>d DEF Applying, Trees
    <3>5. Recorded(p.seen[l], f) \in Content \cup {NoRecord}
      BY <3>4 DEF Recorded, Records
    <3>6. RecordOf(f) = Recorded(p.seen[l], f) /\ Record(p, f) = Recorded(p.seen[l], f)
      BY <3>2, <3>3 DEF RecordOf, Record
    <3>7. RecordOf(f)' = Recorded(p.to[l], f)
      BY <3>2, <3>3 DEF RecordOf
    <3>8. QED
      BY <3>2, <3>5, <3>6, <3>7
  <2>g. /\ "boot" \notin Content \cup {NoRecord} /\ NoRecord # Unsure
        /\ \A l, f : l[f] \in Content \cup {NoRecord} => Recorded(l, f) = l[f]
    BY PromotionConstants DEF Recorded, NoRecord, Unsure
  <2>h. Lawful(p)
    BY <1>2, LastOperation
  <2>1. ASSUME NEW f \in (p.planned \cup p.pruned) \ void'
        PROVE  tree'[f] = p.to[f]
    <3>1. CASE f \in void
      BY <2>b, <2>c, <2>d, <2>1, <3>1 DEF Done
    <3>2. CASE f \notin void
      BY <2>b, <2>c, <2>d, <2>e, <2>1, <3>2
    <3>3. QED
      BY <3>1, <3>2
  <2>2. ASSUME NEW f \in planned
        PROVE  Promise!May(f) /\ tree'[f] \in Content /\ owned'[f] = tree'[f]
    <3>1. /\ f \in p.planned /\ f \notin void' /\ f \in File /\ f \notin Seed /\ f \in Generated
      BY <2>c, <2>d
    <3>2. /\ p.to[f] \in Content /\ p.to[LedgerOf(f)][f] = p.to[f]
          /\ \/ p.seen[f] \in {Missing, Record(p, f), p.to[f]}
             \/ \E i \in 1..Len(p.ops) : Backs(p, i, f)
      BY <2>h, <3>1 DEF Lawful
    <3>3. tree'[f] = p.to[f]
      BY <2>1, <3>1
    <3>4. owned'[f] = p.to[f]
      BY <2>b, <2>f, <2>g, <3>1, <3>2
    <3>5. Promise!May(f)
      <4>1. CASE f \in void
        BY <2>b, <3>1, <4>1 DEF Promise!May
      <4>2. CASE f \notin void
        <5>1. tree[f] = p.seen[f] /\ p.pre[f] = p.seen[f] /\ owned[f] = Record(p, f)
          BY <2>b, <2>e, <2>f, <3>1, <4>2
        <5>2. CASE p.seen[f] \in {Missing, Record(p, f), p.to[f]}
          BY <3>3, <5>1, <5>2 DEF Promise!May
        <5>3. CASE \E i \in 1..Len(p.ops) : Backs(p, i, f)
          <6>1. <<f, p.pre[f]>> \in kept'
            BY <1>2, <3>1, <5>3, LastOperation
          <6>2. QED
            BY <2>d, <5>1, <6>1 DEF Promise!May
        <5>4. QED
          BY <3>2, <5>2, <5>3
      <4>3. QED
        BY <4>1, <4>2
    <3>6. QED
      BY <3>2, <3>3, <3>4, <3>5
  <2>3. ASSUME NEW f \in stale
        PROVE  /\ owned[f] # NoRecord /\ tree[f] \in {Missing, Unsure, owned[f]}
               /\ tree'[f] = Missing /\ owned'[f] = NoRecord
    <3>1. /\ f \in p.pruned /\ f \notin void' /\ f \in File /\ f \notin Seed /\ f \in Generated
      BY <2>c, <2>d
    <3>2. /\ p.to[f] = Missing /\ p.to[LedgerOf(f)][f] = NoRecord
          /\ Record(p, f) # NoRecord /\ p.seen[f] \in {Missing, Record(p, f)}
      BY <2>h, <3>1 DEF Lawful
    <3>3. tree'[f] = Missing
      BY <2>1, <3>1, <3>2
    <3>4. owned'[f] = NoRecord
      BY <2>b, <2>f, <2>g, <3>1, <3>2
    <3>5. CASE f \in void
      BY <2>b, <2>g, <3>1, <3>3, <3>4, <3>5
    <3>6. CASE f \notin void
      BY <2>b, <2>e, <2>f, <3>1, <3>2, <3>3, <3>4, <3>6
    <3>7. QED
      BY <3>5, <3>6
  <2>4. ASSUME NEW f \in seeded
        PROVE  tree[f] \in {Missing, Unsure} /\ tree'[f] \in Content
    <3>1. /\ f \in Seed /\ Reached(f) /\ f \notin void' /\ f \in File
          /\ f \notin p.planned \cup p.pruned
      BY <2>c, <2>d
    <3>2. f \notin void
      BY <2>d, <3>1
    <3>3. QED
      BY <2>b, <2>d, <2>e, <3>1, <3>2
  <2>5. ASSUME NEW f \in File \ (planned \cup stale \cup seeded)
        PROVE  tree'[f] = tree[f]
    <3>1. CASE f \in void'
      BY <2>b, <2>d, <3>1
    <3>2. CASE f \notin void'
      <4>1. f \notin p.planned \cup p.pruned
        BY <2>5, <3>2
      <4>2. f \notin void
        BY <2>d, <3>2, <4>1
      <4>3. ~Reached(f)
        BY <2>e, <2>5, <3>2, <4>1
      <4>4. QED
        BY <2>b, <2>d, <2>e, <3>2, <4>2, <4>3
    <3>3. QED
      BY <3>1, <3>2
  <2>6. ASSUME NEW f \in File \ (planned \cup stale)
        PROVE  owned'[f] = owned[f]
    <3>1. CASE f \in void'
      BY <2>b, <2>d, <3>1
    <3>2. CASE f \notin void'
      <4>1. f \notin p.planned \cup p.pruned
        BY <2>6, <3>2
      <4>2. f \notin void
        BY <2>d, <3>2, <4>1
      <4>3. CASE f \in Seed
        BY <2>b, <3>2, <4>2, <4>3
      <4>4. CASE f \in Generated
        <5>1. p.to[LedgerOf(f)][f] = Record(p, f)
          BY <2>h, <4>1, <4>4 DEF Lawful
        <5>2. RecordOf(f)' = RecordOf(f)
          BY <2>f, <2>g, <4>4, <5>1
        <5>3. QED
          BY <2>b, <2>c, <3>2, <4>2, <4>4, <5>2
      <4>5. QED
        BY <2>c, <4>3, <4>4
    <3>3. QED
      BY <3>1, <3>2
  <2>7. /\ planned \in SUBSET (File \ Seed) /\ stale \in SUBSET ((File \ Seed) \ planned)
        /\ seeded \in SUBSET Seed
    BY <2>c, <2>d, <2>h DEF Lawful
  <2> HIDE DEF planned, stale, seeded
  <2>8. Promise!Promote
    BY <2>d, <2>2, <2>3, <2>4, <2>5, <2>6, <2>7 DEF Promise!Promote
  <2>9. QED
    BY <2>8
<1>3. QED
  BY <1>1, <1>2

(* Promotion implements PromotionSpec: to those who look at the tree, the  *)
(* ledgers and the backups, the last operation of applyGeneratedTreePlan   *)
(* is the whole promotion, and every other step of it is none.             *)
THEOREM PromotionIsAtomic == Spec => AtomicPromotion
<1>1. ASSUME Init PROVE Promise!AInit
  <2>1. IInv /\ p = Idle /\ p \notin Applying
    BY <1>1, InitIsSaved, PhasesApart DEF Init
  <2>2. Viewed
    BY <2>1, ViewIs DEF IInv, Base
  <2>3. InBackup = {}
    BY <1>1, <2>1, <2>2 DEF Viewed, Init
  <2>4. \A f \in Generated : RecordOf(f) = NoRecord
    <3>1. SUFFICES ASSUME NEW f \in Generated PROVE RecordOf(f) = NoRecord
      OBVIOUS
    <3>2. PICK l \in Ledger : l = LedgerOf(f)
      BY LedgersAre
    <3>3. disk[l] = Boot
      BY <1>1, LedgersAre DEF Init
    <3>4. ViewOf(l) = Boot
      BY <2>1, <2>2, <3>3 DEF Viewed
    <3>5. Recorded(Boot, f) = NoRecord
      BY DEF Boot, Recorded
    <3>6. QED
      BY <3>2, <3>4, <3>5 DEF RecordOf
  <2>5. owned = Promise!Fresh
    BY <1>1, <2>4, TreeIs DEF Visible, Init, Generated, Promise!Fresh
  <2>6. QED
    BY <2>3, <2>5 DEF Promise!AInit
<1>2. ASSUME IInv, Next PROVE Promise!ANext
  <2> USE DEF IInv
  <2>1. ASSUME NEW S \in SUBSET Generated, NEW a \in BOOLEAN, NEW b \in BOOLEAN,
               GenerateClusterTree(S, a, b)
        PROVE  Promise!Void
    <3>1. /\ p \notin Applying /\ p' \notin Applying /\ UNCHANGED <<disk, kept, void>>
      BY <2>1, GenerateIs, PhasesApart
    <3>2. Viewed /\ Viewed' /\ Typed'
      BY <1>2, ViewsAre
    <3>3. QED
      BY <3>1, <3>2, SameView DEF Viewed
  <2>2. CASE Operate
    BY <1>2, <2>2, OperateRefines DEF Promise!ANext
  <2>3. CASE Verify \/ OperateFails \/ Rollback \/ RestoreFails \/ Crash \/ Plan \/ TakePreimages
    BY <1>2, <2>3, QuietSteps DEF Promise!ANext
  <2>4. ASSUME NEW f \in File, NEW v \in User \cup {Missing}, EditFile(f, v)
        PROVE  Promise!ANext
    BY <1>2, <2>4, EditRefines DEF Promise!ANext
  <2>5. QED
    BY <1>2, <2>1, <2>2, <2>3, <2>4 DEF Next, Promotion, Promise!ANext
<1>3. ASSUME UNCHANGED vars PROVE UNCHANGED Promise!avars
  BY <1>3 DEF vars, Promise!avars, tree, owned, InBackup, ViewOf, Touched, Captured
<1>4. IInv /\ [Next]_vars => [Promise!ANext]_(Promise!avars)
  BY <1>2, <1>3
<1>5. QED
  BY <1>1, <1>4, AlwaysSaved, PTL DEF Spec, AtomicPromotion, Promise!ASpec
================================================================================
