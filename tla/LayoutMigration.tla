---------------------------- MODULE LayoutMigration ----------------------------
(***************************************************************************)
(* cluster migrate-layout (cmd/cluster_migrate_layout.go): the files of a  *)
(* legacy organization directory move to the GitOps, state and secrets     *)
(* zones, one after another, in the order of their paths.                  *)
(*                                                                         *)
(* A move is a rename, or a copy and a removal when the zone is on another *)
(* device; a cluster configuration is rewritten and then removed.  The     *)
(* first error ends the command and nothing is moved back, so what a       *)
(* failed or killed migration leaves is what the next one starts from.     *)
(* Nothing locks the zones: somebody may write there meanwhile.            *)
(***************************************************************************)
EXTENDS Naturals, Sequences, FiniteSets

CONSTANTS
  Cluster,
  Moves,             (* every possible move, in the order of its source    *)
  Optional,          (* sources that an organization may lack              *)
  WithInfrastructure,(* clusters with a directory under infrastructure     *)
  OtherDevice,       (* sources whose zone is on another device            *)
  MaxTheirs,         (* bound: files of others in the zones at a time       *)
  MaxFaults          (* bound: failures and crashes                        *)

Move   == 1..Len(Moves)
Source == {Moves[i].from : i \in Move}
Zone   == {Moves[i].to : i \in Move}

(* A source belongs to a cluster or to the organization.                   *)
Git    == [of |-> "organization", what |-> ".git"]
Infra  == [of |-> "organization", what |-> "infrastructure"]
Config(c) == [of |-> c, what |-> "config"]

ASSUME LayoutConstants ==
  /\ Len(Moves) \in Nat
  /\ Git \in Source /\ Infra \in Source /\ "organization" \notin Cluster
  /\ \A c \in Cluster : Config(c) \in Source
  /\ \A s \in Source : s.of \in Cluster \union {"organization"}
  /\ WithInfrastructure \subseteq Cluster
  /\ OtherDevice \subseteq Source /\ Optional \subseteq Source
  /\ WithInfrastructure # {} => Infra \notin Optional
  (* No two moves have one destination, and what belongs to a cluster is   *)
  (* moved to it, whoever else claims it.                                  *)
  /\ \A i, j \in Move : Moves[i].to = Moves[j].to => i = j
  /\ \A s \in Source : \E i \in Move : Moves[i].from = s /\ Moves[i].to[1] = s.of
  (* ".git" comes before "infrastructure".                                 *)
  /\ \A i, j \in Move : Moves[i].from = Git /\ Moves[j].from = Infra => i < j
  /\ MaxTheirs \in Nat /\ MaxFaults \in Nat

VARIABLES
  src,               (* what is at each source                             *)
  dst,               (* what is at each place in the zones                 *)
  m,                 (* the migration in progress                          *)
  late,              (* history: the places others filled since it looked  *)
  faults

layoutVars == <<src, dst, m, late, faults>>

(* theirs: somebody else put it into the zone.                             *)
Piece == {"absent", "part", "whole", "theirs"}
Idle  == [pc |-> "idle"]

LayoutInit ==
  /\ \E lacking \in SUBSET Optional :
       src = [s \in Source |-> IF s \in lacking THEN "absent" ELSE "whole"]
  /\ dst \in [Zone -> {"absent", "theirs"}]
  /\ Cardinality({d \in Zone : dst[d] = "theirs"}) <= MaxTheirs
  /\ m = Idle /\ late = {} /\ faults = 0

-----------------------------------------------------------------------------
(* The plan: ensureLegacyLayoutForMigration,                               *)
(* discoverLegacyLayoutClusters, buildLayoutMigrationPlan and              *)
(* validateLayoutMovePlan.                                                 *)

Present(s) == src[s] # "absent"

(* Defect: a cluster is known by its configuration only.                   *)
FoundByConfig(c) == Present(Config(c))

Found(c) == Present(Config(c)) \/ (Present(Infra) /\ c \in WithInfrastructure)

Finds(i) == Moves[i].to[1] \in Cluster => Found(Moves[i].to[1])

(* The moves of the plan, which is in the order of Moves.                  *)
Planned == {i \in Move : Present(Moves[i].from) /\ Finds(i)}

First(plan, i) == i \in plan /\ \A j \in plan : i <= j

(* Defect: only the first move is looked at.                               *)
FreeAtFirst(plan) == \E i \in plan : First(plan, i) /\ dst[Moves[i].to] = "absent"

Free(plan) == \A i \in plan : dst[Moves[i].to] = "absent"

Start(force) ==
  /\ m.pc = "idle"
  /\ Present(Git) /\ \E c \in Cluster : Found(c)
  /\ force \/ Free(Planned)
  /\ \E i \in Planned :
       /\ First(Planned, i)
       /\ m' = [pc |-> IF force THEN "clear" ELSE "move", plan |-> Planned, k |-> i,
                force |-> force]
  /\ late' = {}
  /\ UNCHANGED <<src, dst, faults>>

-----------------------------------------------------------------------------
(* applyLayoutMove, for one move after another.                            *)

From == Moves[m.k].from
To   == Moves[m.k].to
GoTo(pc) == m' = [m EXCEPT !.pc = pc]
At(s, piece) == src' = [src EXCEPT ![s] = piece]
In(d, piece) == dst' = [dst EXCEPT ![d] = piece]

(* Defect: the end of the plan goes unnoticed.                             *)
MovedPastEnd == m' = [m EXCEPT !.pc = IF m.force THEN "clear" ELSE "move", !.k = @ + 1]

Later == {i \in m.plan : i > m.k}
Moved ==
  \/ /\ Later = {}
     /\ GoTo("done")
  \/ \E i \in Later :
       /\ First(Later, i)
       /\ m' = [m EXCEPT !.pc = IF m.force THEN "clear" ELSE "move", !.k = i]

(* --force removes the destination first; a directory goes bit by bit.     *)
Clear ==
  /\ m.pc = "clear"
  /\ \/ In(To, "absent") /\ GoTo("move")
     \/ dst[To] = "whole" /\ In(To, "part") /\ UNCHANGED m
  /\ UNCHANGED <<src, late, faults>>

(* moveLayoutPath: the rename, over whatever is there by now.              *)
Rename ==
  /\ m.pc = "move"
  /\ From.what # "config" /\ From \notin OtherDevice
  /\ Present(From)
  /\ In(To, src[From]) /\ At(From, "absent") /\ Moved
  /\ UNCHANGED <<late, faults>>

(* Defect: the source is taken away while it is copied.                    *)
CopyRemoving ==
  /\ From.what = "config" \/ From \in OtherDevice
  /\ Present(From)
  /\ \/ m.pc = "move" /\ In(To, "part") /\ At(From, "part") /\ GoTo("copy")
     \/ m.pc = "copy" /\ In(To, "whole") /\ GoTo("remove") /\ UNCHANGED src
  /\ UNCHANGED <<late, faults>>

(* copyLayoutPath, or the write of the rewritten configuration.            *)
Copy ==
  /\ From.what = "config" \/ From \in OtherDevice
  /\ Present(From)
  /\ \/ m.pc = "move" /\ In(To, "part") /\ GoTo("copy")
     \/ m.pc = "copy" /\ In(To, src[From]) /\ GoTo("remove")
  /\ UNCHANGED <<src, late, faults>>

Remove ==
  /\ m.pc = "remove"
  /\ \/ At(From, "absent") /\ Moved
     \/ From.what # "config" /\ src[From] = "whole" /\ At(From, "part") /\ UNCHANGED m
  /\ UNCHANGED <<dst, late, faults>>

(* The source of a planned move is not there any more.                     *)
SourceGone ==
  /\ m.pc = "move" /\ ~Present(From)
  /\ m' = [m EXCEPT !.pc = "failed"]
  /\ UNCHANGED <<src, dst, late, faults>>

(* An operation fails or the process dies.                                 *)
Stop ==
  /\ m.pc \in {"clear", "move", "copy", "remove"}
  /\ faults < MaxFaults /\ faults' = faults + 1
  /\ m' = Idle
  /\ UNCHANGED <<src, dst, late>>

End ==
  /\ m.pc \in {"done", "failed"}
  /\ m' = Idle
  /\ UNCHANGED <<src, dst, late, faults>>

(* Somebody puts a file into a zone, also while a migration is under way.  *)
SomebodyWrites ==
  /\ Cardinality({d \in Zone : dst[d] = "theirs"}) < MaxTheirs
  /\ \E d \in Zone :
       /\ dst[d] = "absent"
       /\ In(d, "theirs")
       /\ late' = late \union {d}
  /\ UNCHANGED <<src, m, faults>>

LayoutNext ==
  \/ \E force \in BOOLEAN : Start(force)
  \/ Clear
  \/ m.pc \in {"move", "copy"} /\ (Rename \/ Copy)
  \/ Remove \/ SourceGone \/ Stop \/ End
  \/ SomebodyWrites

LayoutSpec == LayoutInit /\ [][LayoutNext]_layoutVars

-----------------------------------------------------------------------------
(* Type invariant.                                                         *)
LayoutTypeOK ==
  /\ src \in [Source -> Piece \ {"theirs"}]
  /\ dst \in [Zone -> Piece]
  /\ m.pc \in {"idle", "clear", "move", "copy", "remove", "done", "failed"}
  /\ m.pc # "idle" => m.k \in m.plan
  /\ late \subseteq Zone

InZone(s) == \E i \in Move : Moves[i].from = s /\ dst[Moves[i].to] = "whole"
Whole(s)  == src[s] = "whole" \/ InZone(s)

(* Nothing is lost, wherever a migration stops and however often it is     *)
(* started again, unless --force takes a source of which an interrupted    *)
(* removal left a part.                                                    *)
NothingLost ==
  [][\A s \in Source : Whole(s) => Whole(s)' \/ (m.force /\ src[s] = "part")]_layoutVars

(* What others put into the zones is overwritten with --force only, unless *)
(* they put it there while a migration was under way: all destinations are *)
(* looked at before the first move, and no move looks again.               *)
TheirsAreKept ==
  [][\A d \in Zone : dst[d] = "theirs" /\ dst'[d] # "theirs" =>
       m.force \/ d \in late]_layoutVars

(* A migration that reports success has left nothing behind, except the    *)
(* keys of a cluster that it can no longer find, because an earlier one    *)
(* moved the configuration and there is no infrastructure directory.       *)
SuccessIsComplete ==
  m.pc = "done" =>
    \A s \in Source :
      \/ src[s] = "absent"
      \/ s.of \in Cluster \ WithInfrastructure
================================================================================
