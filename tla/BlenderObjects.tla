--------------------------- MODULE BlenderObjects ---------------------------
(***************************************************************************)
(* Identity in the Blender host: the durable ids of objects and the        *)
(* revisions of meshes (identity.py), as the object, mesh and modifier     *)
(* methods read and write them, while the user copies, renames and edits   *)
(* the same objects and undo puts ids and revisions back with the scene.   *)
(*                                                                         *)
(* An action is one dispatch or one thing the user does.  What a dispatch  *)
(* does about the scene's revision is BlenderHost's: here it is the repair *)
(* of ids that its deep snapshot makes, and the method.  Objects are local *)
(* to the file; linked ones have a derived id that is never stored.        *)
(***************************************************************************)
EXTENDS Naturals, FiniteSets, SequencesExt

CONSTANTS
  Objects,       \* bound: objects that ever exist
  Meshes,        \* bound: mesh data blocks
  Topologies,    \* what element indices refer to: vertices, edges, faces
  MaxId,         \* bound: uuids handed out
  MaxMeshRev,    \* bound: mesh revisions
  UndoCapacity,  \* bound: boundaries of Blender's history
  UserEdits,     \* whether the user edits topology as well as agents
  None

ASSUME NoneAssumption ==
  None \notin Objects /\ None \notin Meshes /\ None \notin Nat
    /\ None \notin Topologies
ASSUME BoundAssumption ==
  MaxId \in Nat /\ MaxMeshRev \in Nat /\ UndoCapacity \in Nat \ {0}
    /\ UserEdits \in BOOLEAN

VARIABLES
  scene,  \* bpy.data.objects and meshes, with what the host stores in them
  undo,   \* Blender's undo history
  dirty,  \* a snapshot is due: the depsgraph handler has raised the flag
  fresh,  \* the next uuid: none is ever given out twice
  ref,    \* a reference an agent holds, and what happened since it was read
  born,   \* history: objects that ever existed
  root    \* history: the first original of what the user copied

history == <<born, root>>
vars == <<scene, undo, dirty, fresh, ref, history>>

(* bpy.data.objects is sorted by name: names are positions in `list`.      *)
(* Several entries may use one mesh.                                       *)
Entry == [object : Objects, id : 1..MaxId \cup {None},
          mesh : Meshes \cup {None}]
NoMesh == [rev |-> 0, topo |-> None]
Mesh == [rev : 0..MaxMeshRev, topo : Topologies]

(* An element reference: rev is None when the object has no mesh.  user,   *)
(* undone: the user edited some topology, something was undone, since.     *)
NoRef == [object |-> None, id |-> None, rev |-> None, topo |-> None,
          user |-> FALSE, undone |-> FALSE]

Editor == INSTANCE BlenderEditor WITH Shapes <- {}, Hidden <- {}

Free(s, m) == \A i \in DOMAIN s.list : s.list[i].mesh # m

(* Data nobody uses is not kept: a free mesh is one yet to be made.        *)
Tidy(s) ==
  [s EXCEPT !.meshes = [m \in Meshes |-> IF Free(s, m) THEN NoMesh ELSE @[m]]]

Places == 1..Len(scene.list)
Gaps == 0..Len(scene.list)

-----------------------------------------------------------------------------
(* identity.py                                                             *)

(* normalize_object_ids: in the order of names, an object without an id    *)
(* gets one, and one whose id was seen before gets another.                *)
NeedingOnlyFirst(list) == {i \in DOMAIN list : list[i].id = None}
Needing(list) ==
  {i \in DOMAIN list :
     list[i].id = None \/ \E j \in 1..(i - 1) : list[j].id = list[i].id}

Repaired(s, next) ==
  LET needing == Needing(s.list)
      Rank(i) == Cardinality({j \in needing : j < i})
  IN [scene |-> [s EXCEPT !.list =
        [i \in DOMAIN @ |->
           IF i \in needing THEN [@[i] EXCEPT !.id = next + Rank(i)]
                            ELSE @[i]]],
      fresh |-> next + Cardinality(needing)]

(* resolve_object, of an id: the place of the first object that has it, or *)
(* 0 for NOT_FOUND.                                                        *)
Resolve(s, id) ==
  LET holders == {i \in DOMAIN s.list : s.list[i].id = id}
  IN IF holders = {} THEN 0
     ELSE CHOOSE i \in holders : \A j \in holders : i <= j

HasMesh(s, i) == i # 0 /\ s.list[i].mesh # None
MeshOf(s, i) == s.meshes[s.list[i].mesh]

(* assert_mesh_revision                                                    *)
Admits(s, i, expected) == HasMesh(s, i) /\ MeshOf(s, i).rev = expected

(* A topology operation that leaves topology t, and bump_mesh_revision:    *)
(* the number is the mesh's, whoever uses the mesh.                        *)
NotBumped(rev) == rev
BumpedTwice(rev) == rev + 2
Bumped(rev) == rev + 1
Rebuilt(s, i, t) ==
  [s EXCEPT !.meshes[s.list[i].mesh] = [rev |-> Bumped(@.rev), topo |-> t]]

-----------------------------------------------------------------------------
(* A dispatch: the dirty check repairs ids, and the snapshot that accepts  *)
(* the host's own mutation does it again.                                  *)
Now == IF dirty THEN Repaired(scene, fresh)
                ELSE [scene |-> scene, fresh |-> fresh]

Serving == Now.fresh <= MaxId + 1

Accepts(s) ==
  LET after == Repaired(s, Now.fresh)
  IN /\ after.fresh <= MaxId + 1
     /\ scene' = Tidy(after.scene) /\ fresh' = after.fresh
     /\ undo' = Editor!Pushed(undo, Now.scene)
     /\ dirty' = FALSE

OnlyRefreshed ==
  /\ Serving
  /\ scene' = Now.scene /\ fresh' = Now.fresh
  /\ dirty' = FALSE
  /\ UNCHANGED undo

(* object.inspect, mesh.inspect, mesh.elements, mesh queries: an agent     *)
(* learns an id and, of a mesh, the revision its indices belong to.  One   *)
(* reference, whichever, is followed.                                      *)
Inspect(i) ==
  /\ ref = NoRef
  /\ OnlyRefreshed
  /\ ref' = LET s == Now.scene
                mesh == HasMesh(s, i)
            IN [NoRef EXCEPT
                  !.object = s.list[i].object, !.id = s.list[i].id,
                  !.rev = IF mesh THEN MeshOf(s, i).rev ELSE None,
                  !.topo = IF mesh THEN MeshOf(s, i).topo ELSE None]
  /\ UNCHANGED history

(* object.create: an empty (m = None), or an object with a new mesh.       *)
Created(s, gap, o, m, t) ==
  [list |-> InsertAt(s.list, gap + 1,
                     [object |-> o, id |-> None, mesh |-> m]),
   meshes |-> [k \in Meshes |->
                 IF k = m THEN [rev |-> 0, topo |-> t] ELSE s.meshes[k]]]

Born(o) == born' = born \cup {o} /\ UNCHANGED root

Create(gap, o, m, t) ==
  /\ o \notin born /\ (m # None => Free(scene, m))
  /\ Accepts(Created(Now.scene, gap, o, m, t))
  /\ Born(o)
  /\ UNCHANGED ref

(* object.delete                                                           *)
Removed(s, i) == [s EXCEPT !.list = RemoveAt(@, i)]

Delete(i) ==
  /\ Accepts(Removed(Now.scene, i))
  /\ UNCHANGED <<ref, history>>

(* object.duplicate: the clone loses the id that copy() gave it, and gets  *)
(* its own; it shares the mesh (m = None) or gets a copy of it, revision   *)
(* and all.                                                                *)
Copied(s, i, gap, o, id, m) ==
  [list |-> InsertAt(s.list, gap + 1,
              [object |-> o, id |-> id,
               mesh |-> IF m = None THEN s.list[i].mesh ELSE m]),
   meshes |-> [k \in Meshes |-> IF k = m THEN MeshOf(s, i) ELSE s.meshes[k]]]

Copyable(i, o, m) ==
  o \notin born /\ (m # None => Free(scene, m) /\ HasMesh(scene, i))

CloneKeepsId(s, i) == s.list[i].id
CloneId(s, i) == None

Duplicate(i, gap, o, m) ==
  /\ Copyable(i, o, m)
  /\ Accepts(Copied(Now.scene, i, gap, o, CloneId(Now.scene, i), m))
  /\ Born(o)
  /\ UNCHANGED ref

(* A topology method of an agent that read the mesh's present revision.    *)
Rebuildable(i) == HasMesh(scene, i) /\ MeshOf(scene, i).rev < MaxMeshRev

Rebuild(i, t) ==
  /\ Rebuildable(i)
  /\ Accepts(Rebuilt(Now.scene, i, t))
  /\ UNCHANGED <<ref, history>>

(* The same through the reference: admitted, or STALE_TOPOLOGY, NOT_FOUND. *)
RebuildReferred(t) ==
  /\ ref # NoRef
  /\ LET i == Resolve(Now.scene, ref.id)
     IN \/ /\ Admits(Now.scene, i, ref.rev) /\ ref.rev < MaxMeshRev
           /\ Accepts(Rebuilt(Now.scene, i, t))
        \/ /\ ~Admits(Now.scene, i, ref.rev)
           /\ OnlyRefreshed
  /\ UNCHANGED <<ref, history>>

(* modifier.apply: Blender refuses shared data, unless single_user gives   *)
(* the object a copy m of the mesh first.                                  *)
Shared(s, i) == \E j \in DOMAIN s.list : j # i /\ s.list[j].mesh = s.list[i].mesh

Apply(i, m, t) ==
  /\ Rebuildable(i)
  /\ Shared(scene, i) /\ Free(scene, m)
  /\ LET s == Now.scene
         single == [s EXCEPT !.list[i].mesh = m, !.meshes[m] = MeshOf(s, i)]
     IN Accepts(Rebuilt(single, i, t))
  /\ UNCHANGED <<ref, history>>

(* mesh.recalc_normals through the reference: face indices are taken with  *)
(* no revision beside them.  It fails if an index is out of range, or the  *)
(* object has no mesh; it changes no topology, so it bumps no revision.    *)
TakesIndices(s, i) == HasMesh(s, i)

RecalcNormals ==
  /\ ref # NoRef
  /\ \/ /\ TakesIndices(Now.scene, Resolve(Now.scene, ref.id))
        /\ Accepts(Now.scene)
     \/ OnlyRefreshed
  /\ UNCHANGED <<ref, history>>

(* Methods that touch neither ids nor topology: object.transform and       *)
(* parent, materials, and every refusal.                                   *)
Other ==
  /\ Accepts(Now.scene) \/ OnlyRefreshed
  /\ UNCHANGED <<ref, history>>

-----------------------------------------------------------------------------
(* The user.  Blender copies the stored id with the object, and keeps the  *)
(* stored revision when a mesh is edited.                                  *)
UserDid(s) ==
  /\ scene' = Tidy(s)
  /\ undo' = Editor!Pushed(undo, Tidy(s))
  /\ dirty' = TRUE
  /\ UNCHANGED fresh

UserCreate(gap, o, m, t) ==
  /\ o \notin born /\ Free(scene, m)
  /\ UserDid(Created(scene, gap, o, m, t))
  /\ Born(o)
  /\ UNCHANGED ref

UserCopy(i, gap, o, m) ==
  /\ Copyable(i, o, m)
  /\ UserDid(Copied(scene, i, gap, o, scene.list[i].id, m))
  /\ born' = born \cup {o}
  /\ root' = [root EXCEPT ![o] = root[scene.list[i].object]]
  /\ UNCHANGED ref

UserRename(i, gap) ==
  /\ gap \in 0..(Len(scene.list) - 1) /\ gap # i - 1
  /\ UserDid([scene EXCEPT !.list =
                InsertAt(RemoveAt(@, i), gap + 1, scene.list[i])])
  /\ UNCHANGED <<ref, history>>

UserDelete(i) ==
  /\ UserDid(Removed(scene, i))
  /\ UNCHANGED <<ref, history>>

UserRebuild(i, t) ==
  /\ UserEdits
  /\ HasMesh(scene, i) /\ t # MeshOf(scene, i).topo
  /\ UserDid([scene EXCEPT !.meshes[scene.list[i].mesh].topo = t])
  /\ ref' = IF ref = NoRef THEN ref ELSE [ref EXCEPT !.user = TRUE]
  /\ UNCHANGED history

(* Undo, by the user, by a rollback or by a recovery: the stored ids and   *)
(* revisions go back with the scene.                                       *)
Undo ==
  /\ \E p \in Editor!UndoStops(scene, undo) :
       scene' = undo[p] /\ undo' = Editor!HistoryAt(undo, p)
  /\ dirty' = TRUE
  /\ ref' = IF ref = NoRef THEN ref ELSE [ref EXCEPT !.undone = TRUE]
  /\ UNCHANGED <<fresh, history>>

-----------------------------------------------------------------------------
(* A file with one object, made without the host.                          *)
Init ==
  /\ \E o \in Objects, m \in Meshes, t \in Topologies :
       /\ scene = Created([list |-> <<>>, meshes |-> [k \in Meshes |-> NoMesh]],
                          0, o, m, t)
       /\ born = {o}
  /\ undo = <<scene>> /\ dirty = TRUE /\ fresh = 1
  /\ ref = NoRef /\ root = [o \in Objects |-> o]

Host ==
  \/ \E i \in Places : Inspect(i) \/ Delete(i)
  \/ \E gap \in Gaps, o \in Objects, m \in Meshes \cup {None},
        t \in Topologies : Create(gap, o, m, t)
  \/ \E i \in Places, gap \in Gaps, o \in Objects, m \in Meshes \cup {None} :
       Duplicate(i, gap, o, m)
  \/ \E i \in Places, t \in Topologies : Rebuild(i, t)
  \/ \E t \in Topologies : RebuildReferred(t)
  \/ \E i \in Places, m \in Meshes, t \in Topologies : Apply(i, m, t)
  \/ RecalcNormals
  \/ Other

User ==
  \/ \E gap \in Gaps, o \in Objects, m \in Meshes, t \in Topologies :
       UserCreate(gap, o, m, t)
  \/ \E i \in Places, gap \in Gaps, o \in Objects, m \in Meshes \cup {None} :
       UserCopy(i, gap, o, m)
  \/ \E i \in Places, gap \in Gaps : UserRename(i, gap)
  \/ \E i \in Places : UserDelete(i)
  \/ \E i \in Places, t \in Topologies : UserRebuild(i, t)

Next == Host \/ User \/ Undo

Spec == Init /\ [][Next]_vars

-----------------------------------------------------------------------------
(* TYPES.  Every variable in its range, an object is listed once, exactly  *)
(* the meshes in use have a topology, and no stored id is one that is      *)
(* still to be handed out (identity.py:11-34).                             *)
TypeOK ==
  /\ scene.list \in Seq(Entry)
  /\ scene.meshes \in [Meshes -> Mesh \cup {NoMesh}]
  /\ \A m \in Meshes : scene.meshes[m] = NoMesh <=> Free(scene, m)
  /\ \A i, j \in Places :
       scene.list[i].object = scene.list[j].object => i = j
  /\ \A i \in Places : scene.list[i].id \in 1..(fresh - 1) \cup {None}
  /\ \A i \in Places : scene.list[i].object \in born
  /\ Len(undo) \in 1..UndoCapacity
  /\ dirty \in BOOLEAN /\ fresh \in 1..(MaxId + 1)
  /\ ref.object \in Objects \cup {None} /\ ref.id \in 1..MaxId \cup {None}
  /\ born \subseteq Objects /\ root \in [Objects -> Objects]

(* UNIQUE IDS.  What a method answers about ids, it answers about a scene  *)
(* in which every object has one and no two have the same, although the    *)
(* user copies ids, and undo brings back scenes that were never repaired   *)
(* (identity.py:52-68, snapshots.py:61-62).                                *)
UniqueIds ==
  ~dirty => \A i, j \in Places :
              /\ scene.list[i].id # None
              /\ scene.list[i].id = scene.list[j].id => i = j

(* DURABLE ID.  As long as nothing was undone and the user made no copy of *)
(* the object, an id an agent has read resolves to the object it was read  *)
(* of, until that is deleted: through renames, host duplicates, and        *)
(* everything done to other objects (identity.py:37-68, objects.py:96-108).*)
Referred == Resolve(Now.scene, ref.id)

DurableId ==
  /\ ref # NoRef /\ ~ref.undone
  /\ \E i \in Places : scene.list[i].object = ref.object
  /\ \A o \in born \ {ref.object} : root[o] # root[ref.object]
  => Referred # 0 /\ Now.scene.list[Referred].object = ref.object

(* RELATED OR NOTHING.  Whatever was undone, renamed, deleted or copied,   *)
(* an id resolves to its object, to one that the user's copying relates to *)
(* it, or to nothing: never to an object that has nothing to do with it    *)
(* (identity.py:56: the copy whose name sorts first takes the id over, and *)
(* loses it again when the copying is undone).                             *)
RelatedOrNothing ==
  ref # NoRef /\ Referred # 0 =>
    root[Now.scene.list[Referred].object] = root[ref.object]

(* GUARDED TOPOLOGY.  An element reference that the revision guard of the  *)
(* topology methods admits refers to the topology it was read from,        *)
(* whatever agents did to that mesh through this or another object that    *)
(* shares it, if the user edited no topology and nothing was undone since  *)
(* (identity.py:78-100).  mesh.recalc_normals has no such guard.           *)
Admitted == ref # NoRef /\ Admits(Now.scene, Referred, ref.rev)
SameTopology == MeshOf(Now.scene, Referred).topo = ref.topo

GuardedTopology == Admitted /\ ~ref.user /\ ~ref.undone => SameTopology

(* STALE REFERENCES FAIL.  "Element references include a mesh revision;    *)
(* topology mutation increments it.  Stale references fail"                *)
(* (docs/ARCHITECTURE.md:53): also when a mutation was undone or rolled    *)
(* back in between, though nobody but agents touched a topology.           *)
StaleReferencesFail == Admitted /\ ~ref.user => SameTopology

(* STALE INDICES REJECTED.  "Topology elements are revision-scoped so      *)
(* stale vertex/edge/face indices are rejected" (README.md:12), by every   *)
(* method that takes them, even if nobody but agents touched a topology    *)
(* and nothing was undone (mesh_advanced.py:178-190).                      *)
StaleIndicesRejected ==
  /\ ref.rev # None /\ TakesIndices(Now.scene, Referred)
  /\ ~ref.user /\ ~ref.undone
  => SameTopology
=============================================================================
