-------------------------- MODULE BlenderSnapshots --------------------------
(***************************************************************************)
(* scene.snapshot and scene.diff (ops/scene.py, snapshots.py) and the      *)
(* store behind them (runtime.py:120-133): the host keeps the last         *)
(* snapshots, and compares one of them with the scene as it is now, while  *)
(* anybody changes the scene.                                              *)
(*                                                                         *)
(* A deep snapshot tells the geometry of a mesh, a shallow one only what   *)
(* else it records of an object.  Neither records everything there is to   *)
(* an object.  The fingerprint is a hash of the body: it is modelled by    *)
(* equality of bodies.                                                     *)
(***************************************************************************)
EXTENDS Naturals, Sequences, FiniteSets

CONSTANTS
  Things,     \* objects, by their durable id
  Looks,      \* name, type, transform, parent, visibility, which modifiers
  Geometries, \* what only the digest of a mesh tells
  Rests,      \* what no snapshot tells: the settings of modifiers, UVs,
              \* normals, the contents of materials, digits after the ninth
  Frames,     \* the scene's current frame
  Capacity,   \* 32: snapshots that are kept
  MaxTaken,   \* bound: snapshots taken
  NoGeometry  \* of an object that is no mesh

ASSUME CapacityAssumption == Capacity \in Nat \ {0} /\ MaxTaken \in Nat
ASSUME GeometryAssumption ==
  NoGeometry \notin Geometries \cup Looks \cup {"untold"}
    /\ "untold" \notin Geometries

VARIABLES
  world,  \* the scene
  store,  \* _snapshots in their _snapshot_order; `of` is history: what a
          \* snapshot of either depth would have told then
  next    \* the next snapshot id: a uuid in the code

snapVars == <<world, store, next>>

Thing == [look : Looks, geometry : Geometries \cup {NoGeometry}, rest : Rests]
Absent == [look |-> NoGeometry, geometry |-> NoGeometry, rest |-> NoGeometry]
Scene == [frame : Frames, things : [Things -> Thing \cup {Absent}]]

Present(scene) == {o \in Things : scene.things[o] # Absent}

(* scene_snapshot: a shallow one has no digest.                            *)
Told(thing, deep) ==
  [look |-> thing.look,
   geometry |-> IF deep \/ thing.geometry = NoGeometry THEN thing.geometry
                ELSE "untold"]

Body(scene, deep) ==
  [frame |-> scene.frame,
   things |-> [o \in Present(scene) |-> Told(scene.things[o], deep)]]

Bodies(scene) == [deep \in BOOLEAN |-> Body(scene, deep)]

-----------------------------------------------------------------------------
(* store_snapshot: the oldest are evicted; get_snapshot.                   *)
KeptAll(kept) == kept
KeptOldest(kept) ==
  IF Len(kept) > Capacity THEN SubSeq(kept, 1, Capacity) ELSE kept
Kept(kept) == IF Len(kept) > Capacity THEN Tail(kept) ELSE kept

Snapshot(deep) ==
  /\ next <= MaxTaken
  /\ store' = Kept(Append(store, [id |-> next, deep |-> deep,
                                  body |-> Body(world, deep),
                                  of |-> Bodies(world)]))
  /\ next' = next + 1
  /\ UNCHANGED world

Stored(id) == {i \in DOMAIN store : store[i].id = id}

-----------------------------------------------------------------------------
(* diff_snapshots                                                          *)
ChangedLooks(before, after) ==
  {o \in DOMAIN before.things \cap DOMAIN after.things :
     before.things[o].look # after.things[o].look}
Changed(before, after) ==
  {o \in DOMAIN before.things \cap DOMAIN after.things :
     before.things[o] # after.things[o]}

Differences(before, after) ==
  [created |-> DOMAIN after.things \ DOMAIN before.things,
   deleted |-> DOMAIN before.things \ DOMAIN after.things,
   changed |-> [o \in Changed(before, after) |-> after.things[o]],
   equal |-> before = after]

(* scene.diff changes nothing in the host: what it answers of the i-th     *)
(* snapshot of the store, now.                                             *)
Diff(i, deep) == Differences(store[i].body, Body(world, deep))

-----------------------------------------------------------------------------
(* Anybody changes anything.                                               *)
Change ==
  /\ \/ \E o \in Things, thing \in Thing \cup {Absent} :
          world' = [world EXCEPT !.things[o] = thing]
     \/ \E frame \in Frames : world' = [world EXCEPT !.frame = frame]
  /\ UNCHANGED <<store, next>>

SnapInit ==
  /\ world \in {s \in Scene : Present(s) = {}}
  /\ store = <<>> /\ next = 1

SnapNext == Change \/ \E deep \in BOOLEAN : Snapshot(deep)

-----------------------------------------------------------------------------
SnapTypeOK ==
  /\ world \in Scene
  /\ Len(store) <= Capacity /\ next \in 1..(MaxTaken + 1)

(* THE NEWEST ARE KEPT.  Exactly the last Capacity snapshots that were     *)
(* taken can still be compared with; ids of older ones are NOT_FOUND, and  *)
(* no id has two snapshots (runtime.py:120-133).                           *)
NewestKept ==
  \A id \in 1..(next - 1) :
    Cardinality(Stored(id)) = IF id + Capacity >= next THEN 1 ELSE 0

(* A DIFF TELLS.  Between snapshots of one depth: the diff applied to the  *)
(* scene the snapshot was taken of gives the scene of now, as far as that  *)
(* depth sees it, and "equal" is said if the two agree that far, frame     *)
(* included.  It is never said, of two depths either, unless they agree in *)
(* all that the deeper one sees; what no snapshot records may differ all   *)
(* the same (snapshots.py:20-86).                                          *)
Patched(before, told) ==
  [o \in DOMAIN before.things \ told.deleted |->
     IF o \in DOMAIN told.changed THEN told.changed[o] ELSE before.things[o]]

DiffTells ==
  \A i \in DOMAIN store, deep \in BOOLEAN :
    LET told == Diff(i, deep)
        before == store[i].of[deep]
        after == Body(world, deep)
        old == DOMAIN after.things \ told.created
        deeper == deep \/ store[i].deep
    IN /\ store[i].deep = deep =>
            /\ Patched(before, told) = [o \in old |-> after.things[o]]
            /\ before = after => told.equal
       /\ told.equal => store[i].of[deeper] = Body(world, deeper)
=============================================================================
