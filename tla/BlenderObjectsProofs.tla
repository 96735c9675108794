------------------------ MODULE BlenderObjectsProofs ------------------------
(***************************************************************************)
(* Proofs about identity in the Blender host: its types, and the four      *)
(* safety invariants of BlenderObjects, for every number of objects,       *)
(* meshes, topologies and ids.                                             *)
(*                                                                         *)
(* A dispatch is a repair of ids, a method, and another repair, so what is *)
(* kept is a property of a scene (Good), and a lemma says of the repair,   *)
(* of each method and of each edit of the user that it leads from good     *)
(* scenes to good scenes.  The idea is that every id ever given out has a  *)
(* kin: the root of the object it was given to.  Copying hands an id only  *)
(* to objects of the same root, undo brings back scenes that were good     *)
(* once, and a repair only gives out ids that no scene has seen.           *)
(***************************************************************************)
EXTENDS BlenderObjects, QueueLemmas, FiniteSetTheorems

(* A scene whose ids need not be below MaxId yet.                          *)
Row == [object : Objects, id : Nat \cup {None}, mesh : Meshes \cup {None}]
SceneType == [list : Seq(Row), meshes : [Meshes -> Mesh \cup {NoMesh}]]

(* Objects b have been born, ids below n given out.                        *)
Sound(s, b, n) ==
  /\ s \in SceneType
  /\ \A i, j \in DOMAIN s.list : s.list[i].object = s.list[j].object => i = j
  /\ \A i \in DOMAIN s.list :
       /\ s.list[i].object \in b
       /\ s.list[i].id \in 1..(n - 1) \cup {None}
       /\ s.list[i].mesh # None => s.meshes[s.list[i].mesh] \in Mesh

Tidied(s) == \A m \in Meshes : Free(s, m) => s.meshes[m] = NoMesh

Named(s) ==
  \A i, j \in DOMAIN s.list :
    /\ s.list[i].id # None
    /\ s.list[i].id = s.list[j].id => i = j

(* The root of whatever has an id is the id's kin.                         *)
KinOf(kin, s, rt) ==
  \A i \in DOMAIN s.list :
    s.list[i].id # None => rt[s.list[i].object] = kin[s.list[i].id]

(* What a reference r is worth in scene s.                                 *)
RefType ==
  [object : Objects \cup {None}, id : 1..MaxId \cup {None},
   rev : 0..MaxMeshRev \cup {None}, topo : Topologies \cup {None},
   user : BOOLEAN, undone : BOOLEAN]

RefKnown(r, b, rt, n, kin) ==
  r # NoRef => /\ r.object \in b /\ r.id \in 1..(n - 1)
               /\ rt[r.object] = kin[r.id]

Alone(r, b, rt) == \A o \in b \ {r.object} : rt[o] # rt[r.object]

Keeps(s, r) ==
  \A i \in DOMAIN s.list : s.list[i].object = r.object => s.list[i].id = r.id

Guards(s, r) ==
  \A i \in DOMAIN s.list :
    s.list[i].id = r.id /\ s.list[i].mesh # None /\ r.rev # None =>
      /\ r.rev <= MeshOf(s, i).rev
      /\ MeshOf(s, i).rev = r.rev => MeshOf(s, i).topo = r.topo

Worth(s, r, b, rt) ==
  r # NoRef /\ ~r.undone => /\ Alone(r, b, rt) => Keeps(s, r)
                            /\ ~r.user => Guards(s, r)

Good(s, r, b, rt, n, kin) ==
  /\ b \subseteq Objects /\ b # {} /\ rt \in [Objects -> Objects]
  /\ n \in Nat \ {0} /\ kin \in [1..(n - 1) -> Objects]
  /\ r \in RefType /\ RefKnown(r, b, rt, n, kin)
  /\ Sound(s, b, n) /\ KinOf(kin, s, rt) /\ Worth(s, r, b, rt)

(* The scenes of the undo history.                                         *)
Past(u, b, rt, n, kin) ==
  /\ u \in Seq(SceneType) /\ Len(u) \in 1..UndoCapacity
  /\ \A p \in 1..Len(u) :
       Sound(u[p], b, n) /\ Tidied(u[p]) /\ KinOf(kin, u[p], rt)

(* INDUCTIVE INVARIANT.                                                    *)
IInv ==
  /\ dirty \in BOOLEAN /\ fresh <= MaxId + 1
  /\ Tidied(scene)
  /\ ~dirty => Named(scene)
  /\ \E kin \in [1..(fresh - 1) -> Objects] :
       /\ Good(scene, ref, born, root, fresh, kin)
       /\ Past(undo, born, root, fresh, kin)

-----------------------------------------------------------------------------
(* Numbering the members of a finite set of positions: in their order,     *)
(* from 0, each by a number of its own.                                    *)
LEMMA Numbered ==
  ASSUME NEW S \in SUBSET Nat, IsFiniteSet(S)
  PROVE  /\ Cardinality(S) \in Nat
         /\ \A i \in S :
              Cardinality({j \in S : j < i}) \in 0..(Cardinality(S) - 1)
         /\ \A i, k \in S :
              Cardinality({j \in S : j < i}) = Cardinality({j \in S : j < k})
                => i = k
<1>. DEFINE Below(i) == {j \in S : j < i}
<1>1. Cardinality(S) \in Nat
  BY FS_CardinalityType
<1>2. \A i \in S : IsFiniteSet(Below(i)) /\ Cardinality(Below(i)) \in Nat
  <2>. SUFFICES ASSUME NEW i \in S
                PROVE  IsFiniteSet(Below(i)) /\ Cardinality(Below(i)) \in Nat
    OBVIOUS
  <2>1. IsFiniteSet(Below(i))
    BY FS_Subset
  <2>. QED BY <2>1, FS_CardinalityType
<1>3. \A i \in S : Cardinality(Below(i)) < Cardinality(S)
  <2>. SUFFICES ASSUME NEW i \in S
                PROVE  Cardinality(Below(i)) < Cardinality(S)
    OBVIOUS
  <2>1. Below(i) \in SUBSET S /\ Below(i) # S
    OBVIOUS
  <2>2. /\ Cardinality(Below(i)) <= Cardinality(S)
        /\ Cardinality(S) # Cardinality(Below(i))
    BY <2>1, FS_Subset
  <2>. QED BY <1>1, <1>2, <2>2
<1>4. \A i, k \in S : i < k => Cardinality(Below(i)) < Cardinality(Below(k))
  <2>. SUFFICES ASSUME NEW i \in S, NEW k \in S, i < k
                PROVE  Cardinality(Below(i)) < Cardinality(Below(k))
    OBVIOUS
  <2>1. Below(i) \in SUBSET Below(k) /\ Below(i) # Below(k)
    <3>1. i \in Below(k) /\ i \notin Below(i)
      OBVIOUS
    <3>2. \A j \in Below(i) : j \in Below(k)
      OBVIOUS
    <3>. HIDE DEF Below
    <3>. QED BY <3>1, <3>2
  <2>2. /\ Cardinality(Below(i)) <= Cardinality(Below(k))
        /\ Cardinality(Below(k)) # Cardinality(Below(i))
    BY <1>2, <2>1, FS_Subset
  <2>. QED BY <1>2, <2>2
<1>. HIDE DEF Below
<1>5. \A i, k \in S : Cardinality(Below(i)) = Cardinality(Below(k)) => i = k
  <2>1. \A i, k \in S : i < k \/ k < i \/ i = k
    OBVIOUS
  <2>. QED BY <1>2, <1>4, <2>1
<1>6. \A i \in S : Cardinality(Below(i)) \in 0..(Cardinality(S) - 1)
  BY <1>1, <1>2, <1>3
<1>. QED BY <1>1, <1>5, <1>6 DEF Below

(* A function of the positions of a sequence is one as long.               *)
LEMMA MappedSeq ==
  ASSUME NEW S, NEW T, NEW s \in Seq(S), NEW f \in [DOMAIN s -> T]
  PROVE  f \in Seq(T) /\ DOMAIN f = DOMAIN s /\ Len(f) = Len(s)
OBVIOUS

(* The entries that a repair gives an id to.                               *)
LEMMA NeedingFinite ==
  ASSUME NEW S, NEW list \in Seq(S)
  PROVE  Needing(list) \in SUBSET (1..Len(list)) /\ IsFiniteSet(Needing(list))
<1>1. Needing(list) \in SUBSET (1..Len(list))
  BY DEF Needing
<1>2. IsFiniteSet(1..Len(list))
  BY FS_Interval
<1>. QED BY <1>1, <1>2, FS_Subset

(* A REPAIR.  It changes nothing but ids, and those it gives out are new.  *)
Repairs(s, t, n, k) ==
  /\ t \in SceneType /\ k \in Nat /\ n <= k
  /\ DOMAIN t.list = DOMAIN s.list /\ t.meshes = s.meshes
  /\ \A i \in DOMAIN s.list :
       /\ t.list[i].object = s.list[i].object /\ t.list[i].mesh = s.list[i].mesh
       /\ IF i \in Needing(s.list) THEN t.list[i].id \in n..(k - 1)
                                    ELSE t.list[i].id = s.list[i].id
  /\ Named(t)

LEMMA RepairRepairs ==
  ASSUME NEW s, NEW b, NEW n \in Nat \ {0}, Sound(s, b, n)
  PROVE  Repairs(s, Repaired(s, n).scene, n, Repaired(s, n).fresh)
<1>. DEFINE needing == Needing(s.list)
            Rank(i) == Cardinality({j \in needing : j < i})
            New(i) == IF i \in needing THEN [s.list[i] EXCEPT !.id = n + Rank(i)]
                                       ELSE s.list[i]
            list == [i \in DOMAIN s.list |-> New(i)]
            t == [s EXCEPT !.list = list]
            k == n + Cardinality(needing)
<1>1. Repaired(s, n).scene = t /\ Repaired(s, n).fresh = k
  BY DEF Repaired, Sound, SceneType
<1>2. s \in SceneType /\ s.list \in Seq(Row)
  BY DEF Sound, SceneType
<1>3. needing \in SUBSET Nat /\ IsFiniteSet(needing)
  BY <1>2, NeedingFinite
<1>4. /\ Cardinality(needing) \in Nat
      /\ \A i \in needing : Rank(i) \in 0..(Cardinality(needing) - 1)
      /\ \A i, j \in needing : Rank(i) = Rank(j) => i = j
  BY <1>3, Numbered
<1>. HIDE DEF needing, Rank
<1>5. \A i \in DOMAIN s.list :
        /\ New(i) \in Row
        /\ New(i).object = s.list[i].object /\ New(i).mesh = s.list[i].mesh
        /\ New(i).id = IF i \in needing THEN n + Rank(i) ELSE s.list[i].id
  <2>. SUFFICES ASSUME NEW i \in DOMAIN s.list
                PROVE  /\ New(i) \in Row
                       /\ New(i).object = s.list[i].object
                       /\ New(i).mesh = s.list[i].mesh
                       /\ New(i).id = IF i \in needing THEN n + Rank(i)
                                                      ELSE s.list[i].id
    OBVIOUS
  <2>1. s.list[i] \in Row
    BY <1>2
  <2>2. i \in needing => n + Rank(i) \in Nat
    BY <1>4
  <2>. QED BY <2>1, <2>2 DEF Row
<1>. HIDE DEF New
<1>6. list \in Seq(Row) /\ DOMAIN list = DOMAIN s.list
  <2>1. list \in [DOMAIN s.list -> Row]
    BY <1>5
  <2>. QED BY <1>2, <2>1, MappedSeq
<1>7. t \in SceneType /\ t.list = list /\ t.meshes = s.meshes
  BY <1>2, <1>6 DEF SceneType
<1>8. \A i \in DOMAIN s.list :
        /\ list[i].object = s.list[i].object /\ list[i].mesh = s.list[i].mesh
        /\ list[i].id = IF i \in needing THEN n + Rank(i) ELSE s.list[i].id
  BY <1>5
<1>9. \A i \in DOMAIN s.list :
        i \in needing => list[i].id \in n..(k - 1)
  <2>. HIDE DEF list
  <2>1. \A i \in needing : n + Rank(i) \in n..(k - 1)
    BY <1>4
  <2>. QED BY <1>8, <2>1
<1>10. \A i \in DOMAIN s.list :
        i \notin needing => list[i].id \in 1..(n - 1)
  BY <1>8 DEF Sound, needing, Needing
<1>. HIDE DEF list, k
<1>11. ASSUME NEW i \in DOMAIN s.list, NEW j \in DOMAIN s.list,
              list[i].id = list[j].id
       PROVE  i = j
  <2>1. CASE i \in needing /\ j \in needing
    BY <1>4, <1>8, <1>11, <2>1
  <2>2. CASE i \notin needing /\ j \notin needing
    <3>1. s.list[i].id = s.list[j].id
      BY <1>8, <1>11, <2>2
    <3>2. i \in Nat /\ j \in Nat /\ i > 0 /\ j > 0
      BY <1>2
    <3>3. ~(i < j) /\ ~(j < i)
      BY <2>2, <3>1, <3>2 DEF needing, Needing
    <3>. QED BY <3>2, <3>3
  <2>3. CASE i \in needing /\ j \notin needing
    BY <1>9, <1>10, <1>11, <2>3
  <2>4. CASE i \notin needing /\ j \in needing
    BY <1>9, <1>10, <1>11, <2>4
  <2>. QED BY <2>1, <2>2, <2>3, <2>4
<1>12. \A i \in DOMAIN s.list : list[i].id # None
  BY <1>4, <1>9, <1>10, NoneAssumption
<1>13. Named(t)
  BY <1>6, <1>7, <1>11, <1>12 DEF Named
<1>. HIDE DEF t
<1>14. k \in Nat /\ n <= k
  BY <1>4 DEF k
<1>15. \A i \in DOMAIN s.list :
        IF i \in needing THEN t.list[i].id \in n..(k - 1)
                         ELSE t.list[i].id = s.list[i].id
  BY <1>7, <1>8, <1>9
<1>. QED BY <1>1, <1>6, <1>7, <1>8, <1>13, <1>14, <1>15 DEF Repairs, needing

(* More ids have been given out, the old ones to whom they were.           *)
Extends(new, k, kin, n) ==
  /\ k \in Nat /\ n <= k /\ new \in [1..(k - 1) -> Objects]
  /\ \A d \in 1..(n - 1) : new[d] = kin[d]

LEMMA PastExtended ==
  ASSUME NEW u, NEW b, NEW rt, NEW n \in Nat \ {0}, NEW kin, NEW k, NEW new,
         Past(u, b, rt, n, kin), Extends(new, k, kin, n)
  PROVE  Past(u, b, rt, k, new)
<1>1. 1..(n - 1) \subseteq 1..(k - 1)
  BY DEF Extends
<1>2. ASSUME NEW p \in 1..Len(u)
      PROVE  Sound(u[p], b, k) /\ Tidied(u[p]) /\ KinOf(new, u[p], rt)
  <2>1. Sound(u[p], b, n) /\ Tidied(u[p]) /\ KinOf(kin, u[p], rt)
    BY DEF Past
  <2>2. Sound(u[p], b, k)
    BY <1>1, <2>1 DEF Sound
  <2>3. \A i \in DOMAIN u[p].list :
          u[p].list[i].id # None => u[p].list[i].id \in 1..(n - 1)
    BY <2>1 DEF Sound
  <2>4. KinOf(new, u[p], rt)
    BY <2>1, <2>3 DEF KinOf, Extends
  <2>. QED BY <2>1, <2>2, <2>4
<1>. QED BY <1>2 DEF Past

(* A repaired scene is good, with kins for the new ids.                    *)
LEMMA RepairGood ==
  ASSUME NEW s, NEW r, NEW b, NEW rt, NEW n, NEW kin, NEW t, NEW k,
         Good(s, r, b, rt, n, kin), Repairs(s, t, n, k)
  PROVE  \E new : Extends(new, k, kin, n) /\ Good(t, r, b, rt, k, new)
<1>. DEFINE To(d, o) == \A i \in DOMAIN t.list :
                          t.list[i].id = d => o = rt[t.list[i].object]
            new == [d \in 1..(k - 1) |->
                      IF d < n THEN kin[d] ELSE CHOOSE o \in Objects : To(d, o)]
<1>1. /\ n \in Nat \ {0} /\ k \in Nat /\ n <= k /\ b \subseteq Objects /\ b # {}
      /\ kin \in [1..(n - 1) -> Objects] /\ rt \in [Objects -> Objects]
  BY DEF Good, Repairs
<1>2. /\ t \in SceneType /\ DOMAIN t.list = DOMAIN s.list
      /\ t.meshes = s.meshes /\ Named(t)
      /\ \A i \in DOMAIN s.list :
           /\ t.list[i].object = s.list[i].object
           /\ t.list[i].mesh = s.list[i].mesh
           /\ IF i \in Needing(s.list) THEN t.list[i].id \in n..(k - 1)
                                        ELSE t.list[i].id = s.list[i].id
  BY DEF Repairs
<1>3. \A i \in DOMAIN s.list :
        /\ s.list[i].object \in b
        /\ s.list[i].id \in 1..(n - 1) \cup {None}
        /\ s.list[i].mesh # None => s.meshes[s.list[i].mesh] \in Mesh
  BY DEF Good, Sound
<1>4. \A i \in DOMAIN s.list :
        t.list[i].id \in 1..(n - 1) =>
          i \notin Needing(s.list) /\ t.list[i].id = s.list[i].id
  BY <1>1, <1>2
<1>5. \A i \in DOMAIN s.list : t.list[i].id \in 1..(k - 1)
  BY <1>1, <1>2, <1>3 DEF Named
<1>6. Sound(t, b, k)
  <2>1. \A i, j \in DOMAIN t.list :
          t.list[i].object = t.list[j].object => i = j
    BY <1>2 DEF Good, Sound
  <2>. QED BY <1>2, <1>3, <1>5, <2>1 DEF Sound
<1>7. \A d : \E o \in Objects : To(d, o)
  <2>. SUFFICES ASSUME NEW d PROVE \E o \in Objects : To(d, o)
    OBVIOUS
  <2>1. CASE \E i \in DOMAIN t.list : t.list[i].id = d
    <3>1. PICK i \in DOMAIN t.list : t.list[i].id = d
      BY <2>1
    <3>2. rt[t.list[i].object] \in Objects
      BY <1>1, <1>2, <1>3
    <3>3. To(d, rt[t.list[i].object])
      BY <1>2, <3>1 DEF Named
    <3>. QED BY <3>2, <3>3
  <2>2. CASE ~\E i \in DOMAIN t.list : t.list[i].id = d
    BY <1>1, <2>2
  <2>. QED BY <2>1, <2>2
<1>. HIDE DEF To
<1>8. \A d \in 1..(k - 1) :
        /\ new[d] \in Objects
        /\ d < n => new[d] = kin[d]
        /\ ~(d < n) => To(d, new[d])
  BY <1>1, <1>7
<1>9. Extends(new, k, kin, n)
  <2>1. \A d \in 1..(n - 1) : d \in 1..(k - 1) /\ d < n
    BY <1>1
  <2>2. new \in [1..(k - 1) -> Objects]
    BY <1>8
  <2>. HIDE DEF new
  <2>. QED BY <1>1, <1>8, <2>1, <2>2 DEF Extends
<1>. HIDE DEF new
<1>10. KinOf(new, t, rt)
  <2>. SUFFICES ASSUME NEW i \in DOMAIN t.list
                PROVE  rt[t.list[i].object] = new[t.list[i].id]
    BY DEF KinOf
  <2>1. CASE t.list[i].id < n
    <3>1. t.list[i].id \in 1..(n - 1)
      BY <1>1, <1>2, <1>5, <2>1
    <3>2. s.list[i].id = t.list[i].id /\ s.list[i].id # None
      BY <1>2, <1>4, <3>1, NoneAssumption
    <3>3. rt[s.list[i].object] = kin[s.list[i].id]
      BY <1>2, <3>2 DEF Good, KinOf
    <3>. QED BY <1>2, <1>5, <1>8, <2>1, <3>2, <3>3
  <2>2. CASE ~(t.list[i].id < n)
    BY <1>2, <1>5, <1>8, <2>2 DEF To
  <2>. QED BY <2>1, <2>2
<1>11. RefKnown(r, b, rt, k, new)
  BY <1>1, <1>9 DEF Good, RefKnown, Extends
<1>12. ASSUME r # NoRef, ~r.undone, Alone(r, b, rt) PROVE Keeps(t, r)
  <2>. SUFFICES ASSUME NEW i \in DOMAIN s.list, s.list[i].object = r.object
                PROVE  t.list[i].id = r.id
    BY <1>2 DEF Keeps
  <2>1. s.list[i].id = r.id
    BY <1>12 DEF Good, Worth, Keeps
  <2>2. r.id \in 1..(n - 1) /\ rt[r.object] = kin[r.id] /\ r.id # None
    BY <1>12, NoneAssumption DEF Good, RefKnown
  <2>3. i \notin Needing(s.list)
    <3>. SUFFICES ASSUME NEW j \in 1..(i - 1), s.list[j].id = s.list[i].id
                  PROVE  FALSE
      BY <2>1, <2>2 DEF Needing
    <3>1. j \in DOMAIN s.list /\ j # i
      BY DEF Good, Sound, SceneType
    <3>2. rt[s.list[j].object] = rt[r.object]
      BY <2>1, <2>2, <3>1 DEF Good, KinOf
    <3>3. s.list[j].object \in b /\ s.list[j].object # r.object
      BY <3>1 DEF Good, Sound
    <3>. QED BY <1>12, <3>2, <3>3 DEF Alone
  <2>. QED BY <1>2, <2>1, <2>3
<1>13. ASSUME r # NoRef, ~r.undone, ~r.user PROVE Guards(t, r)
  <2>. SUFFICES ASSUME NEW i \in DOMAIN s.list, t.list[i].id = r.id,
                       t.list[i].mesh # None, r.rev # None
                PROVE  /\ r.rev <= MeshOf(t, i).rev
                       /\ MeshOf(t, i).rev = r.rev => MeshOf(t, i).topo = r.topo
    BY <1>2 DEF Guards
  <2>1. r.id \in 1..(n - 1)
    BY <1>13 DEF Good, RefKnown
  <2>2. s.list[i].id = r.id /\ s.list[i].mesh # None
    BY <1>2, <1>4, <2>1
  <2>3. MeshOf(t, i) = MeshOf(s, i)
    BY <1>2 DEF MeshOf
  <2>. QED BY <1>13, <2>2, <2>3 DEF Good, Worth, Guards
<1>14. Good(t, r, b, rt, k, new)
  <2>1. Worth(t, r, b, rt)
    BY <1>12, <1>13 DEF Worth
  <2>2. k \in Nat \ {0} /\ new \in [1..(k - 1) -> Objects]
    BY <1>1, <1>9 DEF Extends
  <2>. QED BY <1>6, <1>10, <1>11, <2>1, <2>2 DEF Good
<1>. QED BY <1>9, <1>14

-----------------------------------------------------------------------------
(* DERIVED SCENES.  What methods and the user make of a scene s: every     *)
(* entry of t is one of s, or a newly born object without an id, or one    *)
(* with the id and the root of what it is a copy of; and what is behind an *)
(* entry is the same mesh or, unless the user edited it, a later one.      *)
Later(old, new) == new = old \/ old.rev < new.rev

From(s, j, t, i, b, rt, new, edited) ==
  /\ t.list[i].id = s.list[j].id
  /\ new[t.list[i].object] = rt[s.list[j].object]
  /\ t.list[i].object = s.list[j].object \/ t.list[i].object \notin b
  /\ t.list[i].mesh # None =>
       s.list[j].mesh # None /\ (edited \/ Later(MeshOf(s, j), MeshOf(t, i)))

Derives(s, t, b, c, rt, new, edited) ==
  /\ t \in SceneType /\ b \subseteq c /\ c \subseteq Objects
  /\ new \in [Objects -> Objects] /\ \A o \in b : new[o] = rt[o]
  /\ \A i, j \in DOMAIN t.list : t.list[i].object = t.list[j].object => i = j
  /\ \A i \in DOMAIN t.list :
       /\ t.list[i].object \in c
       /\ t.list[i].mesh # None => t.meshes[t.list[i].mesh] \in Mesh
       /\ \/ t.list[i].id = None /\ t.list[i].object \notin b
          \/ \E j \in DOMAIN s.list : From(s, j, t, i, b, rt, new, edited)

LEMMA DerivedGood ==
  ASSUME NEW s, NEW r, NEW b, NEW rt, NEW n, NEW kin, NEW t, NEW c, NEW new,
         NEW edited, Good(s, r, b, rt, n, kin),
         Derives(s, t, b, c, rt, new, edited),
         edited => r = NoRef \/ r.user
  PROVE  Good(t, r, c, new, n, kin)
<1>1. /\ n \in Nat \ {0} /\ kin \in [1..(n - 1) -> Objects] /\ r \in RefType
      /\ b # {} /\ RefKnown(r, b, rt, n, kin) /\ Worth(s, r, b, rt)
      /\ KinOf(kin, s, rt) /\ Sound(s, b, n)
  BY DEF Good
<1>2. /\ t \in SceneType /\ b \subseteq c /\ c \subseteq Objects
      /\ new \in [Objects -> Objects] /\ \A o \in b : new[o] = rt[o]
  BY DEF Derives
<1>3. \A i \in DOMAIN t.list :
        \/ t.list[i].id = None /\ t.list[i].object \notin b
        \/ \E j \in DOMAIN s.list : From(s, j, t, i, b, rt, new, edited)
  BY DEF Derives
<1>4. Sound(t, c, n)
  <2>1. \A i \in DOMAIN t.list : t.list[i].id \in 1..(n - 1) \cup {None}
    <3>. SUFFICES ASSUME NEW i \in DOMAIN t.list, t.list[i].id # None
                  PROVE  t.list[i].id \in 1..(n - 1)
      OBVIOUS
    <3>1. PICK j \in DOMAIN s.list : From(s, j, t, i, b, rt, new, edited)
      BY <1>3
    <3>. QED BY <1>1, <3>1 DEF From, Sound
  <2>. QED BY <2>1 DEF Derives, Sound
<1>5. KinOf(kin, t, new)
  <2>. SUFFICES ASSUME NEW i \in DOMAIN t.list, t.list[i].id # None
                PROVE  new[t.list[i].object] = kin[t.list[i].id]
    BY DEF KinOf
  <2>1. PICK j \in DOMAIN s.list : From(s, j, t, i, b, rt, new, edited)
    BY <1>3
  <2>. QED BY <1>1, <2>1 DEF From, KinOf
<1>6. RefKnown(r, c, new, n, kin)
  BY <1>1, <1>2 DEF RefKnown
<1>7. ASSUME r # NoRef, ~r.undone, Alone(r, c, new) PROVE Keeps(t, r)
  <2>1. r.object \in b /\ r.id # None
    BY <1>1, <1>7, NoneAssumption DEF RefKnown
  <2>2. Alone(r, b, rt)
    BY <1>2, <1>7, <2>1 DEF Alone
  <2>3. Keeps(s, r)
    BY <1>1, <1>7, <2>2 DEF Worth
  <2>. SUFFICES ASSUME NEW i \in DOMAIN t.list, t.list[i].object = r.object
                PROVE  t.list[i].id = r.id
    BY DEF Keeps
  <2>4. PICK j \in DOMAIN s.list : From(s, j, t, i, b, rt, new, edited)
    BY <1>3, <2>1
  <2>. QED BY <2>1, <2>3, <2>4 DEF From, Keeps
<1>8. ASSUME r # NoRef, ~r.undone, ~r.user PROVE Guards(t, r)
  <2>1. Guards(s, r) /\ ~edited /\ r.id # None
    BY <1>1, <1>8, NoneAssumption DEF Worth, RefKnown
  <2>. SUFFICES ASSUME NEW i \in DOMAIN t.list, t.list[i].id = r.id,
                       t.list[i].mesh # None, r.rev # None
                PROVE  /\ r.rev <= MeshOf(t, i).rev
                       /\ MeshOf(t, i).rev = r.rev => MeshOf(t, i).topo = r.topo
    BY DEF Guards
  <2>2. PICK j \in DOMAIN s.list : From(s, j, t, i, b, rt, new, edited)
    BY <1>3, <2>1
  <2>3. s.list[j].id = r.id /\ s.list[j].mesh # None
        /\ Later(MeshOf(s, j), MeshOf(t, i))
    BY <2>1, <2>2 DEF From
  <2>4. /\ r.rev <= MeshOf(s, j).rev
        /\ MeshOf(s, j).rev = r.rev => MeshOf(s, j).topo = r.topo
    BY <2>1, <2>3 DEF Guards
  <2>5. MeshOf(s, j) \in Mesh /\ MeshOf(t, i) \in Mesh /\ r.rev \in Nat
    <3>1. MeshOf(s, j) \in Mesh
      BY <1>1, <2>3 DEF Sound, MeshOf
    <3>2. MeshOf(t, i) \in Mesh
      BY <1>4 DEF Sound, MeshOf
    <3>3. r.rev \in Nat
      BY <1>1, BoundAssumption DEF RefType
    <3>. QED BY <3>1, <3>2, <3>3
  <2>6. MeshOf(s, j).rev \in Nat /\ MeshOf(t, i).rev \in Nat
    BY <2>5, BoundAssumption DEF Mesh
  <2>. QED BY <2>3, <2>4, <2>5, <2>6 DEF Later
<1>9. Worth(t, r, c, new)
  BY <1>7, <1>8 DEF Worth
<1>10. c # {}
  BY <1>1, <1>2
<1>. QED BY <1>1, <1>2, <1>4, <1>5, <1>6, <1>9, <1>10 DEF Good

(* Lists with an entry more, or one less.                                  *)
LEMMA InsertedAt ==
  ASSUME NEW S, NEW q \in Seq(S), NEW k \in 1 .. Len(q) + 1, NEW e \in S
  PROVE  /\ InsertAt(q, k, e) \in Seq(S)
         /\ Len(InsertAt(q, k, e)) = Len(q) + 1
         /\ \A i \in 1 .. Len(q) + 1 :
              InsertAt(q, k, e)[i] =
                IF i < k THEN q[i] ELSE IF i = k THEN e ELSE q[i - 1]
<1>. DEFINE front == SubSeq(q, 1, k - 1)
            back == SubSeq(q, k, Len(q))
            first == front \o <<e>>
<1>1. Len(q) \in Nat /\ k - 1 \in 0..Len(q) /\ k - 1 + 1 = k
  OBVIOUS
<1>2. /\ front \in Seq(S) /\ Len(front) = k - 1
      /\ \A i \in 1..(k - 1) : front[i] = q[i]
  BY <1>1, CutInTwo
<1>3. /\ back \in Seq(S) /\ Len(back) = Len(q) - (k - 1)
      /\ \A i \in 1..(Len(q) - (k - 1)) : back[i] = q[i + (k - 1)]
  BY <1>1, Remaining
<1>4. <<e>> \in Seq(S) /\ Len(<<e>>) = 1 /\ <<e>>[1] = e
  OBVIOUS
<1>5. InsertAt(q, k, e) = first \o back
  BY DEF InsertAt
<1>. HIDE DEF front, back
<1>6. /\ first \in Seq(S) /\ Len(first) = k
      /\ \A i \in 1..(k - 1) : first[i] = q[i]
      /\ first[k] = e
  <2>1. /\ first \in Seq(S) /\ Len(first) = Len(front) + 1
        /\ \A i \in 1 .. Len(front) + 1 :
             first[i] = IF i <= Len(front) THEN front[i]
                                           ELSE <<e>>[i - Len(front)]
    BY <1>2, <1>4, ConcatProperties
  <2>. HIDE DEF first
  <2>2. first[k] = <<e>>[1]
    BY <1>1, <1>2, <2>1
  <2>. QED BY <1>1, <1>2, <1>4, <2>1, <2>2
<1>. HIDE DEF first
<1>7. PICK w \in Seq(S) : w = first \o back
  BY <1>3, <1>6, ConcatProperties
<1>8. /\ Len(w) = Len(q) + 1
      /\ \A i \in 1 .. Len(q) + 1 :
           w[i] = IF i <= k THEN first[i] ELSE back[i - k]
  <2>1. /\ Len(w) = Len(first) + Len(back)
        /\ \A i \in 1 .. Len(first) + Len(back) :
             w[i] = IF i <= Len(first) THEN first[i] ELSE back[i - Len(first)]
    BY <1>3, <1>6, <1>7, ConcatProperties
  <2>2. Len(first) = k /\ Len(first) + Len(back) = Len(q) + 1
    BY <1>1, <1>3, <1>6
  <2>. QED BY <2>1, <2>2
<1>9. ASSUME NEW i \in 1 .. Len(q) + 1
      PROVE  w[i] = IF i < k THEN q[i] ELSE IF i = k THEN e ELSE q[i - 1]
  <2>1. CASE i < k
    BY <1>1, <1>6, <1>8, <2>1
  <2>2. CASE i = k
    BY <1>1, <1>6, <1>8, <2>2
  <2>3. CASE i > k
    <3>1. w[i] = back[i - k]
      BY <1>1, <1>8, <2>3
    <3>2. i - k \in 1..(Len(q) - (k - 1)) /\ i - k + (k - 1) = i - 1
      BY <1>1, <2>3
    <3>3. w[i] = q[i - 1]
      BY <1>3, <3>1, <3>2
    <3>. QED BY <2>3, <3>3
  <2>. QED BY <1>1, <2>1, <2>2, <2>3
<1>. QED BY <1>5, <1>7, <1>8, <1>9

LEMMA RemovedAt ==
  ASSUME NEW S, NEW q \in Seq(S), NEW k \in 1..Len(q)
  PROVE  /\ RemoveAt(q, k) \in Seq(S) /\ Len(RemoveAt(q, k)) = Len(q) - 1
         /\ \A i \in 1 .. Len(q) - 1 :
              RemoveAt(q, k)[i] = IF i < k THEN q[i] ELSE q[i + 1]
<1>. DEFINE front == SubSeq(q, 1, k - 1)
            back == SubSeq(q, k + 1, Len(q))
<1>1. k - 1 \in 0..Len(q) /\ k \in 0..Len(q) /\ Len(q) \in Nat
  OBVIOUS
<1>2. /\ front \in Seq(S) /\ Len(front) = k - 1
      /\ \A i \in 1..(k - 1) : front[i] = q[i]
  BY <1>1, CutInTwo
<1>3. /\ back \in Seq(S) /\ Len(back) = Len(q) - k
      /\ \A i \in 1..(Len(q) - k) : back[i] = q[i + k]
  BY <1>1, Remaining
<1>4. RemoveAt(q, k) = front \o back
  BY DEF RemoveAt
<1>. HIDE DEF front, back
<1>5. PICK w \in Seq(S) : w = front \o back
  BY <1>2, <1>3, ConcatProperties
<1>6. /\ Len(w) = Len(front) + Len(back)
      /\ \A i \in 1 .. Len(front) + Len(back) :
           w[i] = IF i <= Len(front) THEN front[i] ELSE back[i - Len(front)]
  BY <1>2, <1>3, <1>5, ConcatProperties
<1>7. ASSUME NEW i \in 1 .. Len(q) - 1
      PROVE  w[i] = IF i < k THEN q[i] ELSE q[i + 1]
  <2>0. i \in 1 .. Len(front) + Len(back) /\ Len(front) = k - 1
    BY <1>1, <1>2, <1>3
  <2>1. CASE i < k
    <3>1. i <= Len(front) /\ i \in 1..(k - 1)
      BY <1>1, <2>0, <2>1
    <3>. QED BY <1>2, <1>6, <2>0, <2>1, <3>1
  <2>2. CASE ~(i < k)
    <3>0. ~(i <= Len(front))
      BY <1>1, <2>0, <2>2
    <3>1. w[i] = back[i - (k - 1)]
      BY <1>6, <2>0, <3>0
    <3>2. i - (k - 1) \in 1..(Len(q) - k) /\ i - (k - 1) + k = i + 1
      BY <1>1, <2>2
    <3>. QED BY <1>3, <2>2, <3>1, <3>2
  <2>. QED BY <2>1, <2>2
<1>8. Len(w) = Len(q) - 1
  BY <1>1, <1>2, <1>3, <1>6
<1>. QED BY <1>4, <1>5, <1>7, <1>8

-----------------------------------------------------------------------------
(* What each operation makes of a scene.                                   *)

(* What is in a sound scene.                                               *)
LEMMA Entries ==
  ASSUME NEW s, NEW b, NEW n, Sound(s, b, n)
  PROVE  /\ s \in SceneType /\ s.list \in Seq(Row) /\ Len(s.list) \in Nat
         /\ DOMAIN s.list = 1..Len(s.list)
         /\ s.meshes \in [Meshes -> Mesh \cup {NoMesh}]
         /\ \A i \in DOMAIN s.list :
              /\ s.list[i] \in Row /\ s.list[i].object \in b
              /\ s.list[i].mesh \in Meshes \cup {None}
              /\ s.list[i].mesh # None => /\ s.list[i].mesh \in Meshes
                                          /\ MeshOf(s, i) \in Mesh
<1>1. /\ s \in SceneType /\ s.list \in Seq(Row)
      /\ s.meshes \in [Meshes -> Mesh \cup {NoMesh}]
  BY DEF Sound, SceneType
<1>2. \A i \in DOMAIN s.list : s.list[i] \in Row
  BY <1>1
<1>3. \A i \in DOMAIN s.list : s.list[i].mesh \in Meshes \cup {None}
  BY <1>2 DEF Row
<1>4. \A i \in DOMAIN s.list :
        /\ s.list[i].object \in b
        /\ s.list[i].mesh # None => s.meshes[s.list[i].mesh] \in Mesh
  BY DEF Sound
<1>. QED BY <1>1, <1>2, <1>3, <1>4 DEF MeshOf

(* Data nobody uses goes.                                                  *)
LEMMA TidyDerives ==
  ASSUME NEW s, NEW b, NEW n, NEW rt, Sound(s, b, n),
         b \subseteq Objects, rt \in [Objects -> Objects]
  PROVE  /\ Derives(s, Tidy(s), b, b, rt, rt, FALSE)
         /\ Tidied(Tidy(s)) /\ Tidy(s).list = s.list
<1>. DEFINE meshes == [m \in Meshes |-> IF Free(s, m) THEN NoMesh
                                                      ELSE s.meshes[m]]
<1>1. s \in SceneType /\ s.list \in Seq(Row)
      /\ s.meshes \in [Meshes -> Mesh \cup {NoMesh}]
  BY DEF Sound, SceneType
<1>2. meshes \in [Meshes -> Mesh \cup {NoMesh}]
  BY <1>1
<1>3. PICK t \in SceneType : t = Tidy(s) /\ t.list = s.list /\ t.meshes = meshes
  <2>1. Tidy(s) = [s EXCEPT !.meshes = meshes]
    BY DEF Tidy
  <2>. HIDE DEF meshes
  <2>. QED BY <1>1, <1>2, <2>1 DEF SceneType
<1>4. Tidied(t)
  BY <1>3 DEF Tidied, Free
<1>5. ASSUME NEW i \in DOMAIN s.list, s.list[i].mesh # None
      PROVE  /\ MeshOf(t, i) = MeshOf(s, i)
             /\ t.meshes[t.list[i].mesh] \in Mesh
  <2>1. s.list[i].mesh \in Meshes /\ ~Free(s, s.list[i].mesh)
    BY <1>5, Entries DEF Free
  <2>2. s.meshes[s.list[i].mesh] \in Mesh
    BY <1>5 DEF Sound
  <2>. QED BY <1>3, <2>1, <2>2 DEF MeshOf
<1>. HIDE DEF meshes
<1>6. \A i \in DOMAIN s.list : From(s, i, t, i, b, rt, rt, FALSE)
  <2>. SUFFICES ASSUME NEW i \in DOMAIN s.list
                PROVE  From(s, i, t, i, b, rt, rt, FALSE)
    OBVIOUS
  <2>1. s.list[i].object \in b
    BY DEF Sound
  <2>2. t.list[i] = s.list[i]
    BY <1>3
  <2>3. s.list[i].mesh # None => Later(MeshOf(s, i), MeshOf(t, i))
    BY <1>5 DEF Later
  <2>. QED BY <2>1, <2>2, <2>3 DEF From
<1>7. Derives(s, t, b, b, rt, rt, FALSE)
  <2>1. \A i \in DOMAIN s.list :
          /\ t.list[i].object \in b
          /\ t.list[i].mesh # None => t.meshes[t.list[i].mesh] \in Mesh
          /\ From(s, i, t, i, b, rt, rt, FALSE)
    BY <1>3, <1>5, <1>6, Entries
  <2>2. \A i, j \in DOMAIN t.list :
          t.list[i].object = t.list[j].object => i = j
    BY <1>3 DEF Sound
  <2>. QED BY <1>3, <2>1, <2>2 DEF Derives
<1>. QED BY <1>3, <1>4, <1>7

(* A new entry at any place, for an object that has just been born: without *)
(* an id, or with the id, the root and a mesh equal to that of entry j.    *)
LEMMA InsertedDerives ==
  ASSUME NEW s, NEW b, NEW n, NEW rt, NEW new, Sound(s, b, n),
         NEW k \in 1 .. Len(s.list) + 1, NEW e \in Row,
         NEW t \in SceneType, t.list = InsertAt(s.list, k, e),
         b \subseteq Objects, e.object \notin b,
         new \in [Objects -> Objects], \A o \in b : new[o] = rt[o],
         e.mesh # None => t.meshes[e.mesh] \in Mesh,
         \A j \in DOMAIN s.list : s.list[j].mesh # None =>
           t.meshes[s.list[j].mesh] = s.meshes[s.list[j].mesh],
         \/ e.id = None
         \/ \E j \in DOMAIN s.list :
              /\ e.id = s.list[j].id /\ new[e.object] = rt[s.list[j].object]
              /\ e.mesh # None => /\ s.list[j].mesh # None
                                  /\ t.meshes[e.mesh] = MeshOf(s, j)
  PROVE  Derives(s, t, b, b \cup {e.object}, rt, new, FALSE)
<1>. DEFINE Old(i) == IF i < k THEN i ELSE i - 1
<1>1. s.list \in Seq(Row) /\ Len(s.list) \in Nat
  BY DEF Sound, SceneType
<1>2. /\ t.list \in Seq(Row) /\ Len(t.list) = Len(s.list) + 1
      /\ \A i \in 1 .. Len(s.list) + 1 :
           t.list[i] = IF i < k THEN s.list[i]
                       ELSE IF i = k THEN e ELSE s.list[i - 1]
  <2>1. PICK q \in Seq(Row) : q = s.list
    BY <1>1
  <2>2. k \in 1 .. Len(q) + 1
    BY <2>1
  <2>3. /\ InsertAt(q, k, e) \in Seq(Row)
        /\ Len(InsertAt(q, k, e)) = Len(q) + 1
        /\ \A i \in 1 .. Len(q) + 1 :
             InsertAt(q, k, e)[i] =
               IF i < k THEN q[i] ELSE IF i = k THEN e ELSE q[i - 1]
    BY <2>2, InsertedAt
  <2>. QED BY <2>1, <2>3
<1>3. DOMAIN t.list = 1 .. Len(s.list) + 1 /\ DOMAIN s.list = 1..Len(s.list)
  BY <1>1, <1>2
<1>4. \A i \in DOMAIN t.list :
        i # k => Old(i) \in DOMAIN s.list /\ t.list[i] = s.list[Old(i)]
  BY <1>1, <1>2, <1>3
<1>5. t.list[k] = e
  BY <1>1, <1>2
<1>6. \A i, j \in DOMAIN t.list :
        i # k /\ j # k /\ Old(i) = Old(j) => i = j
  BY <1>1, <1>3
<1>. HIDE DEF Old
<1>7. \A i \in DOMAIN s.list :
        /\ s.list[i].object \in b
        /\ s.list[i].mesh # None => s.meshes[s.list[i].mesh] \in Mesh
  BY DEF Sound
<1>8. \A i, j \in DOMAIN t.list : t.list[i].object = t.list[j].object => i = j
  <2>. SUFFICES ASSUME NEW i \in DOMAIN t.list, NEW j \in DOMAIN t.list,
                       t.list[i].object = t.list[j].object
                PROVE  i = j
    OBVIOUS
  <2>1. CASE i # k /\ j # k
    BY <1>4, <1>6, <2>1 DEF Sound
  <2>2. CASE i = k \/ j = k
    BY <1>4, <1>5, <1>7, <2>2
  <2>. QED BY <2>1, <2>2
<1>9. ASSUME NEW i \in DOMAIN t.list, i # k
      PROVE  /\ t.list[i].object \in b
             /\ t.list[i].mesh # None => t.meshes[t.list[i].mesh] \in Mesh
             /\ From(s, Old(i), t, i, b, rt, new, FALSE)
  <2>1. Old(i) \in DOMAIN s.list /\ t.list[i] = s.list[Old(i)]
    BY <1>4, <1>9
  <2>2. s.list[Old(i)].mesh # None => MeshOf(t, i) = MeshOf(s, Old(i))
    BY <2>1 DEF MeshOf
  <2>3. From(s, Old(i), t, i, b, rt, new, FALSE)
    BY <1>7, <2>1, <2>2 DEF From, Later
  <2>. QED BY <1>7, <2>1, <2>3
<1>10. \/ e.id = None
       \/ \E j \in DOMAIN s.list : From(s, j, t, k, b, rt, new, FALSE)
  BY <1>5 DEF From, Later, MeshOf
<1>11. e.object \in Objects
  BY DEF Row
<1>12. \A i \in DOMAIN t.list :
         /\ t.list[i].object \in b \cup {e.object}
         /\ t.list[i].mesh # None => t.meshes[t.list[i].mesh] \in Mesh
         /\ \/ t.list[i].id = None /\ t.list[i].object \notin b
            \/ \E j \in DOMAIN s.list : From(s, j, t, i, b, rt, new, FALSE)
  <2>. SUFFICES ASSUME NEW i \in DOMAIN t.list
                PROVE  /\ t.list[i].object \in b \cup {e.object}
                       /\ t.list[i].mesh # None =>
                            t.meshes[t.list[i].mesh] \in Mesh
                       /\ \/ t.list[i].id = None /\ t.list[i].object \notin b
                          \/ \E j \in DOMAIN s.list :
                               From(s, j, t, i, b, rt, new, FALSE)
    OBVIOUS
  <2>1. CASE i # k
    BY <1>4, <1>9, <2>1
  <2>2. CASE i = k
    BY <1>5, <1>10, <2>2
  <2>. QED BY <2>1, <2>2
<1>. QED BY <1>8, <1>11, <1>12 DEF Derives

LEMMA CreatedDerives ==
  ASSUME NEW s, NEW b, NEW n, NEW rt, Sound(s, b, n),
         b \subseteq Objects, rt \in [Objects -> Objects],
         NEW gap \in 0..Len(s.list), NEW o \in Objects \ b,
         NEW m \in Meshes \cup {None}, NEW t \in Topologies,
         m # None => Free(s, m)
  PROVE  Derives(s, Created(s, gap, o, m, t), b, b \cup {o}, rt, rt, FALSE)
<1>. DEFINE e == [object |-> o, id |-> None, mesh |-> m]
            meshes == [k \in Meshes |->
                         IF k = m THEN [rev |-> 0, topo |-> t] ELSE s.meshes[k]]
            list == InsertAt(s.list, gap + 1, e)
<1>1. /\ s.list \in Seq(Row) /\ s.meshes \in [Meshes -> Mesh \cup {NoMesh}]
      /\ Len(s.list) \in Nat
  BY DEF Sound, SceneType
<1>2. e \in Row /\ e.object = o /\ e.id = None /\ e.mesh = m
  BY DEF Row
<1>3. [rev |-> 0, topo |-> t] \in Mesh
  BY BoundAssumption DEF Mesh
<1>4. /\ meshes \in [Meshes -> Mesh \cup {NoMesh}]
      /\ \A k \in Meshes : meshes[k] = IF k = m THEN [rev |-> 0, topo |-> t]
                                                ELSE s.meshes[k]
  BY <1>1, <1>3
<1>. HIDE DEF e
<1>5. gap + 1 \in 1 .. Len(s.list) + 1
  BY <1>1
<1>6. list \in Seq(Row)
  BY <1>1, <1>2, <1>5, InsertedAt
<1>7. Created(s, gap, o, m, t) = [list |-> list, meshes |-> meshes]
  BY DEF Created, e
<1>. HIDE DEF list, meshes
<1>8. PICK u \in SceneType :
        /\ u = Created(s, gap, o, m, t)
        /\ u.list = list /\ u.meshes = meshes
  BY <1>4, <1>6, <1>7 DEF SceneType
<1>9. \A j \in DOMAIN s.list : s.list[j].mesh # None =>
        u.meshes[s.list[j].mesh] = s.meshes[s.list[j].mesh]
  <2>. SUFFICES ASSUME NEW j \in DOMAIN s.list, s.list[j].mesh # None
                PROVE  u.meshes[s.list[j].mesh] = s.meshes[s.list[j].mesh]
    OBVIOUS
  <2>1. s.list[j].mesh \in Meshes
    BY Entries
  <2>2. s.list[j].mesh # m
    BY DEF Free
  <2>. QED BY <1>4, <1>8, <2>1, <2>2
<1>10. e.mesh # None => u.meshes[e.mesh] \in Mesh
  BY <1>2, <1>3, <1>4, <1>8
<1>11. u.list = InsertAt(s.list, gap + 1, e)
  BY <1>8 DEF list
<1>12. Derives(s, u, b, b \cup {e.object}, rt, rt, FALSE)
  BY <1>2, <1>5, <1>9, <1>10, <1>11, InsertedDerives
<1>. QED BY <1>2, <1>8, <1>12

LEMMA CopiedDerives ==
  ASSUME NEW s, NEW b, NEW n, NEW rt, NEW new, Sound(s, b, n),
         b \subseteq Objects, new \in [Objects -> Objects],
         \A o \in b : new[o] = rt[o],
         NEW i \in DOMAIN s.list, NEW gap \in 0..Len(s.list),
         NEW o \in Objects \ b, NEW m \in Meshes \cup {None},
         m # None => Free(s, m) /\ HasMesh(s, i),
         NEW id, \/ id = None
                 \/ id = s.list[i].id /\ new[o] = rt[s.list[i].object]
  PROVE  Derives(s, Copied(s, i, gap, o, id, m), b, b \cup {o}, rt, new, FALSE)
<1>. DEFINE of == IF m = None THEN s.list[i].mesh ELSE m
            e == [object |-> o, id |-> id, mesh |-> of]
            meshes == [k \in Meshes |-> IF k = m THEN MeshOf(s, i)
                                                 ELSE s.meshes[k]]
            list == InsertAt(s.list, gap + 1, e)
<1>1. /\ s.list \in Seq(Row) /\ s.meshes \in [Meshes -> Mesh \cup {NoMesh}]
      /\ Len(s.list) \in Nat /\ DOMAIN s.list = 1..Len(s.list)
      /\ \A j \in DOMAIN s.list :
           /\ s.list[j] \in Row
           /\ s.list[j].mesh \in Meshes \cup {None}
           /\ s.list[j].mesh # None => /\ s.list[j].mesh \in Meshes
                                       /\ MeshOf(s, j) \in Mesh
  BY Entries
<1>2. m # None => s.list[i].mesh # None /\ MeshOf(s, i) \in Mesh
  BY <1>1 DEF HasMesh
<1>3. of \in Meshes \cup {None}
  BY <1>1
<1>4. e \in Row /\ e.object = o /\ e.id = id /\ e.mesh = of
  <2>1. id \in Nat \cup {None}
    BY <1>1 DEF Row
  <2>. HIDE DEF of
  <2>. QED BY <1>3, <2>1 DEF Row
<1>. HIDE DEF e
<1>5. /\ meshes \in [Meshes -> Mesh \cup {NoMesh}]
      /\ \A k \in Meshes : meshes[k] = IF k = m THEN MeshOf(s, i)
                                                ELSE s.meshes[k]
  <2>1. m \in Meshes => MeshOf(s, i) \in Mesh
    BY <1>2, NoneAssumption
  <2>. QED BY <1>1, <2>1
<1>6. PICK q \in Seq(Row) : q = s.list
  BY <1>1
<1>7. gap + 1 \in 1 .. Len(q) + 1
  BY <1>6
<1>8. InsertAt(q, gap + 1, e) \in Seq(Row)
  BY <1>4, <1>7, InsertedAt
<1>9. Copied(s, i, gap, o, id, m) = [list |-> list, meshes |-> meshes]
  BY DEF Copied, e
<1>10. list \in Seq(Row)
  BY <1>6, <1>8
<1>. HIDE DEF list, meshes
<1>11. PICK u \in SceneType :
         /\ u = Copied(s, i, gap, o, id, m)
         /\ u.list = list /\ u.meshes = meshes
  BY <1>5, <1>9, <1>10 DEF SceneType
<1>12. \A j \in DOMAIN s.list : s.list[j].mesh # None =>
         u.meshes[s.list[j].mesh] = s.meshes[s.list[j].mesh]
  <2>. SUFFICES ASSUME NEW j \in DOMAIN s.list, s.list[j].mesh # None
                PROVE  u.meshes[s.list[j].mesh] = s.meshes[s.list[j].mesh]
    OBVIOUS
  <2>1. s.list[j].mesh \in Meshes
    BY <1>1
  <2>2. s.list[j].mesh # m
    BY DEF Free
  <2>. QED BY <1>5, <1>11, <2>1, <2>2
<1>13. e.mesh # None => /\ s.list[i].mesh # None
                        /\ u.meshes[e.mesh] = MeshOf(s, i)
                        /\ u.meshes[e.mesh] \in Mesh
  <2>1. CASE m = None
    BY <1>1, <1>4, <1>12, <2>1 DEF MeshOf
  <2>2. CASE m # None
    BY <1>2, <1>4, <1>5, <1>11, <2>2
  <2>. QED BY <2>1, <2>2
<1>14. u.list = InsertAt(s.list, gap + 1, e)
  BY <1>11 DEF list
<1>15. \/ e.id = None
       \/ \E j \in DOMAIN s.list :
            /\ e.id = s.list[j].id /\ new[e.object] = rt[s.list[j].object]
            /\ e.mesh # None => /\ s.list[j].mesh # None
                                /\ u.meshes[e.mesh] = MeshOf(s, j)
  BY <1>4, <1>13
<1>16. gap + 1 \in 1 .. Len(s.list) + 1
  BY <1>6, <1>7
<1>17. Derives(s, u, b, b \cup {e.object}, rt, new, FALSE)
  BY <1>4, <1>12, <1>13, <1>14, <1>15, <1>16, InsertedDerives
<1>. QED BY <1>4, <1>11, <1>17

(* Entries that are left out, or stand in another order.                   *)
LEMMA ReorderedDerives ==
  ASSUME NEW s, NEW b, NEW n, NEW rt, Sound(s, b, n),
         b \subseteq Objects, rt \in [Objects -> Objects],
         NEW t \in SceneType, t.meshes = s.meshes,
         NEW old \in [DOMAIN t.list -> DOMAIN s.list],
         \A i \in DOMAIN t.list : t.list[i] = s.list[old[i]],
         \A i, j \in DOMAIN t.list : old[i] = old[j] => i = j
  PROVE  Derives(s, t, b, b, rt, rt, FALSE)
<1>1. \A i \in DOMAIN t.list :
        /\ t.list[i].object \in b
        /\ t.list[i].mesh # None => t.meshes[t.list[i].mesh] \in Mesh
  BY Entries DEF MeshOf
<1>2. \A i \in DOMAIN t.list : From(s, old[i], t, i, b, rt, rt, FALSE)
  <2>. SUFFICES ASSUME NEW i \in DOMAIN t.list
                PROVE  From(s, old[i], t, i, b, rt, rt, FALSE)
    OBVIOUS
  <2>1. t.list[i] = s.list[old[i]]
    OBVIOUS
  <2>2. MeshOf(t, i) = MeshOf(s, old[i])
    BY <2>1 DEF MeshOf
  <2>. QED BY <2>1, <2>2 DEF From, Later
<1>3. \A i, j \in DOMAIN t.list : t.list[i].object = t.list[j].object => i = j
  BY DEF Sound
<1>. QED BY <1>1, <1>2, <1>3 DEF Derives

LEMMA RemovedDerives ==
  ASSUME NEW s, NEW b, NEW n, NEW rt, Sound(s, b, n),
         b \subseteq Objects, rt \in [Objects -> Objects],
         NEW k \in 1..Len(s.list)
  PROVE  Derives(s, Removed(s, k), b, b, rt, rt, FALSE)
<1>. DEFINE old(len) == [i \in 1..(len - 1) |-> IF i < k THEN i ELSE i + 1]
<1>1. /\ s \in SceneType /\ s.list \in Seq(Row)
      /\ s.meshes \in [Meshes -> Mesh \cup {NoMesh}]
  BY Entries
<1>2. PICK q \in Seq(Row) : q = s.list
  BY <1>1
<1>3. PICK w \in Seq(Row) :
        /\ w = RemoveAt(q, k) /\ Len(w) = Len(q) - 1
        /\ \A i \in 1 .. Len(q) - 1 : w[i] = IF i < k THEN q[i] ELSE q[i + 1]
  <2>1. k \in 1..Len(q)
    BY <1>2
  <2>. QED BY <2>1, RemovedAt
<1>4. PICK t \in SceneType :
        t = Removed(s, k) /\ t.list = w /\ t.meshes = s.meshes
  <2>1. Removed(s, k) = [s EXCEPT !.list = w]
    BY <1>2, <1>3 DEF Removed
  <2>. QED BY <1>1, <2>1 DEF SceneType
<1>5. PICK f : f = old(Len(q))
  OBVIOUS
<1>6. k \in 1..Len(q) /\ Len(q) \in Nat /\ DOMAIN q = 1..Len(q)
      /\ DOMAIN w = 1..(Len(q) - 1)
  BY <1>2, <1>3
<1>7. /\ f \in [DOMAIN w -> DOMAIN q]
      /\ \A i \in DOMAIN w : w[i] = q[f[i]]
      /\ \A i, j \in DOMAIN w : f[i] = f[j] => i = j
  <2>1. \A i \in DOMAIN w : f[i] = IF i < k THEN i ELSE i + 1
    BY <1>5, <1>6
  <2>2. \A i \in DOMAIN w : f[i] \in DOMAIN q
    BY <1>6, <2>1
  <2>3. f \in [DOMAIN w -> DOMAIN q]
    BY <1>5, <1>6, <2>2
  <2>. QED BY <1>3, <1>6, <2>1, <2>3
<1>. HIDE DEF old
<1>8. /\ t.meshes = s.meshes /\ f \in [DOMAIN t.list -> DOMAIN s.list]
      /\ \A i \in DOMAIN t.list : t.list[i] = s.list[f[i]]
      /\ \A i, j \in DOMAIN t.list : f[i] = f[j] => i = j
  BY <1>2, <1>4, <1>7
<1>9. Derives(s, t, b, b, rt, rt, FALSE)
  BY <1>8, ReorderedDerives
<1>. QED BY <1>4, <1>9

(* An entry taken out and put in elsewhere: the same entries, each once.   *)
Shuffled(v, q) ==
  \E f \in [DOMAIN v -> DOMAIN q] :
    /\ \A i \in DOMAIN v : v[i] = q[f[i]]
    /\ \A i, j \in DOMAIN v : f[i] = f[j] => i = j

LEMMA MovedAt ==
  ASSUME NEW S, NEW q \in Seq(S), NEW k \in 1..Len(q),
         NEW g \in 1..Len(q)
  PROVE  /\ InsertAt(RemoveAt(q, k), g, q[k]) \in Seq(S)
         /\ Shuffled(InsertAt(RemoveAt(q, k), g, q[k]), q)
<1>. DEFINE Left(i) == IF i < k THEN i ELSE i + 1
            Old(i) == IF i < g THEN Left(i) ELSE IF i = g THEN k ELSE Left(i - 1)
<1>1. Len(q) \in Nat /\ DOMAIN q = 1..Len(q) /\ k \in Int /\ g \in Int
  OBVIOUS
<1>2. PICK w \in Seq(S) :
        /\ w = RemoveAt(q, k) /\ Len(w) = Len(q) - 1
        /\ \A i \in 1 .. Len(q) - 1 : w[i] = IF i < k THEN q[i] ELSE q[i + 1]
  BY RemovedAt
<1>3. PICK e \in S : e = q[k]
  BY <1>1
<1>4. g \in 1 .. Len(w) + 1
  BY <1>1, <1>2
<1>5. PICK v \in Seq(S) :
        /\ v = InsertAt(w, g, e) /\ Len(v) = Len(w) + 1
        /\ \A i \in 1 .. Len(w) + 1 :
             v[i] = IF i < g THEN w[i] ELSE IF i = g THEN e ELSE w[i - 1]
  BY <1>4, InsertedAt
<1>6. DOMAIN v = 1..Len(q) /\ Len(w) + 1 = Len(q)
  BY <1>1, <1>2, <1>5
<1>7. \A i \in 1..Len(q) : Old(i) \in 1..Len(q)
  BY <1>1
<1>8. \A i, j \in 1..Len(q) : Old(i) = Old(j) => i = j
  BY <1>1
<1>9. \A i \in 1..(Len(q) - 1) : w[i] = q[Left(i)]
  BY <1>2
<1>. HIDE DEF Left
<1>10. ASSUME NEW i \in 1..Len(q) PROVE v[i] = q[Old(i)]
  <2>1. i \in 1 .. Len(w) + 1
    BY <1>6
  <2>2. CASE i < g
    <3>1. i \in 1..(Len(q) - 1)
      BY <1>1, <2>2
    <3>. QED BY <1>5, <1>9, <2>1, <2>2, <3>1
  <2>3. CASE i = g
    BY <1>1, <1>3, <1>5, <2>1, <2>3
  <2>4. CASE i > g
    <3>1. i - 1 \in 1..(Len(q) - 1) /\ ~(i < g) /\ i # g
      BY <1>1, <2>4
    <3>2. v[i] = w[i - 1]
      BY <1>5, <2>1, <3>1
    <3>. QED BY <1>9, <3>1, <3>2
  <2>. QED BY <1>1, <2>2, <2>3, <2>4
<1>. HIDE DEF Old
<1>11. PICK f \in [1..Len(q) -> 1..Len(q)] :
         \A i \in 1..Len(q) : f[i] = Old(i)
  <2>1. [i \in 1..Len(q) |-> Old(i)] \in [1..Len(q) -> 1..Len(q)]
    BY <1>7
  <2>. QED BY <2>1
<1>12. InsertAt(RemoveAt(q, k), g, q[k]) = v
  BY <1>2, <1>3, <1>5
<1>13. /\ f \in [DOMAIN v -> DOMAIN q]
       /\ \A i \in DOMAIN v : v[i] = q[f[i]]
       /\ \A i, j \in DOMAIN v : f[i] = f[j] => i = j
  BY <1>1, <1>6, <1>8, <1>10, <1>11
<1>14. Shuffled(v, q)
  BY <1>13 DEF Shuffled
<1>. QED BY <1>12, <1>14

(* Renaming object k moves its entry.                                      *)
LEMMA RenamedDerives ==
  ASSUME NEW s, NEW b, NEW n, NEW rt, Sound(s, b, n),
         b \subseteq Objects, rt \in [Objects -> Objects],
         NEW k \in 1..Len(s.list), NEW gap \in 0..(Len(s.list) - 1)
  PROVE  Derives(s, [s EXCEPT !.list =
                       InsertAt(RemoveAt(@, k), gap + 1, s.list[k])],
                 b, b, rt, rt, FALSE)
<1>1. /\ s \in SceneType /\ s.list \in Seq(Row)
      /\ s.meshes \in [Meshes -> Mesh \cup {NoMesh}]
  BY Entries
<1>2. PICK q \in Seq(Row) : q = s.list
  BY <1>1
<1>3. PICK g \in 1..Len(q) : g = gap + 1
  BY <1>2
<1>4. PICK v : v = InsertAt(RemoveAt(q, k), g, q[k])
  OBVIOUS
<1>5. [s EXCEPT !.list = InsertAt(RemoveAt(@, k), gap + 1, s.list[k])]
        = [s EXCEPT !.list = v]
  BY <1>2, <1>3, <1>4
<1>6. v \in Seq(Row) /\ Shuffled(v, q)
  <2>1. k \in 1..Len(q)
    BY <1>2
  <2>2. /\ InsertAt(RemoveAt(q, k), g, q[k]) \in Seq(Row)
        /\ Shuffled(InsertAt(RemoveAt(q, k), g, q[k]), q)
    BY <2>1, MovedAt
  <2>. QED BY <1>4, <2>2
<1>7. PICK u \in SceneType :
        /\ u = [s EXCEPT !.list = v]
        /\ u.list = v /\ u.meshes = s.meshes
  <2>1. s = [list |-> s.list, meshes |-> s.meshes]
    BY <1>1 DEF SceneType
  <2>2. [s EXCEPT !.list = v] = [list |-> v, meshes |-> s.meshes]
    BY <2>1
  <2>3. [list |-> v, meshes |-> s.meshes] \in SceneType
    BY <1>1, <1>6 DEF SceneType
  <2>. QED BY <2>2, <2>3
<1>8. Shuffled(u.list, s.list)
  BY <1>2, <1>6, <1>7
<1>9. PICK f \in [DOMAIN u.list -> DOMAIN s.list] :
        /\ \A i \in DOMAIN u.list : u.list[i] = s.list[f[i]]
        /\ \A i, j \in DOMAIN u.list : f[i] = f[j] => i = j
  BY <1>8 DEF Shuffled
<1>10. Derives(s, u, b, b, rt, rt, FALSE)
  <2>1. u.meshes = s.meshes
    BY <1>7
  <2>. QED BY <1>9, <2>1, ReorderedDerives
<1>. QED BY <1>5, <1>7, <1>10

(* The same entries over other meshes.                                     *)
LEMMA RemeshedDerives ==
  ASSUME NEW s, NEW b, NEW n, NEW rt, Sound(s, b, n),
         b \subseteq Objects, rt \in [Objects -> Objects],
         NEW t \in SceneType, NEW edited, DOMAIN t.list = DOMAIN s.list,
         \A i \in DOMAIN s.list :
           /\ t.list[i].object = s.list[i].object
           /\ t.list[i].id = s.list[i].id
           /\ t.list[i].mesh # None =>
                /\ s.list[i].mesh # None /\ MeshOf(t, i) \in Mesh
                /\ edited \/ Later(MeshOf(s, i), MeshOf(t, i))
  PROVE  Derives(s, t, b, b, rt, rt, edited)
<1>1. \A i \in DOMAIN t.list :
        /\ t.list[i].object \in b
        /\ t.list[i].mesh # None => t.meshes[t.list[i].mesh] \in Mesh
  BY Entries DEF MeshOf
<1>2. \A i \in DOMAIN t.list : From(s, i, t, i, b, rt, rt, edited)
  BY DEF From
<1>3. \A i, j \in DOMAIN t.list : t.list[i].object = t.list[j].object => i = j
  BY DEF Sound
<1>. QED BY <1>1, <1>2, <1>3 DEF Derives

(* Another mesh under the same name, for all who use it.                   *)
LEMMA ReplacedDerives ==
  ASSUME NEW s, NEW b, NEW n, NEW rt, Sound(s, b, n),
         b \subseteq Objects, rt \in [Objects -> Objects],
         NEW k \in DOMAIN s.list, s.list[k].mesh # None, NEW mesh \in Mesh,
         NEW edited, edited \/ Later(MeshOf(s, k), mesh),
         NEW t, t = [s EXCEPT !.meshes[s.list[k].mesh] = mesh]
  PROVE  Derives(s, t, b, b, rt, rt, edited)
<1>1. /\ s \in SceneType /\ s.meshes \in [Meshes -> Mesh \cup {NoMesh}]
      /\ \A i \in DOMAIN s.list :
           s.list[i].mesh # None => /\ s.list[i].mesh \in Meshes
                                    /\ MeshOf(s, i) \in Mesh
  BY Entries
<1>2. PICK meshes \in [Meshes -> Mesh \cup {NoMesh}] :
        meshes = [s.meshes EXCEPT ![s.list[k].mesh] = mesh]
  BY <1>1
<1>3. /\ t \in SceneType /\ t.list = s.list /\ t.meshes = meshes
  <2>1. t = [s EXCEPT !.meshes = meshes]
    BY <1>1, <1>2 DEF SceneType
  <2>. QED BY <1>1, <2>1 DEF SceneType
<1>4. ASSUME NEW i \in DOMAIN s.list, s.list[i].mesh # None
      PROVE  /\ MeshOf(t, i) \in Mesh
             /\ edited \/ Later(MeshOf(s, i), MeshOf(t, i))
  <2>1. CASE s.list[i].mesh = s.list[k].mesh
    BY <1>1, <1>2, <1>3, <2>1 DEF MeshOf
  <2>2. CASE s.list[i].mesh # s.list[k].mesh
    <3>1. MeshOf(t, i) = MeshOf(s, i)
      BY <1>1, <1>2, <1>3, <1>4, <2>2 DEF MeshOf
    <3>. QED BY <1>1, <1>4, <3>1 DEF Later
  <2>. QED BY <2>1, <2>2
<1>. QED BY <1>3, <1>4, RemeshedDerives

LEMMA RebuiltDerives ==
  ASSUME NEW s, NEW b, NEW n, NEW rt, Sound(s, b, n),
         b \subseteq Objects, rt \in [Objects -> Objects],
         NEW k \in DOMAIN s.list, HasMesh(s, k), MeshOf(s, k).rev < MaxMeshRev,
         NEW t \in Topologies
  PROVE  Derives(s, Rebuilt(s, k, t), b, b, rt, rt, FALSE)
<1>1. /\ s.list[k].mesh # None /\ s.list[k].mesh \in Meshes
      /\ MeshOf(s, k) \in Mesh
      /\ s \in SceneType /\ s.meshes \in [Meshes -> Mesh \cup {NoMesh}]
  BY Entries DEF HasMesh
<1>2. PICK mesh \in Mesh : mesh = [rev |-> MeshOf(s, k).rev + 1, topo |-> t]
  <2>1. MeshOf(s, k).rev + 1 \in 0..MaxMeshRev
    BY <1>1, BoundAssumption DEF Mesh
  <2>. QED BY <2>1 DEF Mesh
<1>3. Later(MeshOf(s, k), mesh)
  BY <1>1, <1>2, BoundAssumption DEF Later, Mesh
<1>4. Rebuilt(s, k, t) = [s EXCEPT !.meshes[s.list[k].mesh] = mesh]
  BY <1>1, <1>2 DEF Rebuilt, Bumped, MeshOf, SceneType
<1>5. Derives(s, [s EXCEPT !.meshes[s.list[k].mesh] = mesh],
              b, b, rt, rt, FALSE)
  BY <1>1, <1>3, ReplacedDerives
<1>. QED BY <1>4, <1>5

(* The user's edit keeps the stored revision.                              *)
LEMMA EditedDerives ==
  ASSUME NEW s, NEW b, NEW n, NEW rt, Sound(s, b, n),
         b \subseteq Objects, rt \in [Objects -> Objects],
         NEW k \in DOMAIN s.list, HasMesh(s, k), NEW t \in Topologies
  PROVE  Derives(s, [s EXCEPT !.meshes[s.list[k].mesh].topo = t],
                 b, b, rt, rt, TRUE)
<1>1. /\ s.list[k].mesh # None /\ s.list[k].mesh \in Meshes
      /\ MeshOf(s, k) \in Mesh
      /\ s \in SceneType /\ s.meshes \in [Meshes -> Mesh \cup {NoMesh}]
  BY Entries DEF HasMesh
<1>2. PICK mesh \in Mesh : mesh = [MeshOf(s, k) EXCEPT !.topo = t]
  BY <1>1 DEF Mesh
<1>3. [s EXCEPT !.meshes[s.list[k].mesh].topo = t]
        = [s EXCEPT !.meshes[s.list[k].mesh] = mesh]
  BY <1>1, <1>2 DEF MeshOf, SceneType
<1>4. Derives(s, [s EXCEPT !.meshes[s.list[k].mesh] = mesh],
              b, b, rt, rt, TRUE)
  BY <1>1, ReplacedDerives
<1>. QED BY <1>3, <1>4

(* A copy of its own for an object that shares its mesh.                   *)
Single(s, k, m) == [s EXCEPT !.list[k].mesh = m, !.meshes[m] = MeshOf(s, k)]

LEMMA SingleDerives ==
  ASSUME NEW s, NEW b, NEW n, NEW rt, Sound(s, b, n),
         b \subseteq Objects, rt \in [Objects -> Objects],
         NEW k \in DOMAIN s.list, HasMesh(s, k),
         NEW m \in Meshes, Free(s, m)
  PROVE  /\ Derives(s, Single(s, k, m), b, b, rt, rt, FALSE)
         /\ DOMAIN Single(s, k, m).list = DOMAIN s.list
         /\ HasMesh(Single(s, k, m), k)
         /\ MeshOf(Single(s, k, m), k) = MeshOf(s, k)
<1>1. /\ s \in SceneType /\ s.list \in Seq(Row)
      /\ s.meshes \in [Meshes -> Mesh \cup {NoMesh}]
      /\ MeshOf(s, k) \in Mesh /\ s.list[k] \in Row
      /\ m # None /\ k # 0 /\ s.list[k].mesh # None
      /\ \A i \in DOMAIN s.list :
           s.list[i].mesh # None => /\ s.list[i].mesh \in Meshes
                                    /\ MeshOf(s, i) \in Mesh
  BY Entries, NoneAssumption DEF HasMesh
<1>2. PICK e \in Row : /\ e = [s.list[k] EXCEPT !.mesh = m]
                       /\ e.object = s.list[k].object /\ e.id = s.list[k].id
                       /\ e.mesh = m
  <2>1. \A r \in Row : /\ [r EXCEPT !.mesh = m] \in Row
                       /\ [r EXCEPT !.mesh = m].object = r.object
                       /\ [r EXCEPT !.mesh = m].id = r.id
                       /\ [r EXCEPT !.mesh = m].mesh = m
    BY DEF Row
  <2>. QED BY <1>1, <2>1
<1>3. PICK list \in Seq(Row) :
        /\ list = [s.list EXCEPT ![k] = e] /\ DOMAIN list = DOMAIN s.list
        /\ \A i \in DOMAIN s.list : list[i] = IF i = k THEN e ELSE s.list[i]
  <2>1. PICK q \in Seq(Row) : q = s.list
    BY <1>1
  <2>2. /\ [q EXCEPT ![k] = e] \in Seq(Row)
        /\ DOMAIN [q EXCEPT ![k] = e] = DOMAIN q
        /\ \A i \in DOMAIN q :
             [q EXCEPT ![k] = e][i] = IF i = k THEN e ELSE q[i]
    <3>1. k \in 1..Len(q) /\ DOMAIN q = 1..Len(q)
      BY <2>1
    <3>2. /\ [q EXCEPT ![k] = e] \in Seq(Row)
          /\ Len([q EXCEPT ![k] = e]) = Len(q)
          /\ \A i \in 1..Len(q) :
               [q EXCEPT ![k] = e][i] = IF i = k THEN e ELSE q[i]
      BY <3>1, ExceptSeq
    <3>. QED BY <3>1, <3>2
  <2>. QED BY <2>1, <2>2
<1>4. PICK meshes \in [Meshes -> Mesh \cup {NoMesh}] :
        /\ meshes = [s.meshes EXCEPT ![m] = MeshOf(s, k)]
        /\ \A j \in Meshes : meshes[j] = IF j = m THEN MeshOf(s, k)
                                                  ELSE s.meshes[j]
  <2>1. PICK f \in [Meshes -> Mesh \cup {NoMesh}] : f = s.meshes
    BY <1>1
  <2>2. PICK mesh \in Mesh : mesh = MeshOf(s, k)
    BY <1>1
  <2>3. /\ [f EXCEPT ![m] = mesh] \in [Meshes -> Mesh \cup {NoMesh}]
        /\ \A j \in Meshes :
             [f EXCEPT ![m] = mesh][j] = IF j = m THEN mesh ELSE f[j]
    OBVIOUS
  <2>. QED BY <2>1, <2>2, <2>3
<1>5. PICK t \in SceneType :
        t = Single(s, k, m) /\ t.list = list /\ t.meshes = meshes
  <2>1. s = [list |-> s.list, meshes |-> s.meshes]
    BY <1>1 DEF SceneType
  <2>2. Single(s, k, m) =
          [s EXCEPT !.list = [s.list EXCEPT ![k] = [s.list[k] EXCEPT !.mesh = m]],
                    !.meshes = [s.meshes EXCEPT ![m] = MeshOf(s, k)]]
    BY <2>1 DEF Single
  <2>3. Single(s, k, m) = [s EXCEPT !.list = list, !.meshes = meshes]
    BY <1>2, <1>3, <1>4, <2>2
  <2>4. Single(s, k, m) = [list |-> list, meshes |-> meshes]
    BY <2>1, <2>3
  <2>5. [list |-> list, meshes |-> meshes] \in SceneType
    BY DEF SceneType
  <2>. QED BY <2>4, <2>5
<1>6. MeshOf(t, k) = MeshOf(s, k) /\ t.list[k].mesh = m
  BY <1>2, <1>3, <1>4, <1>5 DEF MeshOf
<1>7. ASSUME NEW i \in DOMAIN s.list
      PROVE  /\ t.list[i].object = s.list[i].object
             /\ t.list[i].id = s.list[i].id
             /\ t.list[i].mesh # None => s.list[i].mesh # None
                                         /\ MeshOf(t, i) = MeshOf(s, i)
  <2>1. CASE i = k
    BY <1>1, <1>2, <1>3, <1>5, <1>6, <2>1
  <2>2. CASE i # k
    <3>1. t.list[i] = s.list[i] /\ s.list[i].mesh # m
      BY <1>3, <1>5, <2>2 DEF Free
    <3>. QED BY <1>1, <1>4, <1>5, <3>1 DEF MeshOf
  <2>. QED BY <2>1, <2>2
<1>8. DOMAIN t.list = DOMAIN s.list
  BY <1>3, <1>5
<1>9. \A i \in DOMAIN s.list :
        /\ t.list[i].object = s.list[i].object
        /\ t.list[i].id = s.list[i].id
        /\ t.list[i].mesh # None =>
             /\ s.list[i].mesh # None /\ MeshOf(t, i) \in Mesh
             /\ FALSE \/ Later(MeshOf(s, i), MeshOf(t, i))
  BY <1>1, <1>7 DEF Later
<1>10. Derives(s, t, b, b, rt, rt, FALSE)
  BY <1>8, <1>9, RemeshedDerives
<1>11. HasMesh(t, k)
  BY <1>1, <1>6 DEF HasMesh
<1>. QED BY <1>5, <1>6, <1>8, <1>10, <1>11

-----------------------------------------------------------------------------
(* Steps.                                                                  *)
Known(kin, s, next) ==
  /\ Good(s, ref, born, root, next, kin)
  /\ Past(undo, born, root, next, kin)

(* The scene a dispatch finds: repaired, and otherwise as it is.           *)
SameScene(s, t) ==
  /\ DOMAIN t.list = DOMAIN s.list /\ Len(t.list) = Len(s.list)
  /\ t.meshes = s.meshes
  /\ \A i \in DOMAIN s.list : /\ t.list[i].object = s.list[i].object
                              /\ t.list[i].mesh = s.list[i].mesh

LEMMA NowGood ==
  ASSUME IInv
  PROVE  /\ \E kin : Known(kin, Now.scene, Now.fresh)
         /\ Named(Now.scene) /\ Tidied(Now.scene)
         /\ SameScene(scene, Now.scene)
<1>1. PICK kin : Known(kin, scene, fresh)
  BY DEF IInv, Known
<1>2. Sound(scene, born, fresh) /\ fresh \in Nat \ {0}
  BY <1>1 DEF Known, Good
<1>3. CASE dirty
  <2>1. PICK t, k : t = Repaired(scene, fresh).scene
                    /\ k = Repaired(scene, fresh).fresh
    OBVIOUS
  <2>2. Repairs(scene, t, fresh, k)
    BY <1>2, <2>1, RepairRepairs
  <2>3. Now.scene = t /\ Now.fresh = k
    BY <1>3, <2>1 DEF Now
  <2>4. PICK new : Extends(new, k, kin, fresh)
                   /\ Good(t, ref, born, root, k, new)
    BY <1>1, <2>2, RepairGood DEF Known
  <2>5. Past(undo, born, root, k, new)
    BY <1>1, <1>2, <2>4, PastExtended DEF Known
  <2>6. SameScene(scene, t)
    <3>1. scene.list \in Seq(Row) /\ t.list \in Seq(Row)
      BY <1>2, <2>2 DEF Sound, Repairs, SceneType
    <3>2. DOMAIN t.list = DOMAIN scene.list
      BY <2>2 DEF Repairs
    <3>3. Len(t.list) = Len(scene.list)
      BY <3>1, <3>2
    <3>. QED BY <2>2, <3>3 DEF SameScene, Repairs
  <2>7. Tidied(t)
    BY <2>6 DEF IInv, Tidied, Free, SameScene
  <2>8. Named(t)
    BY <2>2 DEF Repairs
  <2>. QED BY <2>3, <2>4, <2>5, <2>6, <2>7, <2>8 DEF Known
<1>4. CASE ~dirty
  <2>1. Now.scene = scene /\ Now.fresh = fresh
    BY <1>4 DEF Now
  <2>2. Named(scene) /\ Tidied(scene)
    BY <1>4 DEF IInv
  <2>3. SameScene(scene, scene)
    BY DEF SameScene
  <2>. QED BY <1>1, <2>1, <2>2, <2>3
<1>5. dirty \in BOOLEAN
  BY DEF IInv
<1>. QED BY <1>3, <1>4, <1>5

(* A boundary more.                                                        *)
LEMMA PushedPast ==
  ASSUME NEW u, NEW b, NEW rt, NEW n, NEW kin, NEW s,
         Past(u, b, rt, n, kin), Sound(s, b, n), Tidied(s), KinOf(kin, s, rt)
  PROVE  Past(Editor!Pushed(u, s), b, rt, n, kin)
<1>1. /\ u \in Seq(SceneType) /\ Len(u) \in 1..UndoCapacity /\ s \in SceneType
      /\ Len(u) \in Nat /\ UndoCapacity \in Nat \ {0}
  BY BoundAssumption DEF Past, Sound
<1>2. \A p \in 1..Len(u) :
        Sound(u[p], b, n) /\ Tidied(u[p]) /\ KinOf(kin, u[p], rt)
  BY DEF Past
<1>3. ASSUME NEW w \in Seq(SceneType), Len(w) < UndoCapacity,
             \A p \in 1..Len(w) :
               Sound(w[p], b, n) /\ Tidied(w[p]) /\ KinOf(kin, w[p], rt)
      PROVE  Past(Append(w, s), b, rt, n, kin)
  <2>1. PICK v \in Seq(SceneType) :
          /\ v = Append(w, s) /\ Len(v) = Len(w) + 1
          /\ \A p \in 1..Len(w) : v[p] = w[p]
          /\ v[Len(w) + 1] = s
    BY <1>1, AppendProperties
  <2>2. Len(w) \in Nat
    BY <1>3
  <2>3. \A p \in 1..Len(v) : p \in 1..Len(w) \/ p = Len(w) + 1
    BY <2>1, <2>2
  <2>4. \A p \in 1..Len(v) :
          Sound(v[p], b, n) /\ Tidied(v[p]) /\ KinOf(kin, v[p], rt)
    BY <1>3, <2>1, <2>3
  <2>5. Len(v) \in 1..UndoCapacity
    BY <1>1, <1>3, <2>1, <2>2
  <2>. QED BY <2>1, <2>4, <2>5 DEF Past
<1>4. CASE Len(u) < UndoCapacity
  BY <1>1, <1>2, <1>3, <1>4 DEF Editor!Pushed
<1>5. CASE ~(Len(u) < UndoCapacity)
  <2>1. PICK w \in Seq(SceneType) :
          /\ w = Tail(u) /\ Len(w) = Len(u) - 1
          /\ \A p \in 1..Len(w) : w[p] = u[p + 1]
    <3>1. u # <<>>
      BY <1>1
    <3>. QED BY <1>1, <3>1, HeadTailProperties
  <2>2. Len(w) < UndoCapacity /\ \A p \in 1..Len(w) : p + 1 \in 1..Len(u)
    BY <1>1, <2>1
  <2>3. \A p \in 1..Len(w) :
          Sound(w[p], b, n) /\ Tidied(w[p]) /\ KinOf(kin, w[p], rt)
    BY <1>2, <2>1, <2>2
  <2>4. Past(Append(w, s), b, rt, n, kin)
    BY <1>3, <2>2, <2>3
  <2>. QED BY <1>5, <2>1, <2>4 DEF Editor!Pushed
<1>. QED BY <1>4, <1>5

(* Births leave the past as it was.                                        *)
LEMMA PastBorn ==
  ASSUME NEW u, NEW b, NEW rt, NEW n, NEW kin, NEW c, NEW new,
         Past(u, b, rt, n, kin), b \subseteq c, \A o \in b : new[o] = rt[o]
  PROVE  Past(u, c, new, n, kin)
<1>1. ASSUME NEW p \in 1..Len(u)
      PROVE  Sound(u[p], c, n) /\ Tidied(u[p]) /\ KinOf(kin, u[p], new)
  <2>1. Sound(u[p], b, n) /\ Tidied(u[p]) /\ KinOf(kin, u[p], rt)
    BY DEF Past
  <2>2. Sound(u[p], c, n)
    BY <2>1 DEF Sound
  <2>3. \A i \in DOMAIN u[p].list : u[p].list[i].object \in b
    BY <2>1 DEF Sound
  <2>4. KinOf(kin, u[p], new)
    BY <2>1, <2>3 DEF KinOf
  <2>. QED BY <2>1, <2>2, <2>4
<1>. QED BY <1>1 DEF Past

(* What IInv asks of the next state, for a scene s of that state.          *)
LEMMA NextGood ==
  ASSUME NEW kin, Good(scene', ref', born', root', fresh', kin),
         Past(undo', born', root', fresh', kin),
         dirty' \in BOOLEAN, fresh' <= MaxId + 1, Tidied(scene'),
         ~dirty' => Named(scene')
  PROVE  IInv'
<1>1. kin \in [1..(fresh' - 1) -> Objects]
  BY DEF Good
<1>. QED BY <1>1 DEF IInv

(* A method that makes t of the scene it found.                            *)
LEMMA AcceptsStep ==
  ASSUME IInv, NEW t, Accepts(t), NEW kin, Known(kin, Now.scene, Now.fresh),
         born \subseteq born', \A o \in born : root'[o] = root[o],
         Good(t, ref, born', root', Now.fresh, kin), ref' = ref
  PROVE  IInv'
<1>1. PICK n : n = Now.fresh
  OBVIOUS
<1>2. PICK u, k : u = Repaired(t, n).scene /\ k = Repaired(t, n).fresh
  OBVIOUS
<1>3. n \in Nat \ {0} /\ Sound(t, born', n)
  BY <1>1 DEF Good
<1>4. Repairs(t, u, n, k)
  BY <1>2, <1>3, RepairRepairs
<1>5. /\ scene' = Tidy(u) /\ fresh' = k /\ k <= MaxId + 1 /\ dirty' = FALSE
      /\ undo' = Editor!Pushed(undo, Now.scene)
  BY <1>1, <1>2 DEF Accepts
<1>6. PICK new : Extends(new, k, kin, n) /\ Good(u, ref, born', root', k, new)
  BY <1>1, <1>4, RepairGood
<1>7. Sound(u, born', k) /\ born' \subseteq Objects
      /\ root' \in [Objects -> Objects]
  BY <1>6 DEF Good
<1>8. /\ Derives(u, Tidy(u), born', born', root', root', FALSE)
      /\ Tidied(Tidy(u)) /\ Tidy(u).list = u.list
  BY <1>7, TidyDerives
<1>9. Good(Tidy(u), ref, born', root', k, new)
  BY <1>6, <1>8, DerivedGood
<1>10. Named(Tidy(u))
  BY <1>4, <1>8 DEF Repairs, Named
<1>11. Past(undo', born, root, n, kin)
  <2>1. /\ Past(undo, born, root, n, kin) /\ Tidied(Now.scene)
        /\ Sound(Now.scene, born, n) /\ KinOf(kin, Now.scene, root)
    BY <1>1, NowGood DEF Known, Good
  <2>. QED BY <1>5, <2>1, PushedPast
<1>12. Past(undo', born', root', n, kin)
  BY <1>11, PastBorn
<1>13. Past(undo', born', root', k, new)
  BY <1>3, <1>6, <1>12, PastExtended
<1>. QED BY <1>5, <1>8, <1>9, <1>10, <1>13, NextGood

LEMMA MethodStep ==
  ASSUME IInv, NEW t, Accepts(t), NEW kin, Known(kin, Now.scene, Now.fresh),
         Derives(Now.scene, t, born, born', root, root', FALSE), ref' = ref
  PROVE  IInv'
<1>1. Good(t, ref, born', root', Now.fresh, kin)
  BY DerivedGood DEF Known
<1>2. born \subseteq born' /\ \A o \in born : root'[o] = root[o]
  BY DEF Derives
<1>. QED BY <1>1, <1>2, AcceptsStep

(* The first object with an id, or nothing.                                *)
LEMMA Resolves ==
  ASSUME NEW s, NEW id
  PROVE  s.list \in Seq(Row) =>
           \/ /\ Resolve(s, id) = 0
              /\ \A i \in DOMAIN s.list : s.list[i].id # id
           \/ /\ Resolve(s, id) \in DOMAIN s.list /\ Resolve(s, id) # 0
              /\ s.list[Resolve(s, id)].id = id
<1>. DEFINE holders == {i \in DOMAIN s.list : s.list[i].id = id}
            First(i) == i \in holders /\ \A j \in holders : i <= j
<1>1. Resolve(s, id) = IF holders = {} THEN 0
                       ELSE CHOOSE i \in holders : \A j \in holders : i <= j
  BY DEF Resolve
<1>2. SUFFICES ASSUME s.list \in Seq(Row), holders # {}
               PROVE  Resolve(s, id) \in holders /\ Resolve(s, id) # 0
  <2>1. CASE holders = {}
    BY <1>1, <2>1
  <2>2. CASE holders # {}
    <3>. DEFINE j == Resolve(s, id)
    <3>1. CASE s.list \in Seq(Row)
      <4>1. j \in holders /\ j # 0
        BY <2>2, <3>1
      <4>. HIDE DEF j
      <4>. QED BY <4>1
    <3>. QED BY <3>1
  <2>. QED BY <2>1, <2>2
<1>3. PICK q \in Seq(Row) : q = s.list
  BY <1>2
<1>4. DOMAIN q = 1..Len(q) /\ Len(q) \in Nat
  OBVIOUS
<1>5. holders \subseteq Nat /\ 0 \notin holders
  BY <1>3, <1>4
<1>. HIDE DEF holders
<1>6. \E i \in holders : \A j \in holders : i <= j
  BY <1>2, <1>5, FirstOf
<1>. QED BY <1>1, <1>2, <1>5, <1>6

(* Dispatches that leave the scene as they found it.                       *)
LEMMA RefreshedStep ==
  ASSUME IInv, OnlyRefreshed, born' = born, root' = root,
         NEW kin, Known(kin, Now.scene, Now.fresh),
         Good(Now.scene, ref', born, root, Now.fresh, kin)
  PROVE  IInv'
<1>1. /\ scene' = Now.scene /\ fresh' = Now.fresh /\ dirty' = FALSE
      /\ undo' = undo /\ Now.fresh <= MaxId + 1
  BY DEF OnlyRefreshed, Serving
<1>2. Named(Now.scene) /\ Tidied(Now.scene)
  BY NowGood
<1>3. Good(scene', ref', born', root', fresh', kin)
  BY <1>1
<1>4. Past(undo', born', root', fresh', kin)
  BY <1>1 DEF Known
<1>. QED BY <1>1, <1>2, <1>3, <1>4, NextGood

(* Reading is no more than the repair; what is read is true of the scene.  *)
LEMMA InspectStep ==
  ASSUME IInv, NEW i \in Places, Inspect(i)
  PROVE  IInv'
<1>1. PICK s, n : s = Now.scene /\ n = Now.fresh
  OBVIOUS
<1>2. PICK kin : Known(kin, Now.scene, Now.fresh)
  BY NowGood
<1>3. Good(s, ref, born, root, n, kin) /\ Named(s) /\ SameScene(scene, s)
  BY <1>1, <1>2, NowGood DEF Known
<1>4. Sound(s, born, n) /\ KinOf(kin, s, root) /\ n \in Nat \ {0}
      /\ born \subseteq Objects
  BY <1>3 DEF Good
<1>5. /\ n <= MaxId + 1 /\ ref = NoRef /\ born' = born /\ root' = root
      /\ OnlyRefreshed
      /\ ref' = [NoRef EXCEPT
                  !.object = s.list[i].object, !.id = s.list[i].id,
                  !.rev = IF HasMesh(s, i) THEN MeshOf(s, i).rev ELSE None,
                  !.topo = IF HasMesh(s, i) THEN MeshOf(s, i).topo ELSE None]
  BY <1>1 DEF Inspect, OnlyRefreshed, Serving, history
<1>6. i \in DOMAIN s.list
  BY <1>3, <1>4, Entries DEF Places, SameScene
<1>7. PICK e \in Row : e = s.list[i]
  BY <1>4, <1>6, Entries
<1>8. PICK rev, topo :
        /\ rev = IF HasMesh(s, i) THEN MeshOf(s, i).rev ELSE None
        /\ topo = IF HasMesh(s, i) THEN MeshOf(s, i).topo ELSE None
  OBVIOUS
<1>9. ref' = [object |-> e.object, id |-> e.id, rev |-> rev, topo |-> topo,
              user |-> FALSE, undone |-> FALSE]
  BY <1>5, <1>7, <1>8 DEF NoRef
<1>10. rev \in 0..MaxMeshRev \cup {None} /\ topo \in Topologies \cup {None}
  <2>1. CASE HasMesh(s, i)
    <3>1. MeshOf(s, i) \in Mesh
      BY <1>4, <1>6, <2>1, Entries DEF HasMesh
    <3>. QED BY <1>8, <2>1, <3>1 DEF Mesh
  <2>2. CASE ~HasMesh(s, i)
    BY <1>8, <2>2
  <2>. QED BY <2>1, <2>2
<1>11. e.object \in born /\ e.id \in 1..(n - 1) /\ e.id # None
  <2>1. e.id # None
    BY <1>3, <1>6, <1>7 DEF Named
  <2>2. e.object \in born /\ e.id \in 1..(n - 1) \cup {None}
    BY <1>4, <1>6, <1>7 DEF Sound
  <2>. QED BY <2>1, <2>2
<1>12. e.id \in 1..MaxId
  BY <1>4, <1>5, <1>11, BoundAssumption
<1>13. ref' \in RefType
  BY <1>4, <1>9, <1>10, <1>11, <1>12 DEF RefType
<1>14. /\ ref'.object = e.object /\ ref'.id = e.id /\ ref'.rev = rev
       /\ ref'.topo = topo /\ ~ref'.user /\ ~ref'.undone
  BY <1>9
<1>15. root[e.object] = kin[e.id]
  BY <1>4, <1>6, <1>7, <1>11 DEF KinOf
<1>16. RefKnown(ref', born, root, n, kin)
  BY <1>11, <1>14, <1>15 DEF RefKnown
<1>17. Keeps(s, ref')
  <2>1. \A j \in DOMAIN s.list : s.list[j].object = s.list[i].object => j = i
    BY <1>4, <1>6 DEF Sound
  <2>. QED BY <1>7, <1>14, <2>1 DEF Keeps
<1>18. Guards(s, ref')
  <2>. SUFFICES ASSUME NEW j \in DOMAIN s.list, s.list[j].id = e.id,
                       s.list[j].mesh # None, rev # None
                PROVE  /\ rev <= MeshOf(s, j).rev
                       /\ MeshOf(s, j).rev = rev => MeshOf(s, j).topo = topo
    BY <1>14 DEF Guards
  <2>1. j = i
    BY <1>3, <1>6, <1>7 DEF Named
  <2>2. HasMesh(s, i)
    BY <1>8
  <2>3. rev = MeshOf(s, i).rev /\ topo = MeshOf(s, i).topo
    BY <1>8, <2>2
  <2>4. rev \in Nat
    BY <1>10, BoundAssumption
  <2>. QED BY <2>1, <2>3, <2>4
<1>19. Worth(s, ref', born, root)
  BY <1>17, <1>18 DEF Worth
<1>20. Good(s, ref', born, root, n, kin)
  BY <1>3, <1>13, <1>16, <1>19 DEF Good
<1>. QED BY <1>1, <1>2, <1>5, <1>20, RefreshedStep

(* What the parameters of an action say of the scene a dispatch finds.     *)
LEMMA Found ==
  ASSUME IInv
  PROVE  /\ \E kin : Known(kin, Now.scene, Now.fresh)
         /\ Sound(Now.scene, born, Now.fresh)
         /\ born \subseteq Objects /\ root \in [Objects -> Objects]
         /\ Places = 1..Len(Now.scene.list) /\ Places = DOMAIN Now.scene.list
         /\ Gaps = 0..Len(Now.scene.list)
         /\ \A m \in Meshes : Free(scene, m) => Free(Now.scene, m)
         /\ \A i \in Places : /\ HasMesh(scene, i) => HasMesh(Now.scene, i)
                              /\ MeshOf(scene, i) = MeshOf(Now.scene, i)
<1>1. PICK s, n : s = Now.scene /\ n = Now.fresh
  OBVIOUS
<1>2. SameScene(scene, s) /\ \E kin : Known(kin, s, n)
  BY <1>1, NowGood
<1>3. /\ Sound(s, born, n) /\ born \subseteq Objects
      /\ root \in [Objects -> Objects]
  BY <1>2 DEF Known, Good
<1>4. s.list \in Seq(Row) /\ DOMAIN s.list = 1..Len(s.list)
  BY <1>3, Entries
<1>5. Places = 1..Len(s.list) /\ Places = DOMAIN s.list
      /\ Gaps = 0..Len(s.list)
  BY <1>2, <1>4 DEF SameScene, Places, Gaps
<1>6. \A m \in Meshes : Free(scene, m) => Free(s, m)
  BY <1>2 DEF SameScene, Free
<1>7. \A i \in Places : /\ HasMesh(scene, i) => HasMesh(s, i)
                        /\ MeshOf(scene, i) = MeshOf(s, i)
  BY <1>2, <1>5 DEF SameScene, HasMesh, MeshOf
<1>. QED BY <1>1, <1>2, <1>3, <1>5, <1>6, <1>7

LEMMA CreateStep ==
  ASSUME IInv, NEW gap \in Gaps, NEW o \in Objects,
         NEW m \in Meshes \cup {None}, NEW t \in Topologies,
         Create(gap, o, m, t)
  PROVE  IInv'
<1>1. PICK s, n : s = Now.scene /\ n = Now.fresh
  OBVIOUS
<1>2. PICK kin : Known(kin, s, n)
  BY <1>1, Found
<1>3. /\ Sound(s, born, n) /\ born \subseteq Objects
      /\ root \in [Objects -> Objects] /\ gap \in 0..Len(s.list)
  BY <1>1, Found
<1>4. /\ o \in Objects \ born /\ born' = born \cup {o} /\ root' = root
      /\ ref' = ref /\ (m # None => Free(scene, m))
      /\ Accepts(Created(s, gap, o, m, t))
  BY <1>1 DEF Create, Born
<1>5. m # None => Free(s, m)
  BY <1>1, <1>4, Found
<1>6. Derives(s, Created(s, gap, o, m, t), born, born \cup {o}, root, root, FALSE)
  BY <1>3, <1>4, <1>5, CreatedDerives
<1>7. Derives(s, Created(s, gap, o, m, t), born, born', root, root', FALSE)
  BY <1>4, <1>6
<1>. QED BY <1>1, <1>2, <1>4, <1>7, MethodStep

LEMMA DuplicateStep ==
  ASSUME IInv, NEW i \in Places, NEW gap \in Gaps, NEW o \in Objects,
         NEW m \in Meshes \cup {None}, Duplicate(i, gap, o, m)
  PROVE  IInv'
<1>1. PICK s, n : s = Now.scene /\ n = Now.fresh
  OBVIOUS
<1>2. PICK kin : Known(kin, s, n)
  BY <1>1, Found
<1>3. /\ Sound(s, born, n) /\ born \subseteq Objects /\ i \in DOMAIN s.list
      /\ root \in [Objects -> Objects] /\ gap \in 0..Len(s.list)
  BY <1>1, Found
<1>4. /\ o \in Objects \ born /\ born' = born \cup {o} /\ root' = root
      /\ ref' = ref /\ (m # None => Free(scene, m) /\ HasMesh(scene, i))
      /\ Accepts(Copied(s, i, gap, o, None, m))
  BY <1>1 DEF Duplicate, Copyable, Born, CloneId
<1>5. m # None => Free(s, m) /\ HasMesh(s, i)
  BY <1>1, <1>4, Found
<1>6. Derives(s, Copied(s, i, gap, o, None, m), born, born \cup {o}, root, root,
              FALSE)
  <2>1. \A p \in born : root[p] = root[p]
    OBVIOUS
  <2>. QED BY <1>3, <1>4, <1>5, <2>1, CopiedDerives
<1>7. Derives(s, Copied(s, i, gap, o, None, m), born, born', root, root', FALSE)
  BY <1>4, <1>6
<1>. QED BY <1>1, <1>2, <1>4, <1>7, MethodStep

LEMMA DeleteStep ==
  ASSUME IInv, NEW i \in Places, Delete(i)
  PROVE  IInv'
<1>1. PICK s, n : s = Now.scene /\ n = Now.fresh
  OBVIOUS
<1>2. PICK kin : Known(kin, s, n)
  BY <1>1, Found
<1>3. /\ Sound(s, born, n) /\ born \subseteq Objects /\ i \in 1..Len(s.list)
      /\ root \in [Objects -> Objects]
  BY <1>1, Found
<1>4. /\ born' = born /\ root' = root /\ ref' = ref
      /\ Accepts(Removed(s, i))
  BY <1>1 DEF Delete, history
<1>5. Derives(s, Removed(s, i), born, born, root, root, FALSE)
  BY <1>3, RemovedDerives
<1>6. Derives(s, Removed(s, i), born, born', root, root', FALSE)
  BY <1>4, <1>5
<1>. QED BY <1>1, <1>2, <1>4, <1>6, MethodStep

(* A topology operation on the scene a dispatch found.                     *)
LEMMA RebuiltStep ==
  ASSUME IInv, NEW i \in DOMAIN Now.scene.list, NEW t \in Topologies,
         HasMesh(Now.scene, i), MeshOf(Now.scene, i).rev < MaxMeshRev,
         Accepts(Rebuilt(Now.scene, i, t)),
         born' = born, root' = root, ref' = ref
  PROVE  IInv'
<1>1. PICK s, n : s = Now.scene /\ n = Now.fresh
  OBVIOUS
<1>2. PICK kin : Known(kin, s, n)
  BY <1>1, Found
<1>3. /\ Sound(s, born, n) /\ born \subseteq Objects /\ i \in DOMAIN s.list
      /\ root \in [Objects -> Objects]
  BY <1>1, Found
<1>4. HasMesh(s, i) /\ MeshOf(s, i).rev < MaxMeshRev
  BY <1>1
<1>5. Derives(s, Rebuilt(s, i, t), born, born, root, root, FALSE)
  BY <1>3, <1>4, RebuiltDerives
<1>6. Derives(s, Rebuilt(s, i, t), born, born', root, root', FALSE)
  BY <1>5
<1>. QED BY <1>1, <1>2, <1>6, MethodStep

LEMMA RebuildStep ==
  ASSUME IInv, NEW i \in Places, NEW t \in Topologies, Rebuild(i, t)
  PROVE  IInv'
<1>1. i \in DOMAIN Now.scene.list
  BY Found
<1>2. HasMesh(scene, i) /\ MeshOf(scene, i).rev < MaxMeshRev
  BY DEF Rebuild, Rebuildable
<1>3. HasMesh(Now.scene, i) /\ MeshOf(Now.scene, i).rev < MaxMeshRev
  BY <1>2, Found
<1>4. /\ Accepts(Rebuilt(Now.scene, i, t))
      /\ born' = born /\ root' = root /\ ref' = ref
  BY DEF Rebuild, history
<1>. QED BY <1>1, <1>3, <1>4, RebuiltStep

LEMMA RebuildReferredStep ==
  ASSUME IInv, NEW t \in Topologies, RebuildReferred(t)
  PROVE  IInv'
<1>1. PICK i : i = Resolve(Now.scene, ref.id)
  OBVIOUS
<1>2. born' = born /\ root' = root /\ ref' = ref
  BY DEF RebuildReferred, history
<1>3. CASE /\ Admits(Now.scene, i, ref.rev) /\ ref.rev < MaxMeshRev
           /\ Accepts(Rebuilt(Now.scene, i, t))
  <2>1. Now.scene.list \in Seq(Row)
    BY Found, Entries
  <2>2. HasMesh(Now.scene, i) /\ MeshOf(Now.scene, i).rev < MaxMeshRev
    BY <1>3 DEF Admits
  <2>3. i \in DOMAIN Now.scene.list
    BY <1>1, <2>1, <2>2, Resolves DEF HasMesh
  <2>. QED BY <1>2, <1>3, <2>2, <2>3, RebuiltStep
<1>4. CASE OnlyRefreshed
  <2>1. PICK kin : Known(kin, Now.scene, Now.fresh)
    BY Found
  <2>2. Good(Now.scene, ref', born, root, Now.fresh, kin)
    BY <1>2, <2>1 DEF Known
  <2>. QED BY <1>2, <1>4, <2>1, <2>2, RefreshedStep
<1>. QED BY <1>1, <1>3, <1>4 DEF RebuildReferred

LEMMA OtherStep ==
  ASSUME IInv, Other
  PROVE  IInv'
<1>1. PICK kin : Known(kin, Now.scene, Now.fresh)
  BY Found
<1>2. born' = born /\ root' = root /\ ref' = ref
  BY DEF Other, history
<1>3. Good(Now.scene, ref, born', root', Now.fresh, kin)
  BY <1>1, <1>2 DEF Known
<1>4. CASE Accepts(Now.scene)
  BY <1>1, <1>2, <1>3, <1>4, AcceptsStep
<1>5. CASE OnlyRefreshed
  BY <1>1, <1>2, <1>3, <1>5, RefreshedStep
<1>. QED BY <1>4, <1>5 DEF Other

(* Two edits: a mesh of its own, then another topology for it.             *)
LEMMA ApplyStep ==
  ASSUME IInv, NEW i \in Places, NEW m \in Meshes, NEW t \in Topologies,
         Apply(i, m, t)
  PROVE  IInv'
<1>1. PICK s, n : s = Now.scene /\ n = Now.fresh
  OBVIOUS
<1>2. PICK kin : Known(kin, s, n)
  BY <1>1, Found
<1>3. /\ Sound(s, born, n) /\ born \subseteq Objects /\ i \in DOMAIN s.list
      /\ root \in [Objects -> Objects]
  BY <1>1, Found
<1>4. /\ HasMesh(scene, i) /\ MeshOf(scene, i).rev < MaxMeshRev
      /\ Free(scene, m)
      /\ born' = born /\ root' = root /\ ref' = ref
      /\ Accepts(Rebuilt(Single(s, i, m), i, t))
  BY <1>1 DEF Apply, Rebuildable, history, Single
<1>5. HasMesh(s, i) /\ MeshOf(s, i).rev < MaxMeshRev /\ Free(s, m)
  BY <1>1, <1>4, Found
<1>6. PICK single : single = Single(s, i, m)
  OBVIOUS
<1>7. /\ Derives(s, single, born, born, root, root, FALSE)
      /\ DOMAIN single.list = DOMAIN s.list
      /\ HasMesh(single, i) /\ MeshOf(single, i) = MeshOf(s, i)
  <2>1. /\ Derives(s, Single(s, i, m), born, born, root, root, FALSE)
        /\ DOMAIN Single(s, i, m).list = DOMAIN s.list
        /\ HasMesh(Single(s, i, m), i)
        /\ MeshOf(Single(s, i, m), i) = MeshOf(s, i)
    BY <1>3, <1>5, SingleDerives, ZenonT(60)
  <2>. QED BY <1>6, <2>1
<1>8. Good(single, ref, born, root, n, kin)
  BY <1>2, <1>7, DerivedGood DEF Known
<1>9. Sound(single, born, n)
  BY <1>8 DEF Good
<1>10. /\ i \in DOMAIN single.list /\ MeshOf(single, i).rev < MaxMeshRev
  BY <1>3, <1>5, <1>7
<1>11. Derives(single, Rebuilt(single, i, t), born, born, root, root, FALSE)
  BY <1>3, <1>7, <1>9, <1>10, RebuiltDerives
<1>12. Good(Rebuilt(single, i, t), ref, born, root, n, kin)
  BY <1>8, <1>11, DerivedGood
<1>13. Good(Rebuilt(single, i, t), ref, born', root', Now.fresh, kin)
  BY <1>1, <1>4, <1>12
<1>14. Known(kin, Now.scene, Now.fresh)
  BY <1>1, <1>2
<1>15. Accepts(Rebuilt(single, i, t))
  BY <1>4, <1>6
<1>16. born \subseteq born' /\ \A o \in born : root'[o] = root[o]
  BY <1>4
<1>. QED BY <1>4, <1>13, <1>14, <1>15, <1>16, AcceptsStep

-----------------------------------------------------------------------------
(* The user's steps.                                                       *)
LEMMA UserDidStep ==
  ASSUME IInv, NEW s, UserDid(s), NEW kin,
         Good(scene, ref', born, root, fresh, kin),
         Past(undo, born, root, fresh, kin), NEW edited,
         Derives(scene, s, born, born', root, root', edited),
         edited => ref' = NoRef \/ ref'.user
  PROVE  IInv'
<1>1. /\ scene' = Tidy(s) /\ undo' = Editor!Pushed(undo, Tidy(s))
      /\ dirty' = TRUE /\ fresh' = fresh
  BY DEF UserDid
<1>2. Good(s, ref', born', root', fresh, kin)
  BY DerivedGood
<1>3. Sound(s, born', fresh) /\ born' \subseteq Objects
      /\ root' \in [Objects -> Objects]
  BY <1>2 DEF Good
<1>4. Derives(s, Tidy(s), born', born', root', root', FALSE) /\ Tidied(Tidy(s))
  BY <1>3, TidyDerives
<1>5. Good(Tidy(s), ref', born', root', fresh, kin)
  BY <1>2, <1>4, DerivedGood
<1>6. born \subseteq born' /\ \A o \in born : root'[o] = root[o]
  BY DEF Derives
<1>7. Past(undo, born', root', fresh, kin)
  BY <1>6, PastBorn
<1>8. Past(undo', born', root', fresh, kin)
  <2>1. Sound(Tidy(s), born', fresh) /\ KinOf(kin, Tidy(s), root')
    BY <1>5 DEF Good
  <2>. QED BY <1>1, <1>4, <1>7, <2>1, PushedPast
<1>9. fresh' <= MaxId + 1
  BY <1>1 DEF IInv
<1>10. Good(scene', ref', born', root', fresh', kin)
  BY <1>1, <1>5
<1>11. Past(undo', born', root', fresh', kin)
  BY <1>1, <1>8
<1>. QED BY <1>1, <1>4, <1>9, <1>10, <1>11, NextGood

(* What the parameters of the user's actions say of the scene.             *)
LEMMA Present ==
  ASSUME IInv
  PROVE  /\ \E kin : /\ Good(scene, ref, born, root, fresh, kin)
                     /\ Past(undo, born, root, fresh, kin)
         /\ Sound(scene, born, fresh)
         /\ born \subseteq Objects /\ root \in [Objects -> Objects]
         /\ Places = 1..Len(scene.list) /\ Places = DOMAIN scene.list
         /\ Gaps = 0..Len(scene.list)
<1>1. PICK kin : /\ Good(scene, ref, born, root, fresh, kin)
                 /\ Past(undo, born, root, fresh, kin)
  BY DEF IInv
<1>2. /\ Sound(scene, born, fresh)
      /\ born \subseteq Objects /\ root \in [Objects -> Objects]
  BY <1>1 DEF Good
<1>3. DOMAIN scene.list = 1..Len(scene.list)
  BY <1>2, Entries
<1>. QED BY <1>1, <1>2, <1>3 DEF Places, Gaps

LEMMA UserCreateStep ==
  ASSUME IInv, NEW gap \in Gaps, NEW o \in Objects, NEW m \in Meshes,
         NEW t \in Topologies, UserCreate(gap, o, m, t)
  PROVE  IInv'
<1>1. PICK kin : /\ Good(scene, ref, born, root, fresh, kin)
                 /\ Past(undo, born, root, fresh, kin)
  BY Present
<1>2. /\ o \in Objects \ born /\ born' = born \cup {o} /\ root' = root
      /\ ref' = ref /\ Free(scene, m)
      /\ UserDid(Created(scene, gap, o, m, t))
  BY DEF UserCreate, Born
<1>3. Derives(scene, Created(scene, gap, o, m, t), born, born \cup {o},
              root, root, FALSE)
  BY <1>2, Present, CreatedDerives
<1>4. Derives(scene, Created(scene, gap, o, m, t), born, born', root, root',
              FALSE)
  BY <1>2, <1>3
<1>5. Good(scene, ref', born, root, fresh, kin)
  BY <1>1, <1>2
<1>. QED BY <1>1, <1>2, <1>4, <1>5, UserDidStep

(* The copy has the root of what it is a copy of.                          *)
LEMMA UserCopyStep ==
  ASSUME IInv, NEW i \in Places, NEW gap \in Gaps, NEW o \in Objects,
         NEW m \in Meshes \cup {None}, UserCopy(i, gap, o, m)
  PROVE  IInv'
<1>1. PICK kin : /\ Good(scene, ref, born, root, fresh, kin)
                 /\ Past(undo, born, root, fresh, kin)
  BY Present
<1>2. PICK id, t : /\ id = scene.list[i].id
                   /\ t = Copied(scene, i, gap, o, id, m)
  OBVIOUS
<1>3. /\ o \in Objects \ born /\ born' = born \cup {o} /\ ref' = ref
      /\ root' = [root EXCEPT ![o] = root[scene.list[i].object]]
      /\ (m # None => Free(scene, m) /\ HasMesh(scene, i))
      /\ UserDid(t)
  BY <1>2 DEF UserCopy, Copyable
<1>4. /\ Sound(scene, born, fresh) /\ born \subseteq Objects
      /\ root \in [Objects -> Objects] /\ i \in DOMAIN scene.list
      /\ gap \in 0..Len(scene.list)
  BY Present
<1>5. scene.list[i].object \in Objects
  BY <1>4 DEF Sound
<1>6. /\ root' \in [Objects -> Objects] /\ \A p \in born : root'[p] = root[p]
      /\ root'[o] = root[scene.list[i].object]
  BY <1>3, <1>4, <1>5
<1>7. Derives(scene, t, born, born', root, root', FALSE)
  <2>1. PICK new : new = root'
    OBVIOUS
  <2>2. /\ new \in [Objects -> Objects] /\ \A p \in born : new[p] = root[p]
        /\ id = scene.list[i].id /\ new[o] = root[scene.list[i].object]
    BY <1>2, <1>6, <2>1
  <2>3. Derives(scene, Copied(scene, i, gap, o, id, m), born, born \cup {o},
                root, new, FALSE)
    BY <1>3, <1>4, <2>2, CopiedDerives
  <2>. QED BY <1>2, <1>3, <2>1, <2>3
<1>8. Good(scene, ref', born, root, fresh, kin)
  BY <1>1, <1>3
<1>. QED BY <1>1, <1>3, <1>7, <1>8, UserDidStep

LEMMA UserRenameStep ==
  ASSUME IInv, NEW i \in Places, NEW gap \in Gaps, UserRename(i, gap)
  PROVE  IInv'
<1>1. PICK kin : /\ Good(scene, ref, born, root, fresh, kin)
                 /\ Past(undo, born, root, fresh, kin)
  BY Present
<1>2. PICK t : t = [scene EXCEPT !.list =
                      InsertAt(RemoveAt(@, i), gap + 1, scene.list[i])]
  OBVIOUS
<1>3. /\ gap \in 0..(Len(scene.list) - 1) /\ UserDid(t)
      /\ born' = born /\ root' = root /\ ref' = ref
  BY <1>2 DEF UserRename, history
<1>4. Derives(scene, t, born, born, root, root, FALSE)
  BY <1>2, <1>3, Present, RenamedDerives
<1>5. Derives(scene, t, born, born', root, root', FALSE)
  BY <1>3, <1>4
<1>6. Good(scene, ref', born, root, fresh, kin)
  BY <1>1, <1>3
<1>. QED BY <1>1, <1>3, <1>5, <1>6, UserDidStep

LEMMA UserDeleteStep ==
  ASSUME IInv, NEW i \in Places, UserDelete(i)
  PROVE  IInv'
<1>1. PICK kin : /\ Good(scene, ref, born, root, fresh, kin)
                 /\ Past(undo, born, root, fresh, kin)
  BY Present
<1>2. /\ UserDid(Removed(scene, i))
      /\ born' = born /\ root' = root /\ ref' = ref
  BY DEF UserDelete, history
<1>3. Derives(scene, Removed(scene, i), born, born, root, root, FALSE)
  BY Present, RemovedDerives
<1>4. Derives(scene, Removed(scene, i), born, born', root, root', FALSE)
  BY <1>2, <1>3
<1>5. Good(scene, ref', born, root, fresh, kin)
  BY <1>1, <1>2
<1>. QED BY <1>1, <1>2, <1>4, <1>5, UserDidStep

(* A reference that is told of an edit promises less.                      *)
LEMMA ToldGood ==
  ASSUME NEW s, NEW r, NEW b, NEW rt, NEW n, NEW kin,
         Good(s, r, b, rt, n, kin), r # NoRef
  PROVE  /\ Good(s, [r EXCEPT !.user = TRUE], b, rt, n, kin)
         /\ [r EXCEPT !.user = TRUE].user
<1>1. r \in RefType
  BY DEF Good
<1>2. PICK q \in RefType :
        /\ q = [r EXCEPT !.user = TRUE]
        /\ q.object = r.object /\ q.id = r.id /\ q.undone = r.undone /\ q.user
  <2>1. /\ [r EXCEPT !.user = TRUE] \in RefType
        /\ [r EXCEPT !.user = TRUE].object = r.object
        /\ [r EXCEPT !.user = TRUE].id = r.id
        /\ [r EXCEPT !.user = TRUE].undone = r.undone
        /\ [r EXCEPT !.user = TRUE].user
    BY <1>1 DEF RefType
  <2>. QED BY <2>1
<1>3. RefKnown(q, b, rt, n, kin)
  BY <1>2 DEF Good, RefKnown
<1>4. Alone(q, b, rt) <=> Alone(r, b, rt)
  BY <1>2 DEF Alone
<1>5. Keeps(s, q) <=> Keeps(s, r)
  BY <1>2 DEF Keeps
<1>6. Worth(s, q, b, rt)
  BY <1>2, <1>4, <1>5 DEF Good, Worth
<1>7. Good(s, q, b, rt, n, kin)
  BY <1>2, <1>3, <1>6 DEF Good
<1>. QED BY <1>2, <1>7

LEMMA UserRebuildStep ==
  ASSUME IInv, NEW i \in Places, NEW t \in Topologies, UserRebuild(i, t)
  PROVE  IInv'
<1>1. PICK kin : /\ Good(scene, ref, born, root, fresh, kin)
                 /\ Past(undo, born, root, fresh, kin)
  BY Present
<1>2. PICK s : s = [scene EXCEPT !.meshes[scene.list[i].mesh].topo = t]
  OBVIOUS
<1>3. /\ HasMesh(scene, i) /\ UserDid(s)
      /\ born' = born /\ root' = root
      /\ ref' = IF ref = NoRef THEN ref ELSE [ref EXCEPT !.user = TRUE]
  BY <1>2 DEF UserRebuild, history
<1>4. Derives(scene, s, born, born, root, root, TRUE)
  BY <1>2, <1>3, Present, EditedDerives
<1>5. Derives(scene, s, born, born', root, root', TRUE)
  BY <1>3, <1>4
<1>6. /\ Good(scene, ref', born, root, fresh, kin)
      /\ ref' = NoRef \/ ref'.user
  <2>1. CASE ref = NoRef
    BY <1>1, <1>3, <2>1
  <2>2. CASE ref # NoRef
    BY <1>1, <1>3, <2>2, ToldGood
  <2>. QED BY <2>1, <2>2
<1>. QED BY <1>1, <1>3, <1>5, <1>6, UserDidStep

(* Undo brings back a scene whose ids have the same kins as ever.          *)
LEMMA UndoStep ==
  ASSUME IInv, Undo
  PROVE  IInv'
<1>1. PICK kin : /\ Good(scene, ref, born, root, fresh, kin)
                 /\ Past(undo, born, root, fresh, kin)
  BY Present
<1>2. PICK p \in 1..Len(undo) :
        /\ scene' = undo[p] /\ undo' = SubSeq(undo, 1, p)
        /\ dirty' = TRUE /\ fresh' = fresh /\ born' = born /\ root' = root
        /\ ref' = IF ref = NoRef THEN ref ELSE [ref EXCEPT !.undone = TRUE]
  <2>1. PICK p \in Editor!UndoStops(scene, undo) :
          /\ scene' = undo[p] /\ undo' = Editor!HistoryAt(undo, p)
          /\ dirty' = TRUE /\ fresh' = fresh /\ born' = born /\ root' = root
          /\ ref' = IF ref = NoRef THEN ref ELSE [ref EXCEPT !.undone = TRUE]
    BY DEF Undo, history
  <2>2. p \in 1..Len(undo)
    BY <2>1 DEF Editor!UndoStops
  <2>3. p # 0
    BY <2>2
  <2>4. undo' = SubSeq(undo, 1, p)
    BY <2>1, <2>3 DEF Editor!HistoryAt
  <2>. QED BY <2>1, <2>2, <2>4
<1>3. /\ undo \in Seq(SceneType) /\ Len(undo) \in 1..UndoCapacity
      /\ UndoCapacity \in Nat
      /\ \A k \in 1..Len(undo) : /\ Sound(undo[k], born, fresh)
                                 /\ Tidied(undo[k]) /\ KinOf(kin, undo[k], root)
  BY <1>1, BoundAssumption DEF Past
<1>4. Past(undo', born', root', fresh', kin)
  <2>1. PICK u \in Seq(SceneType) : u = undo
    BY <1>3
  <2>2. p \in 0..Len(u)
    BY <2>1
  <2>3. /\ SubSeq(u, 1, p) \in Seq(SceneType) /\ Len(SubSeq(u, 1, p)) = p
        /\ \A k \in 1..p : SubSeq(u, 1, p)[k] = u[k]
    BY <2>2, CutInTwo
  <2>4. PICK w \in Seq(SceneType) :
          w = undo' /\ Len(w) = p /\ \A k \in 1..p : w[k] = undo[k]
    BY <1>2, <2>1, <2>3
  <2>5. p \in 1..UndoCapacity /\ \A k \in 1..p : k \in 1..Len(undo)
    BY <1>3
  <2>6. Past(w, born, root, fresh, kin)
    BY <1>3, <2>4, <2>5 DEF Past
  <2>. QED BY <1>2, <2>4, <2>6
<1>5. /\ ref' \in RefType /\ ref'.object = ref.object /\ ref'.id = ref.id
      /\ ref' # NoRef => ref # NoRef /\ ref'.undone
  <2>1. ref \in RefType
    BY <1>1 DEF Good
  <2>2. CASE ref = NoRef
    BY <1>2, <2>1, <2>2
  <2>3. CASE ref # NoRef
    <3>1. ref' = [ref EXCEPT !.undone = TRUE]
      BY <1>2, <2>3
    <3>. QED BY <2>1, <2>3, <3>1 DEF RefType
  <2>. QED BY <2>2, <2>3
<1>6. RefKnown(ref', born, root, fresh, kin)
  BY <1>1, <1>5 DEF Good, RefKnown
<1>7. Worth(undo[p], ref', born, root)
  BY <1>5 DEF Worth
<1>8. Good(undo[p], ref', born, root, fresh, kin)
  BY <1>1, <1>3, <1>5, <1>6, <1>7 DEF Good
<1>9. Good(scene', ref', born', root', fresh', kin)
  BY <1>2, <1>8
<1>10. Tidied(scene')
  BY <1>2, <1>3
<1>11. fresh' <= MaxId + 1
  BY <1>2 DEF IInv
<1>. QED BY <1>2, <1>4, <1>9, <1>10, <1>11, NextGood

-----------------------------------------------------------------------------
LEMMA InitInv == Init => IInv
<1>. SUFFICES ASSUME Init PROVE IInv
  OBVIOUS
<1>1. PICK empty : empty = [list |-> <<>>, meshes |-> [k \in Meshes |-> NoMesh]]
  OBVIOUS
<1>2. PICK o \in Objects, m \in Meshes, t \in Topologies :
        scene = Created(empty, 0, o, m, t) /\ born = {o}
  BY <1>1 DEF Init
<1>3. /\ undo = <<scene>> /\ dirty = TRUE /\ fresh = 1 /\ ref = NoRef
      /\ root = [p \in Objects |-> p]
  BY DEF Init
<1>4. root \in [Objects -> Objects]
  BY <1>3
<1>5. empty \in SceneType /\ empty.list = <<>> /\ Len(empty.list) = 0
      /\ empty.meshes = [k \in Meshes |-> NoMesh] /\ DOMAIN empty.list = {}
  <2>1. <<>> \in Seq(Row) /\ Len(<<>>) = 0 /\ DOMAIN <<>> = {}
    OBVIOUS
  <2>2. [k \in Meshes |-> NoMesh] \in [Meshes -> Mesh \cup {NoMesh}]
    OBVIOUS
  <2>. QED BY <1>1, <2>1, <2>2 DEF SceneType
<1>6. Sound(empty, {}, 1)
  BY <1>5 DEF Sound
<1>7. Derives(empty, scene, {}, {o}, root, root, FALSE)
  <2>1. Free(empty, m) /\ m # None
    BY <1>5, NoneAssumption DEF Free
  <2>2. 0 \in 0..Len(empty.list) /\ o \in Objects \ {} /\ {} \subseteq Objects
        /\ m \in Meshes \cup {None}
    BY <1>5
  <2>3. Derives(empty, Created(empty, 0, o, m, t), {}, {} \cup {o}, root, root,
                FALSE)
    BY <1>4, <1>6, <2>1, <2>2, CreatedDerives
  <2>. QED BY <1>2, <2>3
<1>8. \A i \in DOMAIN scene.list : scene.list[i].id = None
  BY <1>5, <1>7 DEF Derives
<1>9. Sound(scene, born, fresh) /\ born \subseteq Objects /\ born # {}
  <2>1. Sound(scene, {o}, 1)
    BY <1>7, <1>8 DEF Derives, Sound
  <2>. QED BY <1>2, <1>3, <2>1
<1>10. PICK kin : kin \in [1..(fresh - 1) -> Objects]
  <2>1. [d \in 1..(fresh - 1) |-> o] \in [1..(fresh - 1) -> Objects]
    OBVIOUS
  <2>. QED BY <2>1
<1>11. KinOf(kin, scene, root)
  BY <1>8 DEF KinOf
<1>12. Good(scene, ref, born, root, fresh, kin)
  <2>1. ref \in RefType /\ RefKnown(ref, born, root, fresh, kin)
    BY <1>3 DEF RefType, NoRef, RefKnown
  <2>2. Worth(scene, ref, born, root)
    BY <1>3 DEF Worth
  <2>. QED BY <1>3, <1>4, <1>9, <1>10, <1>11, <2>1, <2>2 DEF Good
<1>13. Tidied(scene)
  <2>1. PICK e : e = [object |-> o, id |-> None, mesh |-> m]
    OBVIOUS
  <2>2. e \in Row /\ e.mesh = m
    BY <2>1 DEF Row
  <2>3. /\ scene.list = InsertAt(empty.list, 1, e)
        /\ scene.meshes = [k \in Meshes |-> IF k = m THEN [rev |-> 0, topo |-> t]
                                                     ELSE empty.meshes[k]]
    BY <1>2, <2>1 DEF Created
  <2>4. PICK q \in Seq(Row) : q = empty.list /\ Len(q) = 0
    BY <1>5 DEF SceneType
  <2>5. /\ InsertAt(q, 1, e) \in Seq(Row) /\ Len(InsertAt(q, 1, e)) = 1
        /\ InsertAt(q, 1, e)[1] = e
    <3>1. 1 \in 1 .. Len(q) + 1 /\ Len(q) + 1 = 1
      BY <2>4
    <3>2. /\ InsertAt(q, 1, e) \in Seq(Row)
          /\ Len(InsertAt(q, 1, e)) = Len(q) + 1
          /\ \A i \in 1 .. Len(q) + 1 :
               InsertAt(q, 1, e)[i] =
                 IF i < 1 THEN q[i] ELSE IF i = 1 THEN e ELSE q[i - 1]
      BY <2>2, <3>1, InsertedAt
    <3>3. InsertAt(q, 1, e)[1] = IF 1 < 1 THEN q[1] ELSE IF 1 = 1 THEN e ELSE q[0]
      BY <3>1, <3>2
    <3>4. InsertAt(q, 1, e)[1] = e
      BY <3>3
    <3>. QED BY <2>4, <3>2, <3>4
  <2>6. 1 \in DOMAIN scene.list /\ scene.list[1].mesh = m
    BY <2>2, <2>3, <2>4, <2>5
  <2>7. ~Free(scene, m)
    BY <2>6 DEF Free
  <2>8. \A k \in Meshes : k # m => scene.meshes[k] = NoMesh
    BY <1>5, <2>3
  <2>. QED BY <2>7, <2>8 DEF Tidied
<1>14. Past(undo, born, root, fresh, kin)
  <2>1. PICK u \in Seq(SceneType) : u = undo /\ Len(u) = 1 /\ u[1] = scene
    <3>1. scene \in SceneType
      BY <1>9 DEF Sound
    <3>. QED BY <1>3, <3>1
  <2>2. Len(u) \in 1..UndoCapacity /\ \A k \in 1..Len(u) : u[k] = scene
    BY <2>1, BoundAssumption
  <2>. QED BY <1>9, <1>11, <1>13, <2>1, <2>2 DEF Past
<1>15. dirty \in BOOLEAN /\ fresh <= MaxId + 1
  BY <1>3, BoundAssumption
<1>. QED BY <1>3, <1>10, <1>12, <1>13, <1>14, <1>15 DEF IInv

LEMMA NextInv == IInv /\ [Next]_vars => IInv'
<1>. SUFFICES ASSUME IInv, [Next]_vars PROVE IInv'
  OBVIOUS
<1>1. CASE UNCHANGED vars
  <2>1. PICK kin : /\ Good(scene, ref, born, root, fresh, kin)
                   /\ Past(undo, born, root, fresh, kin)
    BY Present
  <2>2. /\ scene' = scene /\ undo' = undo /\ dirty' = dirty /\ fresh' = fresh
        /\ ref' = ref /\ born' = born /\ root' = root
    BY <1>1 DEF vars, history
  <2>3. Good(scene', ref', born', root', fresh', kin)
    BY <2>1, <2>2
  <2>4. Past(undo', born', root', fresh', kin)
    BY <2>1, <2>2
  <2>5. /\ dirty' \in BOOLEAN /\ fresh' <= MaxId + 1 /\ Tidied(scene')
        /\ ~dirty' => Named(scene')
    BY <2>2 DEF IInv
  <2>. QED BY <2>3, <2>4, <2>5, NextGood
<1>2. CASE Host
  <2>1. CASE \E i \in Places : Inspect(i)
    BY <2>1, InspectStep
  <2>2. CASE \E i \in Places : Delete(i)
    BY <2>2, DeleteStep
  <2>3. CASE \E gap \in Gaps, o \in Objects, m \in Meshes \cup {None},
                t \in Topologies : Create(gap, o, m, t)
    BY <2>3, CreateStep
  <2>4. CASE \E i \in Places, gap \in Gaps, o \in Objects,
                m \in Meshes \cup {None} : Duplicate(i, gap, o, m)
    BY <2>4, DuplicateStep
  <2>5. CASE \E i \in Places, t \in Topologies : Rebuild(i, t)
    BY <2>5, RebuildStep
  <2>6. CASE \E t \in Topologies : RebuildReferred(t)
    BY <2>6, RebuildReferredStep
  <2>7. CASE \E i \in Places, m \in Meshes, t \in Topologies : Apply(i, m, t)
    BY <2>7, ApplyStep
  <2>8. CASE RecalcNormals
    BY <2>8, OtherStep DEF RecalcNormals, Other
  <2>9. CASE Other
    BY <2>9, OtherStep
  <2>. QED BY <1>2, <2>1, <2>2, <2>3, <2>4, <2>5, <2>6, <2>7, <2>8, <2>9
           DEF Host
<1>3. CASE User
  <2>1. CASE \E gap \in Gaps, o \in Objects, m \in Meshes, t \in Topologies :
               UserCreate(gap, o, m, t)
    BY <2>1, UserCreateStep
  <2>2. CASE \E i \in Places, gap \in Gaps, o \in Objects,
                m \in Meshes \cup {None} : UserCopy(i, gap, o, m)
    BY <2>2, UserCopyStep
  <2>3. CASE \E i \in Places, gap \in Gaps : UserRename(i, gap)
    BY <2>3, UserRenameStep
  <2>4. CASE \E i \in Places : UserDelete(i)
    BY <2>4, UserDeleteStep
  <2>5. CASE \E i \in Places, t \in Topologies : UserRebuild(i, t)
    BY <2>5, UserRebuildStep
  <2>. QED BY <1>3, <2>1, <2>2, <2>3, <2>4, <2>5 DEF User
<1>4. CASE Undo
  BY <1>4, UndoStep
<1>. QED BY <1>1, <1>2, <1>3, <1>4 DEF Next

-----------------------------------------------------------------------------
(* INDUCTIVE.  In the scene, and in every scene undo can bring back, an id *)
(* is stored in objects of one root only, and all ids are old; what a      *)
(* reference is worth holds of the scene (identity.py:11-100).             *)
THEOREM Inductive == Spec => []IInv
  BY InitInv, NextInv, PTL DEF Spec

(* TYPES.  Every variable stays in its range, an object is listed once,    *)
(* exactly the meshes in use have a topology, and no stored id is one that *)
(* is still to be handed out (identity.py:11-34).                          *)
THEOREM TypeCorrect == Spec => []TypeOK
<1>1. ASSUME IInv PROVE TypeOK
  <2>1. PICK kin : /\ Good(scene, ref, born, root, fresh, kin)
                   /\ Past(undo, born, root, fresh, kin)
    BY <1>1, Present
  <2>2. Sound(scene, born, fresh) /\ Places = DOMAIN scene.list
    BY <1>1, Present
  <2>3. scene.list \in Seq(Row) /\ scene.meshes \in [Meshes -> Mesh \cup {NoMesh}]
    BY <2>2, Entries
  <2>4. fresh \in 1..(MaxId + 1) /\ dirty \in BOOLEAN
    BY <1>1, <2>1, BoundAssumption DEF IInv, Good
  <2>5. scene.list \in Seq(Entry)
    <3>1. PICK q \in Seq(Row) : q = scene.list
      BY <2>3
    <3>2. \A i \in DOMAIN q : q[i] \in Entry
      <4>. SUFFICES ASSUME NEW i \in DOMAIN q PROVE q[i] \in Entry
        OBVIOUS
      <4>1. q[i] \in Row
        OBVIOUS
      <4>2. q[i].id \in 1..(fresh - 1) \cup {None}
        BY <2>2, <3>1 DEF Sound
      <4>3. q[i].id \in 1..MaxId \cup {None}
        BY <2>4, <4>2, BoundAssumption
      <4>. QED BY <4>1, <4>3 DEF Row, Entry
    <3>. QED BY <3>1, <3>2
  <2>6. ASSUME NEW m \in Meshes
        PROVE  scene.meshes[m] = NoMesh <=> Free(scene, m)
    <3>1. Free(scene, m) => scene.meshes[m] = NoMesh
      BY <1>1 DEF IInv, Tidied
    <3>2. ASSUME NEW i \in DOMAIN scene.list, scene.list[i].mesh = m
          PROVE  scene.meshes[m] # NoMesh
      <4>1. m # None
        BY NoneAssumption
      <4>2. scene.meshes[m] \in Mesh
        BY <2>2, <3>2, <4>1 DEF Sound
      <4>. QED BY <4>2, NoneAssumption DEF Mesh, NoMesh
    <3>. QED BY <3>1, <3>2 DEF Free
  <2>7. /\ \A i, j \in Places :
             scene.list[i].object = scene.list[j].object => i = j
        /\ \A i \in Places : scene.list[i].id \in 1..(fresh - 1) \cup {None}
        /\ \A i \in Places : scene.list[i].object \in born
    BY <2>2 DEF Sound
  <2>8. Len(undo) \in 1..UndoCapacity
    BY <2>1 DEF Past
  <2>9. /\ ref.object \in Objects \cup {None} /\ ref.id \in 1..MaxId \cup {None}
        /\ born \subseteq Objects /\ root \in [Objects -> Objects]
    BY <2>1 DEF Good, RefType
  <2>. QED BY <2>3, <2>4, <2>5, <2>6, <2>7, <2>8, <2>9 DEF TypeOK
<1>. QED BY <1>1, Inductive, PTL

(* UNIQUE IDS.  After the repair every object has an id, and no two have   *)
(* the same, although the user copies ids and undo brings back scenes that *)
(* were never repaired (identity.py:52-68, snapshots.py:61-62).            *)
THEOREM IdsUnique == Spec => []UniqueIds
<1>1. ASSUME IInv PROVE UniqueIds
  <2>1. Places = DOMAIN scene.list /\ (~dirty => Named(scene))
    BY <1>1, Present DEF IInv
  <2>. QED BY <2>1 DEF UniqueIds, Named
<1>. QED BY <1>1, Inductive, PTL

(* What an id an agent holds resolves to, in the scene a dispatch finds.   *)
LEMMA ReferredScene ==
  ASSUME IInv
  PROVE  \E kin :
           /\ Good(Now.scene, ref, born, root, Now.fresh, kin)
           /\ Named(Now.scene) /\ SameScene(scene, Now.scene)
           /\ \/ /\ Referred = 0
                 /\ \A i \in DOMAIN Now.scene.list : Now.scene.list[i].id # ref.id
              \/ /\ Referred \in DOMAIN Now.scene.list /\ Referred # 0
                 /\ Now.scene.list[Referred].id = ref.id
<1>1. PICK kin : Known(kin, Now.scene, Now.fresh)
  BY NowGood
<1>2. Good(Now.scene, ref, born, root, Now.fresh, kin)
      /\ Named(Now.scene) /\ SameScene(scene, Now.scene)
  BY <1>1, NowGood DEF Known
<1>3. Now.scene.list \in Seq(Row)
  BY Found, Entries
<1>4. \/ /\ Referred = 0
         /\ \A i \in DOMAIN Now.scene.list : Now.scene.list[i].id # ref.id
      \/ /\ Referred \in DOMAIN Now.scene.list /\ Referred # 0
         /\ Now.scene.list[Referred].id = ref.id
  BY <1>3, Resolves DEF Referred
<1>. QED BY <1>2, <1>4

(* DURABLE ID.  As long as nothing was undone and the user made no copy of *)
(* the object, an id an agent has read resolves to the object it was read  *)
(* of, until that is deleted: through renames, host duplicates, and        *)
(* everything done to other objects (identity.py:37-68, objects.py:96-108).*)
THEOREM IdsDurable == Spec => []DurableId
<1>1. ASSUME IInv PROVE DurableId
  <2>. SUFFICES ASSUME ref # NoRef, ~ref.undone,
                       NEW i \in Places, scene.list[i].object = ref.object,
                       \A o \in born \ {ref.object} : root[o] # root[ref.object]
                PROVE  /\ Referred # 0
                       /\ Now.scene.list[Referred].object = ref.object
    BY DEF DurableId
  <2>1. PICK kin :
          /\ Good(Now.scene, ref, born, root, Now.fresh, kin)
          /\ Named(Now.scene) /\ SameScene(scene, Now.scene)
          /\ \/ /\ Referred = 0
                /\ \A j \in DOMAIN Now.scene.list : Now.scene.list[j].id # ref.id
             \/ /\ Referred \in DOMAIN Now.scene.list /\ Referred # 0
                /\ Now.scene.list[Referred].id = ref.id
    BY <1>1, ReferredScene
  <2>2. PICK s : s = Now.scene
    OBVIOUS
  <2>3. i \in DOMAIN s.list /\ s.list[i].object = ref.object
    BY <1>1, <2>1, <2>2, Present DEF SameScene
  <2>4. Keeps(s, ref)
    BY <2>1, <2>2 DEF Good, Worth, Alone
  <2>5. s.list[i].id = ref.id
    BY <2>3, <2>4 DEF Keeps
  <2>6. /\ Referred \in DOMAIN s.list /\ Referred # 0
        /\ s.list[Referred].id = ref.id
    BY <2>1, <2>2, <2>3, <2>5
  <2>7. Referred = i
    BY <2>1, <2>2, <2>3, <2>5, <2>6 DEF Named
  <2>. QED BY <2>2, <2>3, <2>6, <2>7
<1>. QED BY <1>1, Inductive, PTL

(* RELATED OR NOTHING.  Whatever was undone, renamed, deleted or copied,   *)
(* an id resolves to its object, to one that the user's copying relates to *)
(* it, or to nothing (identity.py:52-68).                                  *)
THEOREM NeverAStranger == Spec => []RelatedOrNothing
<1>1. ASSUME IInv PROVE RelatedOrNothing
  <2>. SUFFICES ASSUME ref # NoRef, Referred # 0
                PROVE  root[Now.scene.list[Referred].object] = root[ref.object]
    BY DEF RelatedOrNothing
  <2>1. PICK kin :
          /\ Good(Now.scene, ref, born, root, Now.fresh, kin)
          /\ Referred \in DOMAIN Now.scene.list
          /\ Now.scene.list[Referred].id = ref.id
    BY <1>1, ReferredScene
  <2>2. ref.id \in 1..(Now.fresh - 1) /\ root[ref.object] = kin[ref.id]
    BY <2>1 DEF Good, RefKnown
  <2>3. ref.id # None
    BY <2>1, <2>2, NoneAssumption DEF Good
  <2>. QED BY <2>1, <2>2, <2>3 DEF Good, KinOf
<1>. QED BY <1>1, Inductive, PTL

(* GUARDED TOPOLOGY.  An element reference that the revision guard of the  *)
(* topology methods admits refers to the topology it was read from, if the *)
(* user edited no topology and nothing was undone since                    *)
(* (identity.py:78-100).  It says nothing of mesh.recalc_normals, which    *)
(* takes indices without that guard.                                       *)
THEOREM TopologyGuarded == Spec => []GuardedTopology
<1>1. ASSUME IInv PROVE GuardedTopology
  <2>. SUFFICES ASSUME Admitted, ~ref.user, ~ref.undone PROVE SameTopology
    BY DEF GuardedTopology
  <2>1. /\ ref # NoRef /\ HasMesh(Now.scene, Referred)
        /\ MeshOf(Now.scene, Referred).rev = ref.rev
    BY DEF Admitted, Admits
  <2>2. PICK kin :
          /\ Good(Now.scene, ref, born, root, Now.fresh, kin)
          /\ Referred \in DOMAIN Now.scene.list
          /\ Now.scene.list[Referred].id = ref.id
    BY <1>1, <2>1, ReferredScene DEF HasMesh
  <2>3. PICK s, i : s = Now.scene /\ i = Referred
    OBVIOUS
  <2>4. i \in DOMAIN s.list /\ s.list[i].id = ref.id /\ s.list[i].mesh # None
        /\ MeshOf(s, i).rev = ref.rev
    BY <2>1, <2>2, <2>3 DEF HasMesh
  <2>5. MeshOf(s, i) \in Mesh
    BY <2>2, <2>3, <2>4, Entries DEF Good
  <2>6. ref.rev # None
    BY <2>4, <2>5, NoneAssumption, BoundAssumption DEF Mesh
  <2>7. Guards(s, ref)
    BY <2>1, <2>2, <2>3 DEF Good, Worth
  <2>8. MeshOf(s, i).topo = ref.topo
    BY <2>4, <2>6, <2>7 DEF Guards
  <2>. QED BY <2>3, <2>8 DEF SameTopology
<1>. QED BY <1>1, Inductive, PTL
=============================================================================
