--------------------------- MODULE EvidenceProofs ---------------------------
(***************************************************************************)
(* Theorems about what agents are told and shown, for every value of the   *)
(* constants: each part of Evidence keeps an invariant of its own, and a   *)
(* behaviour that follows another part leaves it alone.                    *)
(***************************************************************************)
EXTENDS Evidence, QueueLemmas, FiniteSetTheorems

-----------------------------------------------------------------------------
(* The adapter's pictures.  As long as nothing was returned, no encoding   *)
(* tried so far was small enough, and there is a round left.               *)
Loop == [round : 0..Rounds, quality : 0..Qualities, best : Encoding]

ImageInv ==
  /\ loop \in Loop
  /\ image = NoImage =>
       /\ loop.round < Rounds
       /\ loop.quality > 0 => ~Within(loop.best.bytes)
  /\ ImageAsSaid

LEMMA ImageInitInv == ImageInit => ImageInv
<1>. SUFFICES ASSUME ImageInit PROVE ImageInv
  OBVIOUS
<1>1. /\ loop = [round |-> 0, quality |-> 0, best |-> [bytes |-> 0, shrunk |-> 0]]
      /\ image = NoImage
  BY DEF ImageInit
<1>2. loop \in Loop
  BY <1>1, RoundAssumption DEF Loop, Encoding
<1>3. ImageAsSaid
  BY <1>1 DEF ImageAsSaid, NoImage
<1>. QED BY <1>1, <1>2, <1>3, RoundAssumption DEF ImageInv

LEMMA ImageNextInv == ImageInv /\ [ImageNext]_imageVars => ImageInv'
<1>. SUFFICES ASSUME ImageInv, [ImageNext]_imageVars PROVE ImageInv'
  OBVIOUS
<1>. USE RoundAssumption
<1>1. /\ loop \in Loop /\ loop.round \in 0..Rounds /\ loop.quality \in 0..Qualities
      /\ loop.best \in Encoding
      /\ Rounds \in Nat \ {0} /\ Qualities \in Nat \ {0}
  BY DEF ImageInv, Loop
<1>2. CASE UNCHANGED imageVars
  BY <1>2 DEF ImageInv, ImageAsSaid, imageVars
<1>3. CASE Preserve
  <2>1. /\ loop' = loop
        /\ image' = Returned(FALSE, [bytes |-> artifact.bytes, shrunk |-> 0], 0,
                             FALSE)
        /\ Within(artifact.bytes)
    BY <1>3 DEF Preserve, Small
  <2>2. image' # NoImage
    BY <2>1 DEF Returned, NoImage
  <2>3. ImageAsSaid'
    BY <2>1 DEF Returned, ImageAsSaid, Within
  <2>. QED BY <1>1, <2>1, <2>2, <2>3 DEF ImageInv
<1>4. CASE CannotOpen
  <2>1. loop' = loop /\ image' = [code |-> "ERROR"]
    BY <1>4 DEF CannotOpen
  <2>2. image' # NoImage
    BY <2>1 DEF NoImage
  <2>3. ImageAsSaid'
    BY <2>1 DEF ImageAsSaid
  <2>. QED BY <1>1, <2>1, <2>2, <2>3 DEF ImageInv
<1>5. CASE Shrink
  <2>1. /\ loop' = [loop EXCEPT !.round = @ + 1, !.quality = 0]
        /\ image = NoImage /\ loop.quality = Qualities
        /\ image' = IF loop.round + 1 < Rounds THEN image
                    ELSE Returned(TRUE, loop.best, loop.round + 1,
                                  Exceeded(loop.best))
    BY <1>5 DEF Shrink, Transcoding
  <2>2. loop.round < Rounds /\ ~Within(loop.best.bytes)
    BY <1>1, <2>1 DEF ImageInv
  <2>3. PICK n \in 0..Rounds : n = loop.round + 1
    BY <1>1, <2>2
  <2>4. /\ loop' \in Loop /\ loop'.round = loop.round + 1 /\ loop'.quality = 0
        /\ loop'.best = loop.best
    <3>1. PICK q \in 0..Qualities : q = 0
      BY <1>1
    <3>2. loop' = [loop EXCEPT !.round = n, !.quality = q]
      BY <2>1, <2>3, <3>1
    <3>3. \A l \in Loop : LET m == [l EXCEPT !.round = n, !.quality = q]
                         IN /\ m \in Loop /\ m.round = n /\ m.quality = q
                            /\ m.best = l.best
      BY DEF Loop
    <3>. QED BY <1>1, <2>3, <3>1, <3>2, <3>3
  <2>5. CASE loop.round + 1 < Rounds
    <3>1. image' = NoImage /\ loop'.round < Rounds /\ loop'.quality = 0
      BY <2>1, <2>4, <2>5
    <3>2. ImageAsSaid'
      BY <3>1 DEF ImageAsSaid, NoImage
    <3>. QED BY <2>3, <2>4, <3>1, <3>2 DEF ImageInv
  <2>6. CASE ~(loop.round + 1 < Rounds)
    <3>1. image' = Returned(TRUE, loop.best, loop.round + 1, TRUE)
      <4>1. Exceeded(loop.best) = TRUE
        BY <2>2 DEF Exceeded
      <4>. QED BY <2>1, <2>6, <4>1
    <3>2. image' # NoImage
      BY <3>1 DEF Returned, NoImage
    <3>3. ImageAsSaid'
      BY <2>2, <3>1 DEF Returned, ImageAsSaid, Within
    <3>. QED BY <2>3, <2>4, <3>2, <3>3 DEF ImageInv
  <2>. QED BY <2>5, <2>6
<1>6. ASSUME NEW bytes \in Weights, Encode(bytes) PROVE ImageInv'
  <2>1. PICK best : best = [bytes |-> bytes, shrunk |-> loop.round]
    OBVIOUS
  <2>2. /\ loop' = [loop EXCEPT !.best = best, !.quality = @ + 1]
        /\ image = NoImage /\ loop.quality < Qualities
        /\ image' = IF Within(bytes) THEN Returned(TRUE, best, loop.round, FALSE)
                                     ELSE image
    BY <1>6, <2>1 DEF Encode, Transcoding
  <2>3. loop.round < Rounds
    BY <2>2 DEF ImageInv
  <2>4. loop.quality + 1 \in 0..Qualities /\ best \in Encoding
    BY <1>1, <2>1, <2>2 DEF Encoding
  <2>5. /\ loop' \in Loop /\ loop'.round = loop.round
        /\ loop'.quality = loop.quality + 1 /\ loop'.best = best
    BY <1>1, <2>2, <2>4 DEF Loop
  <2>6. CASE Within(bytes)
    <3>1. image' = Returned(TRUE, best, loop.round, FALSE)
      BY <2>2, <2>6
    <3>2. image' # NoImage
      BY <3>1 DEF Returned, NoImage
    <3>3. ImageAsSaid'
      BY <2>1, <2>6, <3>1 DEF Returned, ImageAsSaid, Within
    <3>. QED BY <2>5, <3>2, <3>3 DEF ImageInv
  <2>7. CASE ~Within(bytes)
    <3>1. image' = NoImage /\ loop'.round < Rounds /\ loop'.best.bytes = bytes
      BY <2>1, <2>2, <2>3, <2>5, <2>7
    <3>2. ImageAsSaid'
      BY <3>1 DEF ImageAsSaid, NoImage
    <3>3. ~Within(loop'.best.bytes)
      BY <2>7, <3>1
    <3>. QED BY <2>5, <3>1, <3>2, <3>3 DEF ImageInv, Within
  <2>. QED BY <2>6, <2>7
<1>. QED BY <1>2, <1>3, <1>4, <1>5, <1>6 DEF ImageNext

-----------------------------------------------------------------------------
(* Snapshots.  The store holds the newest snapshots in the order of their  *)
(* ids, and what a snapshot says is what its depth tells of its scene.     *)
Records == {Body(s, deep) : s \in Scene, deep \in BOOLEAN}
Snapshots == [id : Nat, deep : BOOLEAN, of : {Bodies(s) : s \in Scene},
              body : Records]

Whole(snapshot) == snapshot.body = snapshot.of[snapshot.deep]

Run(q, n) ==
  \A i \in 1..Len(q) : q[i].id = n - 1 - Len(q) + i /\ Whole(q[i])

SnapInv ==
  /\ world \in Scene /\ store \in Seq(Snapshots)
  /\ next \in 1..(MaxTaken + 1) /\ Len(store) <= Capacity
  /\ next - 1 <= Capacity => Len(store) = next - 1
  /\ next - 1 > Capacity => Len(store) = Capacity
  /\ Run(store, next)

LEMMA RunAppended ==
  ASSUME NEW q \in Seq(Snapshots), NEW n \in Nat, Run(q, n),
         NEW e \in Snapshots, e.id = n, Whole(e)
  PROVE  /\ Append(q, e) \in Seq(Snapshots) /\ Len(Append(q, e)) = Len(q) + 1
         /\ Run(Append(q, e), n + 1)
<1>1. PICK w \in Seq(Snapshots) :
        /\ w = Append(q, e) /\ Len(w) = Len(q) + 1 /\ w[Len(q) + 1] = e
        /\ \A i \in 1..Len(q) : w[i] = q[i]
  <2>1. /\ Append(q, e) \in Seq(Snapshots) /\ Len(Append(q, e)) = Len(q) + 1
        /\ Append(q, e)[Len(q) + 1] = e
        /\ \A i \in 1..Len(q) : Append(q, e)[i] = q[i]
    BY AppendProperties
  <2>. QED BY <2>1
<1>2. PICK k \in Nat : k = Len(q)
  OBVIOUS
<1>3. ASSUME NEW i \in 1..(k + 1)
      PROVE  w[i].id = n + 1 - 1 - (k + 1) + i /\ Whole(w[i])
  <2>1. CASE i = k + 1
    BY <1>1, <1>2, <2>1
  <2>2. CASE i # k + 1
    <3>1. i \in 1..Len(q)
      BY <1>2, <2>2
    <3>2. w[i] = q[i] /\ q[i].id = n - 1 - k + i /\ Whole(q[i])
      BY <1>1, <1>2, <3>1 DEF Run
    <3>3. n + 1 - 1 - (k + 1) + i = n - 1 - k + i
      OBVIOUS
    <3>. QED BY <3>2, <3>3
  <2>. QED BY <2>1, <2>2
<1>4. Run(w, n + 1)
  BY <1>1, <1>2, <1>3 DEF Run
<1>. QED BY <1>1, <1>4

LEMMA RunTail ==
  ASSUME NEW q \in Seq(Snapshots), NEW n \in Nat, Run(q, n), q # <<>>
  PROVE  /\ Tail(q) \in Seq(Snapshots) /\ Len(Tail(q)) = Len(q) - 1
         /\ Run(Tail(q), n)
<1>1. PICK w \in Seq(Snapshots) :
        /\ w = Tail(q) /\ Len(w) = Len(q) - 1
        /\ \A i \in 1..Len(w) : w[i] = q[i + 1]
  BY HeadTailProperties
<1>2. PICK k \in Nat : k = Len(w) /\ Len(q) = k + 1
  <2>1. Len(w) \in Nat /\ Len(q) \in Nat
    OBVIOUS
  <2>2. Len(w) = Len(q) - 1
    BY <1>1
  <2>. QED BY <2>1, <2>2
<1>3. ASSUME NEW i \in 1..k
      PROVE  w[i].id = n - 1 - k + i /\ Whole(w[i])
  <2>1. w[i] = q[i + 1] /\ i + 1 \in 1..Len(q)
    BY <1>1, <1>2
  <2>2. q[i + 1].id = n - 1 - (k + 1) + (i + 1) /\ Whole(q[i + 1])
    BY <1>2, <2>1 DEF Run
  <2>3. n - 1 - (k + 1) + (i + 1) = n - 1 - k + i
    OBVIOUS
  <2>. QED BY <2>1, <2>2, <2>3
<1>4. Run(w, n)
  BY <1>2, <1>3 DEF Run
<1>. QED BY <1>1, <1>4

LEMMA SnapInitInv == SnapInit => SnapInv
<1>. SUFFICES ASSUME SnapInit PROVE SnapInv
  OBVIOUS
<1>1. world \in Scene /\ store = <<>> /\ next = 1
  BY DEF SnapInit
<1>2. store \in Seq(Snapshots) /\ Len(store) = 0
  BY <1>1
<1>3. Run(store, next)
  BY <1>2 DEF Run
<1>. QED BY <1>1, <1>2, <1>3, CapacityAssumption DEF SnapInv

LEMMA SnapNextInv == SnapInv /\ [SnapNext]_snapVars => SnapInv'
<1>. SUFFICES ASSUME SnapInv, [SnapNext]_snapVars PROVE SnapInv'
  OBVIOUS
<1>1. /\ world \in Scene /\ store \in Seq(Snapshots)
      /\ next \in 1..(MaxTaken + 1) /\ Len(store) \in Nat
      /\ MaxTaken \in Nat /\ Capacity \in Nat \ {0}
  BY CapacityAssumption DEF SnapInv
<1>2. CASE UNCHANGED snapVars
  BY <1>2 DEF SnapInv, snapVars, Run, Whole
<1>3. CASE Change
  <2>1. store' = store /\ next' = next
    BY <1>3 DEF Change
  <2>2. world' \in Scene
    BY <1>1, <1>3 DEF Change, Scene
  <2>. QED BY <2>1, <2>2 DEF SnapInv, Run, Whole
<1>4. ASSUME NEW deep \in BOOLEAN, Snapshot(deep) PROVE SnapInv'
  <2>1. PICK e \in Snapshots :
          /\ e = [id |-> next, deep |-> deep, body |-> Body(world, deep),
                  of |-> Bodies(world)]
          /\ e.id = next /\ Whole(e)
    <3>1. Body(world, deep) \in Records
      BY <1>1 DEF Records
    <3>2. PICK b \in Records : b = Body(world, deep)
      BY <3>1
    <3>3. PICK of \in {Bodies(s) : s \in Scene} : of = Bodies(world)
      BY <1>1
    <3>4. [id |-> next, deep |-> deep, body |-> b, of |-> of] \in Snapshots
      BY <1>1 DEF Snapshots
    <3>5. of[deep] = b
      BY <3>2, <3>3 DEF Bodies
    <3>. QED BY <3>2, <3>3, <3>4, <3>5 DEF Whole
  <2>2. /\ next <= MaxTaken /\ next' = next + 1 /\ world' = world
        /\ store' = Kept(Append(store, e))
    BY <1>4, <2>1 DEF Snapshot
  <2>3. PICK n \in Nat : n = next /\ Run(store, n) /\ e.id = n
    BY <1>1, <2>1 DEF SnapInv
  <2>4. PICK q \in Seq(Snapshots) :
          q = Append(store, e) /\ Len(q) = Len(store) + 1 /\ Run(q, next + 1)
    <3>1. /\ Append(store, e) \in Seq(Snapshots)
          /\ Len(Append(store, e)) = Len(store) + 1
          /\ Run(Append(store, e), n + 1)
      BY <1>1, <2>1, <2>3, RunAppended
    <3>. QED BY <2>3, <3>1
  <2>5. next' \in 1..(MaxTaken + 1) /\ next + 1 \in Nat
    BY <1>1, <2>2
  <2>6. CASE Len(q) > Capacity
    <3>1. q # <<>>
      BY <1>1, <2>4
    <3>2. PICK w \in Seq(Snapshots) :
            w = Tail(q) /\ Len(w) = Len(q) - 1 /\ Run(w, next + 1)
      BY <2>4, <2>5, <3>1, RunTail
    <3>3. store' = w
      BY <2>2, <2>4, <2>6, <3>2 DEF Kept
    <3>4. Len(w) = Capacity /\ next > Capacity
      BY <1>1, <2>4, <2>6, <3>2 DEF SnapInv
    <3>5. next' - 1 > Capacity /\ ~(next' - 1 <= Capacity)
          /\ Capacity <= Capacity
      BY <1>1, <2>2, <3>4
    <3>6. Run(w, next')
      BY <2>2, <3>2
    <3>7. Run(store, next)'
      BY <3>3, <3>6 DEF Run, Whole
    <3>. QED BY <1>1, <2>2, <2>5, <3>2, <3>3, <3>4, <3>5, <3>7 DEF SnapInv
  <2>7. CASE ~(Len(q) > Capacity)
    <3>1. store' = q
      BY <2>2, <2>4, <2>7 DEF Kept
    <3>2. Len(store) = next - 1 /\ next <= Capacity
      BY <1>1, <2>4, <2>7 DEF SnapInv
    <3>3. /\ Len(q) = next' - 1
          /\ Len(q) <= Capacity /\ ~(next' - 1 > Capacity)
      BY <1>1, <2>2, <2>4, <3>2
    <3>4. Run(q, next')
      BY <2>2, <2>4
    <3>5. Run(store, next)'
      BY <3>1, <3>4 DEF Run, Whole
    <3>. QED BY <1>1, <2>2, <2>5, <3>1, <3>3, <3>5 DEF SnapInv
  <2>. QED BY <2>6, <2>7
<1>. QED BY <1>2, <1>3, <1>4 DEF SnapNext

LEMMA SnapKept == SnapInv => NewestKept
<1>. SUFFICES ASSUME SnapInv, NEW id \in 1..(next - 1)
              PROVE  Cardinality(Stored(id)) =
                       IF id + Capacity >= next THEN 1 ELSE 0
  BY DEF NewestKept
<1>1. /\ store \in Seq(Snapshots) /\ DOMAIN store = 1..Len(store)
      /\ next \in Nat /\ Len(store) \in Nat /\ Capacity \in Nat \ {0}
  BY CapacityAssumption DEF SnapInv
<1>2. PICK n \in Nat, k \in Nat, c \in Nat \ {0} :
        /\ n = next /\ id \in Int /\ 1 <= id /\ id <= n - 1 /\ k = Len(store) /\ c = Capacity
        /\ n - 1 <= c => k = n - 1
        /\ n - 1 > c => k = c
  <2>1. /\ next - 1 <= Capacity => Len(store) = next - 1
        /\ next - 1 > Capacity => Len(store) = Capacity
    BY DEF SnapInv
  <2>2. id \in Int /\ 1 <= id /\ id <= next - 1
    <3>1. next \in Nat
      BY <1>1
    <3>. QED BY <3>1
  <2>. QED BY <1>1, <2>1, <2>2
<1>3. \A i \in 1..k : store[i].id = n - 1 - k + i
  BY <1>2 DEF SnapInv, Run
<1>4. CASE id + c >= n
  <2>1. PICK i \in 1..k : id = n - 1 - k + i
    <3>2. id - n + 1 + k \in Int /\ id - n + 1 + k >= 1 /\ id - n + 1 + k <= k
      <4>1. CASE n - 1 <= c
        BY <1>2, <4>1
      <4>2. CASE n - 1 > c
        BY <1>2, <1>4, <4>2
      <4>. QED BY <1>2, <4>1, <4>2
    <3>3. id = n - 1 - k + (id - n + 1 + k)
      BY <1>2
    <3>. QED BY <3>2, <3>3
  <2>2. \A j \in 1..k : store[j].id = id <=> j = i
    BY <1>2, <1>3, <2>1
  <2>3. Stored(id) = {i}
    BY <1>1, <1>2, <2>2 DEF Stored
  <2>. QED BY <1>2, <1>4, <2>3, FS_Singleton
<1>5. CASE ~(id + c >= n)
  <2>1. \A i \in 1..k : store[i].id # id
    <3>1. n - 1 > c /\ k = c /\ id < n - k
      BY <1>2, <1>5
    <3>2. ASSUME NEW i \in 1..k PROVE store[i].id # id
      <4>1. store[i].id = n - 1 - k + i /\ n - 1 - k + i >= n - k
        BY <1>2, <1>3
      <4>. QED BY <1>2, <3>1, <4>1
    <3>. QED BY <3>2
  <2>2. Stored(id) = {}
    BY <1>1, <1>2, <2>1 DEF Stored
  <2>. QED BY <1>2, <1>5, <2>2, FS_EmptySet
<1>. QED BY <1>4, <1>5

(* What is said of an object in the words of a deep snapshot is said of it *)
(* by a deep snapshot.                                                     *)
LEMMA ToldDeep ==
  ASSUME NEW x \in Thing, NEW y \in Thing, NEW a \in BOOLEAN, NEW b \in BOOLEAN,
         a \/ b, Told(x, a) = Told(y, b)
  PROVE  Told(x, TRUE) = Told(y, TRUE)
<1>1. x.geometry # "untold" /\ y.geometry # "untold"
  BY GeometryAssumption DEF Thing
<1>2. /\ Told(x, a).look = x.look /\ Told(y, b).look = y.look
      /\ Told(x, a).geometry \in {x.geometry, "untold"}
      /\ Told(y, b).geometry \in {y.geometry, "untold"}
      /\ a => Told(x, a).geometry = x.geometry
      /\ b => Told(y, b).geometry = y.geometry
  BY DEF Told
<1>3. x.look = y.look /\ x.geometry = y.geometry
  BY <1>1, <1>2
<1>. QED BY <1>3 DEF Told

(* Two bodies are equal, of two depths or one, only if what a deep one     *)
(* tells is: a shallow body that is also a deep one has no meshes in it.   *)
LEMMA BodyDeep ==
  ASSUME NEW s \in Scene, NEW t \in Scene, NEW a \in BOOLEAN, NEW b \in BOOLEAN,
         a \/ b, Body(s, a) = Body(t, b)
  PROVE  Body(s, TRUE) = Body(t, TRUE)
<1>1. \A r \in Scene : r.things \in [Things -> Thing \cup {Absent}]
  BY DEF Scene
<1>. DEFINE Of(r, deep) == [o \in Present(r) |-> Told(r.things[o], deep)]
<1>2. \A r, deep : Body(r, deep) = [frame |-> r.frame, things |-> Of(r, deep)]
  BY DEF Body
<1>3. s.frame = t.frame /\ Of(s, a) = Of(t, b)
  <2>. HIDE DEF Of
  <2>1. /\ Body(s, a).frame = s.frame /\ Body(s, a).things = Of(s, a)
        /\ Body(t, b).frame = t.frame /\ Body(t, b).things = Of(t, b)
    BY <1>2
  <2>. QED BY <2>1
<1>4. \A r, deep : DOMAIN Of(r, deep) = Present(r)
                   /\ \A o \in Present(r) : Of(r, deep)[o] = Told(r.things[o], deep)
  OBVIOUS
<1>5. Present(s) = Present(t)
  <2>. HIDE DEF Of
  <2>. QED BY <1>3, <1>4
<1>6. \A o \in Present(s) : Told(s.things[o], a) = Told(t.things[o], b)
  <2>. HIDE DEF Of
  <2>. QED BY <1>3, <1>4, <1>5
<1>7. ASSUME NEW o \in Present(s)
      PROVE  Told(s.things[o], TRUE) = Told(t.things[o], TRUE)
  <2>1. s.things[o] \in Thing /\ t.things[o] \in Thing
    BY <1>1, <1>5 DEF Present
  <2>. QED BY <1>6, <2>1, ToldDeep
<1>8. Of(s, TRUE) = Of(t, TRUE)
  BY <1>5, <1>7
<1>. HIDE DEF Of
<1>. QED BY <1>2, <1>3, <1>8

(* The differences of any two bodies, applied to the first, give the       *)
(* second.                                                                 *)
LEMMA DifferencesApplied ==
  ASSUME NEW x, NEW y
  PROVE  /\ Patched(x, Differences(x, y)) =
              [o \in DOMAIN y.things \ Differences(x, y).created |-> y.things[o]]
         /\ Differences(x, y).equal <=> x = y
<1>. DEFINE told == Differences(x, y)
<1>1. /\ told.created = DOMAIN y.things \ DOMAIN x.things
      /\ told.deleted = DOMAIN x.things \ DOMAIN y.things
      /\ told.changed = [o \in Changed(x, y) |-> y.things[o]]
      /\ told.equal = (x = y)
  BY DEF Differences
<1>. HIDE DEF told
<1>2. /\ DOMAIN x.things \ told.deleted = DOMAIN x.things \cap DOMAIN y.things
      /\ DOMAIN y.things \ told.created = DOMAIN x.things \cap DOMAIN y.things
  BY <1>1
<1>3. \A o \in DOMAIN x.things \cap DOMAIN y.things :
        (IF o \in DOMAIN told.changed THEN told.changed[o] ELSE x.things[o])
          = y.things[o]
  BY <1>1 DEF Changed
<1>4. Patched(x, told) = [o \in DOMAIN y.things \ told.created |-> y.things[o]]
  BY <1>2, <1>3 DEF Patched
<1>. QED BY <1>1, <1>4 DEF told

LEMMA SnapDiff == SnapInv => DiffTells
<1>. SUFFICES ASSUME SnapInv, NEW i \in DOMAIN store, NEW deep \in BOOLEAN
              PROVE  LET told == Diff(i, deep)
                         was == store[i].of[deep]
                         after == Body(world, deep)
                         old == DOMAIN after.things \ told.created
                         deeper == deep \/ store[i].deep
                     IN /\ store[i].deep = deep =>
                             /\ Patched(was, told) =
                                  [o \in old |-> after.things[o]]
                             /\ was = after => told.equal
                        /\ told.equal =>
                             store[i].of[deeper] = Body(world, deeper)
  BY DEF DiffTells
<1>1. store[i] \in Snapshots /\ Whole(store[i]) /\ world \in Scene
  <2>1. store \in Seq(Snapshots) /\ Run(store, next) /\ world \in Scene
    BY DEF SnapInv
  <2>2. DOMAIN store = 1..Len(store) /\ store[i] \in Snapshots
    BY <2>1
  <2>. QED BY <2>1, <2>2 DEF Run
<1>2. PICK s \in Scene, d \in BOOLEAN, x \in Records :
        /\ store[i].of = Bodies(s) /\ store[i].deep = d
        /\ store[i].body = x /\ x = Body(s, d)
        /\ \A depth \in BOOLEAN : store[i].of[depth] = Body(s, depth)
  <2>1. PICK s \in Scene : store[i].of = Bodies(s)
    BY <1>1 DEF Snapshots
  <2>2. \A depth \in BOOLEAN : store[i].of[depth] = Body(s, depth)
    BY <2>1 DEF Bodies
  <2>3. store[i].deep \in BOOLEAN /\ store[i].body \in Records
    BY <1>1 DEF Snapshots
  <2>. QED BY <1>1, <2>1, <2>2, <2>3 DEF Whole
<1>3. PICK y : y = Body(world, deep)
  OBVIOUS
<1>4. PICK told : told = Differences(x, y) /\ told = Diff(i, deep)
  BY <1>2, <1>3 DEF Diff
<1>5. /\ Patched(x, told) = [o \in DOMAIN y.things \ told.created |-> y.things[o]]
      /\ told.equal <=> x = y
  <2>1. /\ Patched(x, Differences(x, y)) =
             [o \in DOMAIN y.things \ Differences(x, y).created |-> y.things[o]]
        /\ Differences(x, y).equal <=> x = y
    BY DifferencesApplied
  <2>2. told = Differences(x, y)
    BY <1>4
  <2>. QED BY <2>1, <2>2
<1>6. store[i].deep = deep => store[i].of[deep] = x
  BY <1>2
<1>7. ASSUME told.equal
      PROVE  store[i].of[deep \/ d] = Body(world, deep \/ d)
  <2>1. Body(s, d) = Body(world, deep)
    BY <1>2, <1>3, <1>5, <1>7
  <2>2. CASE deep \/ d
    <3>1. Body(s, TRUE) = Body(world, TRUE)
      BY <1>1, <2>1, <2>2, BodyDeep
    <3>2. (deep \/ d) = TRUE
      BY <2>2
    <3>. QED BY <1>2, <3>1, <3>2
  <2>3. CASE ~(deep \/ d)
    <3>1. (deep \/ d) = FALSE /\ d = FALSE /\ deep = FALSE
      BY <2>3
    <3>. QED BY <1>2, <2>1, <3>1
  <2>. QED BY <2>2, <2>3
<1>. QED BY <1>2, <1>3, <1>4, <1>5, <1>6, <1>7

-----------------------------------------------------------------------------
(* Id passes.                                                              *)

(* A number that is less leaves room for one more of what it counts.       *)
LEMMA Times ==
  ASSUME NEW p \in Nat, NEW q \in Nat, NEW b \in Nat, p < q
  PROVE  p * b + b <= q * b
<1>1. PICK d \in Nat : q = p + 1 + d
  <2>1. q - p - 1 \in Nat /\ q = p + 1 + (q - p - 1)
    OBVIOUS
  <2>. QED BY <2>1
<1>2. q * b = p * b + b + d * b
  BY <1>1
<1>3. d * b \in Nat /\ p * b \in Nat
  OBVIOUS
<1>. QED BY <1>2, <1>3

(* Quotient and rest, and that they are the only ones.                     *)
LEMMA Division ==
  ASSUME NEW a \in Nat, NEW b \in Nat \ {0}
  PROVE  /\ a \div b \in Nat /\ a % b \in 0..(b - 1)
         /\ a = (a \div b) * b + (a % b)
OBVIOUS

LEMMA Quotient ==
  ASSUME NEW q \in Nat, NEW r \in Nat, NEW b \in Nat \ {0}, r < b
  PROVE  (q * b + r) \div b = q /\ (q * b + r) % b = r
<1>1. PICK a \in Nat : a = q * b + r
  <2>1. q * b \in Nat
    OBVIOUS
  <2>. QED BY <2>1
<1>2. PICK p \in Nat, s \in 0..(b - 1) :
        p = a \div b /\ s = a % b /\ a = p * b + s
  BY Division
<1>3. ~(p < q)
  BY <1>1, <1>2, Times
<1>4. ~(q < p)
  BY <1>1, <1>2, Times
<1>5. p = q
  BY <1>3, <1>4
<1>6. r = s
  <2>1. q * b \in Nat
    OBVIOUS
  <2>. QED BY <1>1, <1>2, <1>5, <2>1
<1>. QED BY <1>1, <1>2, <1>5, <1>6
(* Three digits of a number below the cube of the base give it back.       *)
LEMMA Decoded ==
  ASSUME NEW b \in Nat \ {0}, NEW c \in Nat, c < b * b * b
  PROVE  /\ (c \div (b * b)) % b \in 0..(b - 1)
         /\ (c \div b) % b \in 0..(b - 1)
         /\ c % b \in 0..(b - 1)
         /\ ((c \div (b * b)) % b) * b * b + ((c \div b) % b) * b + (c % b) = c
<1>1. PICK m \in Nat, r \in 0..(b - 1) :
        m = c \div b /\ r = c % b /\ c = m * b + r
  BY Division
<1>2. PICK h \in Nat, g \in 0..(b - 1) :
        h = m \div b /\ g = m % b /\ m = h * b + g
  BY Division
<1>3. PICK s \in Nat : s = b * b /\ s # 0 /\ h * s \in Nat
  <2>1. b * b \in Nat /\ b * b # 0
    OBVIOUS
  <2>2. h * (b * b) \in Nat
    BY <2>1
  <2>. QED BY <2>1, <2>2
<1>4. PICK t \in Nat : t = g * b + r /\ t < s
  <2>1. g * b \in Nat
    OBVIOUS
  <2>2. g < b
    OBVIOUS
  <2>3. g * b + b <= b * b
    BY <2>2, Times
  <2>. QED BY <1>3, <2>1, <2>3
<1>5. c = h * s + t
  <2>1. c = (h * b + g) * b + r
    BY <1>1, <1>2
  <2>2. (h * b + g) * b + r = h * (b * b) + (g * b + r)
    OBVIOUS
  <2>. QED BY <1>3, <1>4, <2>1, <2>2
<1>6. c \div s = h
  BY <1>3, <1>4, <1>5, Quotient
<1>7. h < b
  <2>1. SUFFICES ASSUME b <= h PROVE FALSE
    OBVIOUS
  <2>2. b * s <= h * s
    <3>1. CASE b = h
      BY <1>3, <3>1
    <3>2. CASE b < h
      <4>1. b * s + s <= h * s
        BY <1>3, <3>2, Times
      <4>2. b * s \in Nat
        BY <1>3
      <4>. QED BY <1>3, <4>1, <4>2
    <3>. QED BY <2>1, <3>1, <3>2
  <2>3. b * b * b = b * s
    BY <1>3
  <2>4. b * s \in Nat
    BY <1>3
  <2>. QED BY <1>3, <1>4, <1>5, <2>2, <2>3, <2>4
<1>8. h % b = h
  <2>1. (0 * b + h) % b = h
    BY <1>7, Quotient
  <2>. QED BY <2>1
<1>9. /\ (c \div (b * b)) % b = h /\ (c \div b) % b = g /\ c % b = r
  BY <1>1, <1>2, <1>3, <1>6, <1>8
<1>10. h * b * b + g * b + r = c
  <2>1. h * b * b = h * s
    BY <1>3
  <2>. QED BY <1>3, <1>4, <1>5, <2>1
<1>. QED BY <1>7, <1>9, <1>10

(* As long as the pass runs the palette has the codes that were given out; *)
(* what a pixel shows is the colour of a code that its owner has.          *)
Someone == Materials \cup 1..MaxEntries
Colours == (0..(Base - 1)) \X (0..(Base - 1)) \X (0..(Base - 1))
PassState == [mode : {"object", "material"}, code : 1..(MaxEntries + 1),
              entries : 0..MaxEntries,
              result : {"running", "OK", "RESOURCE_LIMIT"}]

Distinct(q) == \A c, d \in 1..Len(q) : q[c] = q[d] => c = d

Shows(colour, owner, q) ==
  IF owner = Nobody THEN colour = Clear
  ELSE \E c \in 1..Len(q) : Fits(c) /\ colour = Rgb(c) /\ owner = q[c]

IdInv ==
  /\ pass \in PassState /\ pass.code <= pass.entries + 1
  /\ palette \in Seq(Someone) /\ Distinct(palette)
  /\ Running => Len(palette) = pass.code - 1
  /\ pass.mode = "object" =>
       \A c \in 1..Len(palette) : palette[c] \in 1..pass.entries
  /\ frame \in [Pixels -> Colours]
  /\ nearest \in [Pixels -> Someone \cup {Nobody}]
  /\ \A p \in Pixels : Shows(frame[p], nearest[p], palette)

LEMMA RgbRead ==
  ASSUME NEW c \in Nat, Fits(c)
  PROVE  Rgb(c) \in Colours /\ Read(Rgb(c)) = c
<1>1. PICK b \in Nat \ {0} : b = Base /\ c < b * b * b
  <2>1. Base \in Nat \ {0} /\ c < Base * Base * Base
    BY BaseAssumption DEF Fits
  <2>. QED BY <2>1
<1>2. PICK x, y, z :
        /\ x = (c \div (b * b)) % b /\ y = (c \div b) % b /\ z = c % b
  OBVIOUS
<1>3. /\ x \in 0..(b - 1) /\ y \in 0..(b - 1) /\ z \in 0..(b - 1)
      /\ x * b * b + y * b + z = c
  <2>1. /\ (c \div (b * b)) % b \in 0..(b - 1)
        /\ (c \div b) % b \in 0..(b - 1)
        /\ c % b \in 0..(b - 1)
        /\ ((c \div (b * b)) % b) * b * b + ((c \div b) % b) * b + (c % b) = c
    BY <1>1, Decoded
  <2>. QED BY <1>2, <2>1
<1>4. Rgb(c) = <<x, y, z>>
  BY <1>1, <1>2 DEF Rgb
<1>5. <<x, y, z>> \in Colours
  BY <1>1, <1>3 DEF Colours
<1>6. Read(<<x, y, z>>) = c
  <2>1. Read(<<x, y, z>>) = x * b * b + y * b + z
    BY <1>1 DEF Read
  <2>. QED BY <1>3, <2>1
<1>. QED BY <1>4, <1>5, <1>6

LEMMA IdInitInv == IdInit => IdInv
<1>. SUFFICES ASSUME IdInit PROVE IdInv
  OBVIOUS
<1>1. PICK mode \in {"object", "material"} :
        pass = [mode |-> mode, code |-> 1, entries |-> 0, result |-> "running"]
  BY DEF IdInit
<1>2. /\ palette = <<>> /\ frame = [p \in Pixels |-> Clear]
      /\ nearest = [p \in Pixels |-> Nobody]
  BY DEF IdInit
<1>3. MaxEntries \in Nat /\ Base \in Nat \ {0}
  BY BaseAssumption
<1>4. pass \in PassState /\ pass.code = 1 /\ pass.entries = 0
  BY <1>1, <1>3 DEF PassState
<1>5. palette \in Seq(Someone) /\ Len(palette) = 0
  BY <1>2
<1>6. Clear \in Colours
  BY <1>3 DEF Clear, Colours
<1>7. frame \in [Pixels -> Colours] /\ nearest \in [Pixels -> Someone \cup {Nobody}]
  BY <1>2, <1>6
<1>8. \A p \in Pixels : Shows(frame[p], nearest[p], palette)
  BY <1>2 DEF Shows
<1>9. \A c \in 1..Len(palette) : FALSE
  BY <1>5
<1>. QED BY <1>4, <1>5, <1>7, <1>8, <1>9 DEF IdInv, Distinct

LEMMA Learned ==
  ASSUME NEW q \in Seq(Someone), Distinct(q), NEW owner \in Someone,
         \A c \in 1..Len(q) : q[c] # owner
  PROVE  /\ Append(q, owner) \in Seq(Someone) /\ Distinct(Append(q, owner))
         /\ Len(Append(q, owner)) = Len(q) + 1
         /\ Append(q, owner)[Len(q) + 1] = owner
         /\ \A c \in 1..Len(q) : Append(q, owner)[c] = q[c]
<1>1. /\ Append(q, owner) \in Seq(Someone)
      /\ Len(Append(q, owner)) = Len(q) + 1
      /\ Append(q, owner)[Len(q) + 1] = owner
      /\ \A c \in 1..Len(q) : Append(q, owner)[c] = q[c]
  BY AppendProperties
<1>2. PICK w : /\ w = Append(q, owner) /\ Len(w) = Len(q) + 1
               /\ w[Len(q) + 1] = owner /\ \A c \in 1..Len(q) : w[c] = q[c]
  BY <1>1
<1>3. ASSUME NEW c \in 1..(Len(q) + 1) PROVE c \in 1..Len(q) \/ c = Len(q) + 1
  OBVIOUS
<1>4. Distinct(w)
  BY <1>2, <1>3 DEF Distinct
<1>. QED BY <1>1, <1>2, <1>4

(* A longer palette shows what a shorter one shows.                        *)
LEMMA StillShows ==
  ASSUME NEW q \in Seq(Someone), NEW w \in Seq(Someone), Len(q) <= Len(w),
         \A c \in 1..Len(q) : w[c] = q[c],
         NEW colour, NEW owner, Shows(colour, owner, q)
  PROVE  Shows(colour, owner, w)
<1>1. \A c \in 1..Len(q) : c \in 1..Len(w)
  OBVIOUS
<1>. QED BY <1>1 DEF Shows

LEMMA IdNextInv == IdInv /\ [IdNext]_idVars => IdInv'
<1>. SUFFICES ASSUME IdInv, [IdNext]_idVars PROVE IdInv'
  OBVIOUS
<1>1. /\ pass \in PassState /\ pass.code \in 1..(MaxEntries + 1)
      /\ pass.entries \in 0..MaxEntries /\ pass.code <= pass.entries + 1
      /\ MaxEntries \in Nat /\ palette \in Seq(Someone) /\ Distinct(palette)
      /\ Len(palette) \in Nat /\ pass.mode \in {"object", "material"}
  BY BaseAssumption DEF IdInv, PassState
<1>2. CASE UNCHANGED idVars
  BY <1>2 DEF idVars, IdInv, Running
<1>3. CASE Skip
  <2>1. /\ pass' = [pass EXCEPT !.entries = @ + 1] /\ pass.entries < MaxEntries
        /\ frame' = frame /\ palette' = palette /\ nearest' = nearest
    BY <1>3 DEF Skip
  <2>2. PICK n \in 1..MaxEntries : n = pass.entries + 1
    BY <1>1, <2>1
  <2>3. pass' = [pass EXCEPT !.entries = n] /\ n \in 0..MaxEntries
    BY <2>1, <2>2
  <2>4. /\ pass' \in PassState /\ pass'.entries = n /\ pass'.code = pass.code
        /\ pass'.mode = pass.mode /\ pass'.result = pass.result
    BY <1>1, <2>3 DEF PassState
  <2>5. pass'.code <= pass'.entries + 1
    BY <1>1, <2>2, <2>4
  <2>6. \A c \in 1..pass.entries : c \in 1..n
    BY <1>1, <2>2
  <2>. QED BY <1>1, <2>1, <2>4, <2>5, <2>6 DEF IdInv, Running
<1>4. CASE Finish
  <2>1. /\ pass' = [pass EXCEPT !.result = "OK"]
        /\ frame' = frame /\ palette' = palette /\ nearest' = nearest
    BY <1>4 DEF Finish
  <2>2. /\ pass' \in PassState /\ pass'.entries = pass.entries
        /\ pass'.code = pass.code /\ pass'.mode = pass.mode
        /\ pass'.result = "OK"
    BY <1>1, <2>1 DEF PassState
  <2>. QED BY <1>1, <2>1, <2>2 DEF IdInv, Running
<1>5. ASSUME NEW owner \in Owners, NEW pixels \in SUBSET Pixels,
             Draw(owner, pixels)
      PROVE  IdInv'
  <2>1. Running /\ pass.entries < MaxEntries
    BY <1>5 DEF Draw
  <2>2. PICK k \in Nat : k = Len(palette) /\ k = pass.code - 1
    BY <1>1, <2>1 DEF IdInv
  <2>3. PICK n \in 1..MaxEntries : n = pass.entries + 1
    BY <1>1, <2>1
  <2>4. owner \in Someone /\ owner # Nobody
    <3>1. CASE pass.mode = "object"
      <4>1. owner = n
        BY <2>3, <3>1 DEF Owners, Instance
      <4>2. n \in Someone /\ n \in Materials \cup Nat
        BY DEF Someone
      <4>. QED BY <4>1, <4>2, NobodyAssumption
    <3>2. CASE pass.mode # "object"
      <4>1. owner \in Materials
        BY <3>2 DEF Owners
      <4>. QED BY <4>1, NobodyAssumption DEF Someone
    <3>. QED BY <3>1, <3>2
  <2>5. CodesOf(owner) = {c \in 1..k : palette[c] = owner}
    <3>1. DOMAIN palette = 1..k
      <4>1. DOMAIN palette = 1..Len(palette)
        BY <1>1
      <4>. QED BY <2>2, <4>1
    <3>2. \A c : c \in CodesOf(owner) <=> c \in 1..k /\ palette[c] = owner
      BY <3>1 DEF CodesOf
    <3>. QED BY <3>2
  <2>6. pass.mode = "object" => CodesOf(owner) = {}
    <3>. SUFFICES ASSUME pass.mode = "object" PROVE CodesOf(owner) = {}
      OBVIOUS
    <3>1. owner = n
      BY <2>3 DEF Owners, Instance
    <3>2. \A c \in 1..k : palette[c] \in 1..pass.entries
      BY <2>2 DEF IdInv
    <3>3. \A c \in 1..k : palette[c] # n
      BY <1>1, <2>3, <3>2
    <3>. QED BY <2>5, <3>1, <3>3
  <2>. DEFINE isNew == CodesOf(owner) = {}
              code == IF isNew THEN pass.code
                      ELSE CHOOSE c \in CodesOf(owner) : TRUE
              learned == IF isNew THEN Append(palette, owner) ELSE palette
  <2>7. \/ /\ Fits(code)
           /\ pass' = [pass EXCEPT !.entries = @ + 1,
                                   !.code = IF isNew THEN @ + 1 ELSE @]
           /\ palette' = learned
           /\ Drawn(owner, code, pixels)
        \/ /\ ~Fits(code)
           /\ pass' = [pass EXCEPT !.result = "RESOURCE_LIMIT"]
           /\ palette' = IF pass.mode = "material" THEN learned ELSE palette
           /\ UNCHANGED <<frame, nearest>>
    BY <1>5 DEF Draw
  <2>8. PICK w \in Seq(Someone) :
          /\ w = learned /\ Distinct(w)
          /\ Len(w) = IF isNew THEN k + 1 ELSE k
          /\ \A c \in 1..k : w[c] = palette[c]
          /\ isNew => w[k + 1] = owner
    <3>1. CASE isNew
      <4>1. \A c \in 1..Len(palette) : palette[c] # owner
        BY <2>2, <2>5, <3>1
      <4>2. /\ Append(palette, owner) \in Seq(Someone)
            /\ Distinct(Append(palette, owner))
            /\ Len(Append(palette, owner)) = Len(palette) + 1
            /\ Append(palette, owner)[Len(palette) + 1] = owner
            /\ \A c \in 1..Len(palette) : Append(palette, owner)[c] = palette[c]
        BY <1>1, <2>4, <4>1, Learned
      <4>. QED BY <2>2, <3>1, <4>2
    <3>2. CASE ~isNew
      BY <1>1, <2>2, <3>2
    <3>. QED BY <3>1, <3>2
  <2>9. PICK c0 \in 1..Len(w) : c0 = code /\ w[c0] = owner
    <3>1. CASE isNew
      <4>1. code = k + 1 /\ k + 1 \in 1..Len(w)
        BY <1>1, <2>2, <2>8, <3>1
      <4>. QED BY <2>8, <3>1, <4>1
    <3>2. CASE ~isNew
      <4>1. code \in CodesOf(owner)
        BY <3>2
      <4>2. code \in 1..k /\ palette[code] = owner
        BY <2>5, <4>1
      <4>. QED BY <2>8, <3>2, <4>2
    <3>. QED BY <3>1, <3>2
  <2>10. /\ Len(w) \in Nat /\ Len(palette) <= Len(w)
         /\ \A c \in 1..Len(palette) : w[c] = palette[c]
    BY <1>1, <2>2, <2>8
  <2>11. pass.mode = "object" => \A c \in 1..Len(w) : w[c] \in 1..n
    <3>. SUFFICES ASSUME pass.mode = "object", NEW c \in 1..Len(w)
                  PROVE  w[c] \in 1..n
      OBVIOUS
    <3>1. isNew /\ owner = n
      BY <2>3, <2>6 DEF Owners, Instance
    <3>2. CASE c \in 1..k
      <4>1. palette[c] \in 1..pass.entries
        BY <2>2, <3>2 DEF IdInv
      <4>. QED BY <1>1, <2>3, <2>8, <3>2, <4>1
    <3>3. CASE c \notin 1..k
      <4>1. c = k + 1
        BY <2>8, <3>1, <3>3
      <4>. QED BY <2>8, <3>1, <4>1
    <3>. QED BY <3>2, <3>3
  <2>12. CASE Fits(code)
    <3>1. /\ pass' = [pass EXCEPT !.entries = @ + 1,
                                  !.code = IF isNew THEN @ + 1 ELSE @]
          /\ palette' = w /\ Drawn(owner, c0, pixels)
      BY <2>7, <2>8, <2>9, <2>12
    <3>2. PICK m \in 1..(MaxEntries + 1) :
            m = (IF isNew THEN pass.code + 1 ELSE pass.code) /\ m <= n + 1
      <4>1. pass.code + 1 \in 1..(MaxEntries + 1) /\ pass.code + 1 <= n + 1
        BY <1>1, <2>1, <2>3
      <4>2. pass.code <= n + 1
        BY <1>1, <2>3
      <4>. QED BY <1>1, <4>1, <4>2
    <3>3. pass' = [pass EXCEPT !.entries = n, !.code = m]
      BY <2>3, <3>1, <3>2
    <3>4. /\ pass' \in PassState /\ pass'.entries = n /\ pass'.code = m
          /\ pass'.mode = pass.mode
      <4>1. n \in 0..MaxEntries
        BY <1>1
      <4>2. \A q \in PassState : LET r == [q EXCEPT !.entries = n, !.code = m]
                                 IN /\ r \in PassState /\ r.entries = n
                                    /\ r.code = m /\ r.mode = q.mode
        BY <4>1 DEF PassState
      <4>. QED BY <1>1, <3>3, <4>2
    <3>5. Len(w) = m - 1
      BY <1>1, <2>2, <2>8, <3>2
    <3>6. Fits(c0) /\ c0 \in Nat /\ Rgb(c0) \in Colours
      <4>1. Fits(c0) /\ c0 \in Nat
        BY <2>9, <2>10, <2>12
      <4>. QED BY <4>1, RgbRead
    <3>7. /\ frame' = [p \in Pixels |-> IF p \in pixels THEN Rgb(c0) ELSE frame[p]]
          /\ nearest' = [p \in Pixels |-> IF p \in pixels THEN owner ELSE nearest[p]]
      BY <3>1 DEF Drawn
    <3>8. /\ frame' \in [Pixels -> Colours]
          /\ nearest' \in [Pixels -> Someone \cup {Nobody}]
      <4>1. /\ frame \in [Pixels -> Colours]
            /\ nearest \in [Pixels -> Someone \cup {Nobody}]
        BY DEF IdInv
      <4>. QED BY <2>4, <3>6, <3>7, <4>1
    <3>9. ASSUME NEW p \in Pixels PROVE Shows(frame'[p], nearest'[p], w)
      <4>1. CASE p \in pixels
        <5>1. frame'[p] = Rgb(c0) /\ nearest'[p] = owner
          BY <3>7, <4>1
        <5>2. Shows(Rgb(c0), owner, w)
          BY <2>4, <2>9, <3>6 DEF Shows
        <5>. QED BY <5>1, <5>2
      <4>2. CASE p \notin pixels
        <5>1. frame'[p] = frame[p] /\ nearest'[p] = nearest[p]
          BY <3>7, <4>2
        <5>2. Shows(frame[p], nearest[p], palette)
          BY DEF IdInv
        <5>3. Shows(frame[p], nearest[p], w)
          BY <1>1, <2>10, <5>2, StillShows
        <5>. QED BY <5>1, <5>3
      <4>. QED BY <4>1, <4>2
    <3>. QED BY <2>8, <2>11, <3>1, <3>2, <3>4, <3>5, <3>8, <3>9 DEF IdInv
  <2>13. CASE ~Fits(code)
    <3>1. /\ pass' = [pass EXCEPT !.result = "RESOURCE_LIMIT"]
          /\ palette' = IF pass.mode = "material" THEN w ELSE palette
          /\ frame' = frame /\ nearest' = nearest
      BY <2>7, <2>8, <2>13
    <3>2. /\ pass' \in PassState /\ pass'.entries = pass.entries
          /\ pass'.code = pass.code /\ pass'.mode = pass.mode
          /\ pass'.result = "RESOURCE_LIMIT"
      BY <1>1, <3>1 DEF PassState
    <3>3. ~Running'
      BY <3>2 DEF Running
    <3>4. CASE pass.mode = "material"
      <4>1. palette' = w
        BY <3>1, <3>4
      <4>2. ASSUME NEW p \in Pixels PROVE Shows(frame[p], nearest[p], w)
        <5>1. Shows(frame[p], nearest[p], palette)
          BY DEF IdInv
        <5>. QED BY <1>1, <2>10, <5>1, StillShows
      <4>3. pass'.mode # "object"
        BY <3>2, <3>4
      <4>4. /\ frame \in [Pixels -> Colours]
            /\ nearest \in [Pixels -> Someone \cup {Nobody}]
        BY DEF IdInv
      <4>. QED BY <1>1, <2>8, <3>1, <3>2, <3>3, <4>1, <4>2, <4>3, <4>4 DEF IdInv
    <3>5. CASE pass.mode # "material"
      <4>1. palette' = palette
        BY <3>1, <3>5
      <4>. QED BY <1>1, <3>1, <3>2, <3>3, <4>1 DEF IdInv
    <3>. QED BY <3>4, <3>5
  <2>. QED BY <2>12, <2>13
<1>. QED BY <1>2, <1>3, <1>4, <1>5 DEF IdNext

(* What the invariant says of a pixel is what an agent decodes.            *)
LEMMA IdDecodes == IdInv => PixelsDecode /\ IdTypeOK
<1>. SUFFICES ASSUME IdInv PROVE PixelsDecode /\ IdTypeOK
  OBVIOUS
<1>1. palette \in Seq(Someone) /\ DOMAIN palette = 1..Len(palette)
      /\ Distinct(palette)
  BY DEF IdInv
<1>2. ASSUME NEW p \in Pixels
      PROVE  IF nearest[p] = Nobody THEN Read(frame[p]) = 0
             ELSE /\ Read(frame[p]) \in DOMAIN palette
                  /\ palette[Read(frame[p])] = nearest[p]
  <2>1. Shows(frame[p], nearest[p], palette)
    BY DEF IdInv
  <2>2. CASE nearest[p] = Nobody
    <3>1. frame[p] = Clear
      BY <2>1, <2>2 DEF Shows
    <3>2. Read(Clear) = 0
      BY BaseAssumption DEF Read, Clear
    <3>. QED BY <2>2, <3>1, <3>2
  <2>3. CASE nearest[p] # Nobody
    <3>1. PICK c \in 1..Len(palette) :
            Fits(c) /\ frame[p] = Rgb(c) /\ nearest[p] = palette[c]
      BY <2>1, <2>3 DEF Shows
    <3>2. Read(frame[p]) = c
      <4>1. c \in Nat
        BY <1>1
      <4>. QED BY <3>1, <4>1, RgbRead
    <3>. QED BY <1>1, <2>3, <3>1, <3>2
  <2>. QED BY <2>2, <2>3
<1>3. PixelsDecode
  BY <1>1, <1>2 DEF PixelsDecode, Distinct
<1>4. IdTypeOK
  BY DEF IdInv, IdTypeOK, PassState, Someone, Colours
<1>. QED BY <1>3, <1>4

-----------------------------------------------------------------------------
(* The mesh, and pages.  What was read of one revision, which the mesh     *)
(* still has, is the beginning of the list of its elements, unless the     *)
(* mesh changed unnoticed.                                                 *)
Meshes == [rev : 0..MaxRev, topo : Topologies]
Items == {Item(t, i) : t \in Topologies, i \in Nat}
Pages == [offset : Nat, items : Seq(Items), revs : SUBSET (0..MaxRev),
          more : BOOLEAN, unnoticed : BOOLEAN]

Elements(t, n) == [k \in 1..n |-> Item(t, k - 1)]
Following(t, n, d) == [k \in 1..d |-> Item(t, n + k - 1)]

Agrees(r, m) ==
  /\ r.offset <= m.topo.vertices /\ r.items = Elements(m.topo, r.offset)
  /\ ~r.more => r.offset = m.topo.vertices

MeshInv ==
  /\ mesh \in Meshes /\ past \subseteq Meshes /\ Cardinality(past) <= MaxPast

ReadInv ==
  /\ reader \in Pages
  /\ reader.revs = {} => reader = NoPages
  /\ ~reader.unnoticed =>
       /\ \A rev \in reader.revs : rev <= mesh.rev
       /\ reader.revs = {mesh.rev} => Agrees(reader, mesh)

LEMMA MeshInitInv == ReadInit => MeshInv
<1>. SUFFICES ASSUME ReadInit PROVE MeshInv
  OBVIOUS
<1>1. PICK t \in Topologies : mesh = [rev |-> 0, topo |-> t]
  BY DEF ReadInit
<1>2. mesh \in Meshes /\ past = {mesh}
  BY <1>1, LimitAssumption DEF Meshes, ReadInit
<1>3. Cardinality(past) = 1
  BY <1>2, FS_Singleton
<1>. QED BY <1>2, <1>3, LimitAssumption DEF MeshInv

LEMMA MeshNextInv == MeshInv /\ [ReadNext]_readVars => MeshInv'
<1>. SUFFICES ASSUME MeshInv, [ReadNext]_readVars PROVE MeshInv'
  OBVIOUS
<1>1. mesh \in Meshes /\ past \subseteq Meshes /\ Cardinality(past) <= MaxPast
  BY DEF MeshInv
<1>2. ASSUME UNCHANGED <<mesh, past>> PROVE MeshInv'
  BY <1>1, <1>2 DEF MeshInv
<1>3. ASSUME NEW m \in Meshes, mesh' \in Meshes, Remember(m) PROVE MeshInv'
  BY <1>1, <1>3 DEF MeshInv, Remember
<1>4. ASSUME NEW t \in Topologies, Rebuild(t) PROVE MeshInv'
  <2>1. /\ mesh' = [rev |-> mesh.rev + 1, topo |-> t] /\ mesh.rev < MaxRev
        /\ Remember(mesh)
    BY <1>4 DEF Rebuild, NextRevision
  <2>2. mesh' \in Meshes
    BY <1>1, <2>1, LimitAssumption DEF Meshes
  <2>. QED BY <1>1, <1>3, <2>1, <2>2
<1>5. ASSUME NEW t \in Topologies, RecalcNormals(t) \/ UserEdits(t)
      PROVE  MeshInv'
  <2>1. mesh' = [mesh EXCEPT !.topo = t] /\ (Remember(mesh) \/ Remember(mesh'))
    BY <1>5 DEF RecalcNormals, UserEdits
  <2>2. mesh' \in Meshes
    BY <1>1, <2>1 DEF Meshes
  <2>. QED BY <1>1, <1>3, <2>1, <2>2
<1>6. CASE Restore
  BY <1>1, <1>6 DEF Restore, MeshInv
<1>. QED BY <1>2, <1>4, <1>5, <1>6
         DEF ReadNext, readVars, FirstPage, NextPage, StartAgain, ListComponents

LEMMA ASequence ==
  ASSUME NEW S, NEW n \in Nat, NEW f \in [1..n -> S]
  PROVE  f \in Seq(S) /\ Len(f) = n
<1>1. f \in Seq(S)
  BY SeqDef
<1>2. Len(f) \in Nat /\ DOMAIN f = 1..Len(f) /\ DOMAIN f = 1..n
  BY <1>1, LenProperties
<1>3. Len(f) = n
  BY <1>2, SMT
<1>. QED BY <1>1, <1>3

(* One page after those before it.                                         *)
LEMMA ElementsMore ==
  ASSUME NEW t \in Topologies, NEW n \in Nat, NEW d \in Nat
  PROVE  /\ Following(t, n, d) \in Seq(Items) /\ Len(Following(t, n, d)) = d
         /\ Elements(t, n) \o Following(t, n, d) = Elements(t, n + d)
<1>0. PICK page : /\ page = Following(t, n, d)
                  /\ page = [k \in 1..d |-> Item(t, n + k - 1)]
  BY DEF Following
<1>1. \A k \in 1..d : Item(t, n + k - 1) \in Items
  <2>1. \A k \in 1..d : n + k - 1 \in Nat
    OBVIOUS
  <2>. QED BY <2>1 DEF Items
<1>2. page \in [1..d -> Items]
  BY <1>0, <1>1
<1>3. page \in Seq(Items) /\ Len(page) = d
  BY <1>2, ASequence
<1>4. \A j \in Nat : Elements(t, j) \in Seq(Items) /\ Len(Elements(t, j)) = j
  <2>. SUFFICES ASSUME NEW j \in Nat
                PROVE  Elements(t, j) \in Seq(Items) /\ Len(Elements(t, j)) = j
    OBVIOUS
  <2>1. \A k \in 1..j : k - 1 \in Nat
    OBVIOUS
  <2>2. Elements(t, j) \in [1..j -> Items]
    BY <2>1 DEF Elements, Items
  <2>. QED BY <2>2, ASequence
<1>5. PICK p \in Seq(Items) : p = Elements(t, n) /\ Len(p) = n
  BY <1>4
<1>6. PICK w \in Seq(Items) : w = Elements(t, n + d) /\ Len(w) = n + d
  <2>1. n + d \in Nat
    OBVIOUS
  <2>. QED BY <1>4, <2>1
<1>7. PICK q \in Seq(Items) : q = page /\ Len(q) = d
  BY <1>3
<1>8. /\ p \o q \in Seq(Items) /\ Len(p \o q) = n + d
      /\ \A i \in 1..n : (p \o q)[i] = p[i]
      /\ \A i \in n + 1 .. n + d : (p \o q)[i] = q[i - n]
  <2>1. /\ p \o q \in Seq(Items) /\ Len(p \o q) = Len(p) + Len(q)
        /\ \A i \in 1..Len(p) : (p \o q)[i] = p[i]
        /\ \A i \in Len(p) + 1 .. Len(p) + Len(q) :
             (p \o q)[i] = q[i - Len(p)]
    BY Joined
  <2>2. Len(p) = n /\ Len(q) = d
    BY <1>5, <1>7
  <2>. QED BY <2>1, <2>2
<1>9. ASSUME NEW i \in 1..(n + d) PROVE (p \o q)[i] = w[i]
  <2>1. w[i] = Item(t, i - 1)
    BY <1>6 DEF Elements
  <2>2. CASE i <= n
    <3>1. i \in 1..n
      BY <2>2
    <3>2. p[i] = Item(t, i - 1)
      BY <1>5, <3>1 DEF Elements
    <3>. QED BY <1>8, <2>1, <3>1, <3>2
  <2>3. CASE ~(i <= n)
    <3>1. i \in n + 1 .. n + d /\ i - n \in 1..d /\ n + (i - n) - 1 = i - 1
      BY <2>3
    <3>2. q[i - n] = Item(t, n + (i - n) - 1)
      BY <1>0, <1>7, <3>1
    <3>. QED BY <1>8, <2>1, <3>1, <3>2
  <2>. QED BY <2>2, <2>3
<1>10. p \o q = w
  BY <1>6, <1>8, <1>9, SeqEqual
<1>. QED BY <1>0, <1>3, <1>5, <1>6, <1>7, <1>10

LEMMA NothingRead ==
  /\ NoPages \in Pages
  /\ \A t \in Topologies : NoPages.items = Elements(t, 0)
<1>1. NoPages \in Pages
  BY LimitAssumption DEF NoPages, Pages
<1>2. ASSUME NEW t \in Topologies PROVE NoPages.items = Elements(t, 0)
  <2>1. PICK none \in Seq(Items) : none = <<>> /\ Len(none) = 0
    <3>1. <<>> \in Seq(Items) /\ Len(<<>>) = 0
      BY EmptySeq
    <3>. QED BY <3>1
  <2>2. Elements(t, 0) \in [1..0 -> Items]
    BY DEF Elements
  <2>3. Elements(t, 0) \in Seq(Items) /\ Len(Elements(t, 0)) = 0
    BY <2>2, ASequence
  <2>4. PICK w \in Seq(Items) : w = Elements(t, 0) /\ Len(w) = 0
    BY <2>3
  <2>5. none = w
    BY <2>1, <2>4, SeqEqual
  <2>. QED BY <2>1, <2>4, <2>5 DEF NoPages
<1>. QED BY <1>1, <1>2

(* What a page adds, wherever it starts.                                   *)
LEMMA PageAdded ==
  ASSUME mesh \in Meshes, NEW r \in Pages,
         NEW asked \in Int, NEW limit \in Int
  PROVE  LET q == Paged(r, asked, limit)
         IN /\ q \in Pages /\ q.revs = r.revs \cup {mesh.rev}
            /\ q.unnoticed = r.unnoticed
            /\ /\ AtLeast(0, asked) <= mesh.topo.vertices
               /\ r.items = Elements(mesh.topo, AtLeast(0, asked))
               => Agrees(q, mesh)
<1>1. PICK t \in Topologies, v \in Nat :
        t = mesh.topo /\ v = t.vertices /\ mesh.rev \in 0..MaxRev
  BY TopologyAssumption DEF Meshes
<1>2. PICK o \in Nat : o = AtLeast(0, asked)
  BY DEF AtLeast
<1>2a. PICK l \in Nat \ {0} : l = AtLeast(1, AtMost(PageLimit, limit))
  BY LimitAssumption DEF AtLeast, AtMost
<1>3. PICK first \in Nat : first = AtMost(o, v) /\ (o <= v => first = o)
                           /\ (o > v => first = v)
  BY DEF AtMost
<1>4. PICK stop \in Nat : stop = AtMost(v, o + l) /\ stop <= v
                        /\ (o <= v => o <= stop) /\ (o > v => stop = v)
                        /\ (stop = v \/ stop = o + l)
  BY DEF AtMost
<1>5. PICK d \in Nat : d = AtLeast(0, stop - first)
                      /\ (o <= v => first + d = stop)
  BY <1>3, <1>4 DEF AtLeast
<1>6. PICK page : page = PageItems(t, o, l) /\ page = Following(t, first, d)
  <2>1. first = AtMost(o, t.vertices) /\ stop = AtMost(t.vertices, o + l)
    BY <1>1, <1>3, <1>4
  <2>2. PageItems(t, o, l) = Following(t, first, d)
    BY <1>5, <2>1 DEF PageItems, Following
  <2>. QED BY <2>2
<1>7. /\ page \in Seq(Items) /\ Len(page) = d
      /\ Elements(t, first) \o page = Elements(t, first + d)
  <2>1. /\ Following(t, first, d) \in Seq(Items)
        /\ Len(Following(t, first, d)) = d
        /\ Elements(t, first) \o Following(t, first, d) = Elements(t, first + d)
    BY ElementsMore
  <2>. QED BY <1>6, <2>1
<1>8. PICK items \in Seq(Items) : items = r.items \o page
  <2>1. r.items \in Seq(Items)
    BY DEF Pages
  <2>. QED BY <1>7, <2>1, Joined
<1>9. PICK n \in Nat : n = o + d
  OBVIOUS
<1>10. PICK more \in BOOLEAN : (more <=> n < v) /\ more = HasMore(t, o, page)
  <2>1. HasMore(t, o, page) <=> n < v
    BY <1>1, <1>7, <1>9 DEF HasMore
  <2>2. HasMore(t, o, page) \in BOOLEAN
    BY DEF HasMore
  <2>. QED BY <2>1, <2>2
<1>11. PICK revs \in SUBSET (0..MaxRev) : revs = r.revs \cup {mesh.rev}
  BY <1>1 DEF Pages
<1>12. Paged(r, asked, limit) =
         [r EXCEPT !.offset = n, !.items = items, !.revs = revs, !.more = more]
  <2>1. Paged(r, asked, limit) =
          [r EXCEPT !.offset = o + Len(page), !.items = @ \o page,
                    !.revs = @ \cup {mesh.rev}, !.more = HasMore(t, o, page)]
    BY <1>1, <1>2, <1>2a, <1>6 DEF Paged
  <2>2. [r EXCEPT !.offset = n, !.items = @ \o page,
                  !.revs = @ \cup {mesh.rev}, !.more = more]
          = [r EXCEPT !.offset = n, !.items = items, !.revs = revs, !.more = more]
    BY <1>8, <1>11 DEF Pages
  <2>3. o + Len(page) = n /\ HasMore(t, o, page) = more
    BY <1>7, <1>9, <1>10
  <2>. QED BY <2>1, <2>2, <2>3
<1>13. PICK q \in Pages :
         /\ q = Paged(r, asked, limit)
         /\ q.offset = n /\ q.items = items /\ q.revs = revs /\ q.more = more
         /\ q.unnoticed = r.unnoticed
  <2>1. PICK q : q = [r EXCEPT !.offset = n, !.items = items, !.revs = revs,
                               !.more = more]
    OBVIOUS
  <2>2. /\ q \in Pages /\ q.offset = n /\ q.items = items /\ q.revs = revs
        /\ q.more = more /\ q.unnoticed = r.unnoticed
    BY <2>1 DEF Pages
  <2>. QED BY <1>12, <2>1, <2>2
<1>14. ASSUME o <= v, r.items = Elements(t, o) PROVE Agrees(q, mesh)
  <2>1. first = o /\ o + d = stop /\ stop <= v
    BY <1>3, <1>4, <1>5, <1>14
  <2>2. items = Elements(t, n)
    <3>1. items = Elements(t, first) \o page
      BY <1>8, <1>14, <2>1
    <3>2. first + d = n
      BY <1>9, <2>1
    <3>. QED BY <1>7, <3>1, <3>2
  <2>3. n <= v /\ (~more => n = v)
    BY <1>9, <1>10, <2>1
  <2>. QED BY <1>1, <1>13, <2>2, <2>3 DEF Agrees
<1>. QED BY <1>1, <1>2, <1>11, <1>13, <1>14

LEMMA ReadInitInv == ReadInit => ReadInv
<1>. SUFFICES ASSUME ReadInit PROVE ReadInv
  OBVIOUS
<1>1. PICK t \in Topologies : mesh = [rev |-> 0, topo |-> t]
  BY DEF ReadInit
<1>2. reader = NoPages /\ reader \in Pages /\ reader.revs = {}
  BY NothingRead DEF ReadInit, NoPages
<1>. QED BY <1>1, <1>2 DEF ReadInv

(* A page that an agent asks for: the first, or the next.                  *)
LEMMA PagedInv ==
  ASSUME MeshInv, ReadInv, NEW limit \in Limits, NEW asked \in Int,
         reader' = Paged(reader, asked, limit), mesh' = mesh,
         \/ reader = NoPages /\ asked <= 0
         \/ reader # NoPages /\ asked = reader.offset
  PROVE  ReadInv'
<1>1. /\ mesh \in Meshes /\ reader \in Pages
      /\ reader.revs = {} => reader = NoPages
      /\ ~reader.unnoticed =>
           /\ \A rev \in reader.revs : rev <= mesh.rev
           /\ reader.revs = {mesh.rev} => Agrees(reader, mesh)
  BY DEF MeshInv, ReadInv
<1>2. PICK q \in Pages :
        /\ q = Paged(reader, asked, limit) /\ q.revs = reader.revs \cup {mesh.rev}
        /\ q.unnoticed = reader.unnoticed
        /\ /\ AtLeast(0, asked) <= mesh.topo.vertices
           /\ reader.items = Elements(mesh.topo, AtLeast(0, asked))
           => Agrees(q, mesh)
  <2>1. limit \in Int
    BY LimitAssumption
  <2>. QED BY <1>1, <2>1, PageAdded
<1>3. mesh.rev \in Nat /\ mesh.topo \in Topologies /\ mesh.topo.vertices \in Nat
  BY <1>1, LimitAssumption, TopologyAssumption DEF Meshes
<1>4. ASSUME ~q.unnoticed, q.revs = {mesh.rev} PROVE Agrees(q, mesh)
  <2>1. CASE reader = NoPages
    <3>1. asked <= 0 /\ AtLeast(0, asked) = 0
      BY <2>1 DEF AtLeast
    <3>2. reader.items = Elements(mesh.topo, 0)
      BY <1>3, <2>1, NothingRead
    <3>. QED BY <1>2, <1>3, <3>1, <3>2
  <2>2. CASE reader # NoPages
    <3>1. reader.revs # {} /\ reader.revs \subseteq {mesh.rev}
      BY <1>1, <1>2, <1>4, <2>2
    <3>2. Agrees(reader, mesh)
      BY <1>1, <1>2, <1>4, <3>1
    <3>3. asked = reader.offset /\ reader.offset \in Nat
      BY <1>1, <2>2 DEF Pages
    <3>4. AtLeast(0, asked) = reader.offset
      BY <3>3 DEF AtLeast
    <3>. QED BY <1>2, <3>2, <3>4 DEF Agrees
  <2>. QED BY <2>1, <2>2
<1>5. ~q.unnoticed => \A rev \in q.revs : rev <= mesh.rev
  BY <1>1, <1>2, <1>3
<1>6. q.revs # {}
  BY <1>2
<1>7. reader' = q
  BY <1>2
<1>. QED BY <1>1, <1>4, <1>5, <1>6, <1>7 DEF ReadInv

LEMMA ReadNextInv == MeshInv /\ ReadInv /\ [ReadNext]_readVars => ReadInv'
<1>. SUFFICES ASSUME MeshInv, ReadInv, [ReadNext]_readVars PROVE ReadInv'
  OBVIOUS
<1>1. /\ mesh \in Meshes /\ mesh.rev \in Nat /\ reader \in Pages
      /\ reader.revs = {} => reader = NoPages
      /\ ~reader.unnoticed =>
           /\ \A rev \in reader.revs : rev <= mesh.rev
           /\ reader.revs = {mesh.rev} => Agrees(reader, mesh)
  BY LimitAssumption DEF MeshInv, Meshes, ReadInv
<1>2. CASE UNCHANGED readVars
  BY <1>2 DEF readVars, ReadInv
<1>3. ASSUME NEW offset \in Offsets, NEW limit \in Limits,
             FirstPage(offset, limit)
      PROVE  ReadInv'
  <2>1. /\ reader = NoPages /\ mesh' = mesh
        /\ reader' = Paged(NoPages, offset, limit)
        /\ offset \in Int /\ offset <= 0
    BY <1>3, LimitAssumption DEF FirstPage, NothingAsked
  <2>. QED BY <2>1, PagedInv
<1>4. ASSUME NEW limit \in Limits, NextPage(limit) PROVE ReadInv'
  <2>1. /\ reader # NoPages /\ mesh' = mesh
        /\ reader' = Paged(reader, reader.offset, limit)
        /\ reader.offset \in Int
    BY <1>1, <1>4 DEF NextPage, Pages
  <2>. QED BY <2>1, PagedInv
<1>5. CASE StartAgain
  <2>1. reader' = NoPages /\ mesh' = mesh /\ NoPages \in Pages /\ NoPages.revs = {}
    BY <1>5, NothingRead DEF StartAgain, NoPages
  <2>. QED BY <1>1, <2>1 DEF ReadInv
<1>6. ASSUME NEW max \in Limits, ListComponents(max) PROVE ReadInv'
  <2>1. reader' = reader /\ mesh' = mesh
    BY <1>6 DEF ListComponents
  <2>. QED BY <2>1 DEF ReadInv
<1>7. ASSUME NEW t \in Topologies, Rebuild(t) PROVE ReadInv'
  <2>1. /\ mesh' = [rev |-> mesh.rev + 1, topo |-> t] /\ mesh.rev < MaxRev
        /\ reader' = reader
    BY <1>7 DEF Rebuild, NextRevision
  <2>2. mesh'.rev = mesh.rev + 1
    BY <2>1
  <2>3. ~reader.unnoticed =>
          \A rev \in reader.revs : rev <= mesh'.rev /\ rev # mesh'.rev
    <3>1. reader.revs \subseteq 0..MaxRev
      BY <1>1 DEF Pages
    <3>. QED BY <1>1, <2>2, <3>1
  <2>4. ~reader.unnoticed => reader.revs # {mesh'.rev}
    BY <2>3
  <2>. QED BY <1>1, <2>1, <2>3, <2>4 DEF ReadInv
<1>8. ASSUME Unnoticed PROVE ReadInv'
  <2>1. reader' = [reader EXCEPT !.unnoticed = reader # NoPages]
    BY <1>8 DEF Unnoticed
  <2>2. CASE reader = NoPages
    <3>1. reader' = NoPages
      BY <2>1, <2>2 DEF NoPages
    <3>2. NoPages \in Pages /\ NoPages.revs = {}
      BY NothingRead DEF NoPages
    <3>. QED BY <3>1, <3>2 DEF ReadInv
  <2>3. CASE reader # NoPages
    <3>1. reader' \in Pages /\ reader'.unnoticed /\ reader'.revs = reader.revs
      BY <1>1, <2>1, <2>3 DEF Pages
    <3>2. reader.revs # {}
      BY <1>1, <2>3
    <3>. QED BY <3>1, <3>2 DEF ReadInv
  <2>. QED BY <2>2, <2>3
<1>9. ASSUME NEW t \in Topologies, RecalcNormals(t) \/ UserEdits(t)
      PROVE  ReadInv'
  BY <1>8, <1>9 DEF RecalcNormals, UserEdits
<1>10. CASE Restore
  BY <1>8, <1>10 DEF Restore
<1>. QED BY <1>2, <1>3, <1>4, <1>5, <1>6, <1>7, <1>9, <1>10 DEF ReadNext

LEMMA ReadWhole == MeshInv /\ ReadInv => PagesWhole /\ ReadTypeOK
<1>. SUFFICES ASSUME MeshInv, ReadInv PROVE PagesWhole /\ ReadTypeOK
  OBVIOUS
<1>1. PagesWhole
  BY DEF ReadInv, PagesWhole, Agrees, Elements
<1>2. ReadTypeOK
  BY DEF MeshInv, Meshes, ReadInv, ReadTypeOK, Pages
<1>. QED BY <1>1, <1>2

-----------------------------------------------------------------------------
(* Components.  The waves of a search, up to the one numbered m.           *)
Spread(t, S) == S \cup UNION {Neighbours(t, v) : v \in S}
Waves(t, seed, m, wave) ==
  wave = [n \in 0..m |-> IF n = 0 THEN {seed} ELSE Spread(t, wave[n - 1])]

LEMMA WavesExist ==
  ASSUME NEW t, NEW seed, NEW m \in Nat
  PROVE  \E wave : Waves(t, seed, m, wave)
<1>. DEFINE T == {k \in Nat : \E wave : Waves(t, seed, k, wave)}
<1>1. 0 \in T
  <2>1. PICK wave : wave = [n \in 0..0 |-> {seed}]
    OBVIOUS
  <2>2. Waves(t, seed, 0, wave)
    BY <2>1 DEF Waves
  <2>. QED BY <2>2
<1>2. ASSUME NEW k \in Nat, k \in T PROVE k + 1 \in T
  <2>1. PICK f : Waves(t, seed, k, f)
    BY <1>2
  <2>2. PICK g : g = [n \in 0..k + 1 |->
                        IF n = 0 THEN {seed} ELSE Spread(t, f[n - 1])]
    OBVIOUS
  <2>3. \A n \in 0..k : g[n] = f[n]
    <3>. SUFFICES ASSUME NEW n \in 0..k PROVE g[n] = f[n]
      OBVIOUS
    <3>1. n \in 0..k + 1
      OBVIOUS
    <3>2. g[n] = IF n = 0 THEN {seed} ELSE Spread(t, f[n - 1])
      BY <2>2, <3>1
    <3>3. f[n] = IF n = 0 THEN {seed} ELSE Spread(t, f[n - 1])
      BY <2>1 DEF Waves
    <3>. QED BY <3>2, <3>3
  <2>4. \A n \in 0..k + 1 : n # 0 => n - 1 \in 0..k
    OBVIOUS
  <2>5. g = [n \in 0..k + 1 |->
               IF n = 0 THEN {seed} ELSE Spread(t, g[n - 1])]
    BY <2>2, <2>3, <2>4
  <2>. QED BY <2>5 DEF Waves
<1>. HIDE DEF T
<1>3. Nat \subseteq T
  BY <1>1, <1>2, CountingUp
<1>. QED BY <1>3 DEF T

Flows(t, seed, wave) ==
  /\ Flood(t, seed) = wave[t.vertices]
  /\ wave[0] = {seed}
  /\ \A n \in Nat : n + 1 \in 0..t.vertices => wave[n + 1] = Spread(t, wave[n])

LEMMA FloodWaves ==
  ASSUME NEW t, t.vertices \in Nat, NEW seed
  PROVE  \E wave : Flows(t, seed, wave)
<1>1. PICK wave : /\ wave = CHOOSE w : Waves(t, seed, t.vertices, w)
                  /\ Waves(t, seed, t.vertices, wave)
  BY WavesExist
<1>2. Flood(t, seed) = (CHOOSE w : Waves(t, seed, t.vertices, w))[t.vertices]
  BY DEF Flood, Waves, Spread
<1>3. wave[0] = {seed}
  BY <1>1 DEF Waves
<1>4. ASSUME NEW n \in Nat, n + 1 \in 0..t.vertices
      PROVE  wave[n + 1] = Spread(t, wave[n])
  <2>1. PICK k \in 0..t.vertices : k = n + 1
    BY <1>4
  <2>2. k # 0 /\ k - 1 = n
    BY <2>1
  <2>3. wave[k] = Spread(t, wave[k - 1])
    BY <1>1, <2>2 DEF Waves
  <2>. QED BY <2>1, <2>2, <2>3
<1>. QED BY <1>1, <1>2, <1>3, <1>4 DEF Flows

(* A set of vertices that no edge leaves.                                  *)
Stays(t, S) == S \subseteq Vertices(t) /\ \A v \in S : Neighbours(t, v) \subseteq S

LEMMA VerticesFinite ==
  ASSUME NEW t, t.vertices \in Nat
  PROVE  /\ IsFiniteSet(Vertices(t)) /\ Cardinality(Vertices(t)) = t.vertices
         /\ \A S \in SUBSET Vertices(t) :
              /\ IsFiniteSet(S) /\ Cardinality(S) \in Nat
              /\ Cardinality(S) <= t.vertices
<1>1. IsFiniteSet(Vertices(t)) /\ Cardinality(Vertices(t)) = t.vertices
  <2>1. PICK b \in Int : b = t.vertices - 1
    OBVIOUS
  <2>2. 0 \in Int
    OBVIOUS
  <2>3. IsFiniteSet(0..b) /\ Cardinality(0..b) = IF 0 > b THEN 0 ELSE b - 0 + 1
    BY <2>2, FS_Interval
  <2>4. (IF 0 > b THEN 0 ELSE b - 0 + 1) = t.vertices
    BY <2>1
  <2>. QED BY <2>1, <2>3, <2>4 DEF Vertices
<1>. QED BY <1>1, FS_Subset, FS_CardinalityType

(* A wave that brings nothing new is the last; every other one has a       *)
(* vertex more than the one before it, and there are only so many.         *)
LEMMA FloodIsLeast ==
  ASSUME NEW t, t.vertices \in Nat, NEW seed \in Vertices(t)
  PROVE  /\ seed \in Flood(t, seed) /\ Stays(t, Flood(t, seed))
         /\ \A S : seed \in S /\ Stays(t, S) => Flood(t, seed) \subseteq S
<1>0. PICK wave : Flows(t, seed, wave)
  BY FloodWaves
<1>1. /\ Flood(t, seed) = wave[t.vertices] /\ wave[0] = {seed}
      /\ \A n \in Nat : n + 1 \in 0..t.vertices =>
           wave[n + 1] = Spread(t, wave[n])
  BY <1>0 DEF Flows
<1>2. \A S : Stays(t, S) => Spread(t, S) = S
  BY DEF Stays, Spread
<1>3. \A S : S \subseteq Vertices(t) => Spread(t, S) \subseteq Vertices(t)
  BY DEF Spread, Neighbours
<1>4. ASSUME NEW S \in SUBSET Vertices(t), ~Stays(t, S)
      PROVE  Cardinality(S) + 1 <= Cardinality(Spread(t, S))
  <2>0. PICK v \in S : ~(Neighbours(t, v) \subseteq S)
    BY <1>4 DEF Stays
  <2>1. PICK w \in Neighbours(t, v) : w \notin S
    BY <2>0
  <2>2. S \cup {w} \subseteq Spread(t, S)
    BY <2>1 DEF Spread
  <2>3. IsFiniteSet(S) /\ Cardinality(S) \in Nat
    BY VerticesFinite
  <2>4. Cardinality(S \cup {w}) = Cardinality(S) + 1
    BY <2>1, <2>3, FS_AddElement
  <2>5. IsFiniteSet(Spread(t, S))
    BY <1>3, VerticesFinite
  <2>6. Cardinality(S \cup {w}) <= Cardinality(Spread(t, S))
    BY <2>2, <2>5, FS_Subset
  <2>. QED BY <2>4, <2>6
<1>. DEFINE Large(n) == /\ wave[n] \subseteq Vertices(t) /\ seed \in wave[n]
                        /\ Stays(t, wave[n]) \/ n + 1 <= Cardinality(wave[n])
            T == {n \in Nat : n \in 0..t.vertices => Large(n)}
<1>5. 0 \in T
  <2>1. Cardinality({seed}) = 1
    BY FS_Singleton
  <2>. QED BY <1>1, <2>1
<1>6. ASSUME NEW n \in Nat, n \in T PROVE n + 1 \in T
  <2>. SUFFICES ASSUME n + 1 \in 0..t.vertices PROVE Large(n + 1)
    OBVIOUS
  <2>1. Large(n) /\ wave[n + 1] = Spread(t, wave[n])
    <3>1. n \in 0..t.vertices
      OBVIOUS
    <3>. QED BY <1>1, <1>6, <3>1
  <2>2. wave[n + 1] \subseteq Vertices(t) /\ seed \in wave[n + 1]
    BY <1>3, <2>1 DEF Spread
  <2>3. CASE Stays(t, wave[n])
    BY <1>2, <2>1, <2>2, <2>3
  <2>4. CASE ~Stays(t, wave[n])
    <3>1. Cardinality(wave[n]) + 1 <= Cardinality(wave[n + 1])
      BY <1>4, <2>1, <2>4
    <3>2. Cardinality(wave[n]) \in Nat /\ Cardinality(wave[n + 1]) \in Nat
      BY <2>1, <2>2, VerticesFinite
    <3>3. (n + 1) + 1 <= Cardinality(wave[n + 1])
      BY <2>1, <2>4, <3>1, <3>2
    <3>. QED BY <2>2, <3>3
  <2>. QED BY <2>3, <2>4
<1>7. Large(t.vertices)
  <2>1. Nat \subseteq T
    <3>. HIDE DEF T
    <3>. QED BY <1>5, <1>6, CountingUp
  <2>2. t.vertices \in T /\ t.vertices \in 0..t.vertices
    BY <2>1
  <2>. QED BY <2>2
<1>8. Stays(t, wave[t.vertices])
  <2>1. /\ Cardinality(wave[t.vertices]) \in Nat
        /\ Cardinality(wave[t.vertices]) <= t.vertices
    BY <1>7, VerticesFinite
  <2>2. ~(t.vertices + 1 <= Cardinality(wave[t.vertices]))
    BY <2>1
  <2>. QED BY <1>7, <2>2
<1>9. ASSUME NEW S, seed \in S, Stays(t, S)
      PROVE  wave[t.vertices] \subseteq S
  <2>. DEFINE U == {n \in Nat : n \in 0..t.vertices => wave[n] \subseteq S}
  <2>1. 0 \in U
    BY <1>1, <1>9
  <2>2. ASSUME NEW n \in Nat, n \in U PROVE n + 1 \in U
    <3>. SUFFICES ASSUME n + 1 \in 0..t.vertices PROVE wave[n + 1] \subseteq S
      OBVIOUS
    <3>1. n \in 0..t.vertices
      OBVIOUS
    <3>2. wave[n] \subseteq S /\ wave[n + 1] = Spread(t, wave[n])
      BY <1>1, <2>2, <3>1
    <3>. QED BY <1>9, <3>2 DEF Spread, Stays
  <2>3. Nat \subseteq U
    <3>. HIDE DEF U
    <3>. QED BY <2>1, <2>2, CountingUp
  <2>4. t.vertices \in U /\ t.vertices \in 0..t.vertices
    BY <2>3
  <2>. QED BY <2>4
<1>. QED BY <1>1, <1>7, <1>8, <1>9

(* What is left when a search has taken its part still holds the whole of  *)
(* every other part.                                                       *)
LEMMA RestStays ==
  ASSUME NEW t, t.vertices \in Nat, NEW v \in Vertices(t),
         NEW S, Stays(t, S)
  PROVE  Stays(t, S \ Flood(t, v))
<1>1. \A a, b \in Vertices(t) : b \in Neighbours(t, a) => a \in Neighbours(t, b)
  <2>1. \A a, b : {a, b} = {b, a}
    OBVIOUS
  <2>. QED BY <2>1 DEF Neighbours
<1>2. Stays(t, Flood(t, v))
  BY FloodIsLeast
<1>3. ASSUME NEW a \in S, a \notin Flood(t, v), NEW b \in Neighbours(t, a)
      PROVE  b \in S /\ b \notin Flood(t, v)
  <2>1. b \in S /\ a \in Vertices(t) /\ b \in Vertices(t)
    BY <1>3 DEF Stays
  <2>2. a \in Neighbours(t, b)
    BY <1>1, <1>3, <2>1
  <2>. QED BY <1>2, <1>3, <2>1, <2>2 DEF Stays
<1>. QED BY <1>3 DEF Stays

LEMMA FloodsMeet ==
  ASSUME NEW t, t.vertices \in Nat, NEW v \in Vertices(t), NEW w \in Flood(t, v)
  PROVE  w \in Vertices(t) /\ Flood(t, w) = Flood(t, v)
<1>1. w \in Vertices(t) /\ Stays(t, Flood(t, v)) /\ v \in Flood(t, v)
  BY FloodIsLeast DEF Stays
<1>2. Flood(t, w) \subseteq Flood(t, v) /\ w \in Flood(t, w)
  BY <1>1, FloodIsLeast
<1>3. v \in Flood(t, w)
  <2>. SUFFICES ASSUME v \notin Flood(t, w) PROVE FALSE
    OBVIOUS
  <2>1. Stays(t, Flood(t, v) \ Flood(t, w))
    BY <1>1, RestStays
  <2>2. v \in Flood(t, v) \ Flood(t, w)
    BY <1>1
  <2>3. Flood(t, v) \subseteq Flood(t, v) \ Flood(t, w)
    BY <2>1, <2>2, FloodIsLeast
  <2>. QED BY <1>2, <2>3
<1>4. Flood(t, v) \subseteq Flood(t, w)
  BY <1>1, <1>3, FloodIsLeast
<1>. QED BY <1>1, <1>2, <1>4

(* No edge leaves a set of vertices iff it holds all their neighbours.     *)
LEMMA StaysIsEdgesStay ==
  ASSUME NEW t \in Topologies, NEW S \in SUBSET Vertices(t)
  PROVE  Stays(t, S) <=> EdgesStay(t, S)
<1>1. \A e \in t.edges : \E a, b \in Vertices(t) : e = {a, b}
  BY TopologyAssumption DEF Vertices
<1>2. ASSUME Stays(t, S), NEW e \in t.edges, NEW a \in e, a \in S
      PROVE  e \subseteq S
  <2>1. PICK x \in Vertices(t), y \in Vertices(t) : e = {x, y}
    BY <1>1
  <2>2. a = x \/ a = y
    BY <1>2, <2>1
  <2>3. CASE a = x
    <3>1. y # x => y \in Neighbours(t, a)
      BY <2>1, <2>3 DEF Neighbours
    <3>. QED BY <1>2, <2>1, <2>3, <3>1 DEF Stays
  <2>4. CASE a = y
    <3>1. {y, x} = e
      BY <2>1
    <3>2. y # x => x \in Neighbours(t, a)
      BY <2>4, <3>1 DEF Neighbours
    <3>. QED BY <1>2, <2>1, <2>4, <3>2 DEF Stays
  <2>. QED BY <2>2, <2>3, <2>4
<1>3. ASSUME EdgesStay(t, S), NEW a \in S, NEW b \in Neighbours(t, a)
      PROVE  b \in S
  <2>1. {a, b} \in t.edges /\ a \in {a, b} \cap S
    BY <1>3 DEF Neighbours
  <2>2. {a, b} \subseteq S
    BY <1>3, <2>1 DEF EdgesStay
  <2>. QED BY <2>2
<1>. QED BY <1>2, <1>3 DEF Stays, EdgesStay

(* A search finds the class of its seed, and no edge leaves it.            *)
LEMMA FloodIsClass ==
  ASSUME NEW t \in Topologies, NEW v \in Vertices(t)
  PROVE  /\ Flood(t, v) = Class(t, v) /\ Flood(t, v) \subseteq Vertices(t)
         /\ EdgesStay(t, Flood(t, v))
<1>1. t.vertices \in Nat
  BY TopologyAssumption
<1>2. \A S \in SUBSET Vertices(t) : Stays(t, S) <=> EdgesStay(t, S)
  BY StaysIsEdgesStay
<1>3. ASSUME NEW w \in Flood(t, v) PROVE w \in Class(t, v)
  <2>1. w \in Vertices(t)
    BY <1>1, FloodsMeet
  <2>2. ASSUME NEW S \in SUBSET Vertices(t), v \in S, EdgesStay(t, S)
        PROVE  w \in S
    BY <1>1, <1>2, <1>3, <2>2, FloodIsLeast
  <2>. QED BY <2>1, <2>2 DEF Class
<1>4. ASSUME NEW w \in Class(t, v) PROVE w \in Flood(t, v)
  <2>1. Flood(t, v) \in SUBSET Vertices(t) /\ Stays(t, Flood(t, v)) /\ v \in Flood(t, v)
    BY <1>1, FloodIsLeast DEF Stays
  <2>2. EdgesStay(t, Flood(t, v))
    BY <1>2, <2>1
  <2>. QED BY <1>4, <2>1, <2>2 DEF Class
<1>5. Flood(t, v) \subseteq Vertices(t) /\ EdgesStay(t, Flood(t, v))
  BY <1>1, <1>2, FloodIsLeast DEF Stays
<1>. QED BY <1>3, <1>4, <1>5

(* The searches one after another, as the recursion of `Found` puts it.    *)
Lowest(S) == CHOOSE v \in S : \A w \in S : v <= w
Search(t, from, unseen) ==
  IF unseen = {} THEN <<>>
  ELSE <<Flood(t, Lowest(unseen))>> \o from[unseen \ Flood(t, Lowest(unseen))]
Upto(t, m) == {S \in SUBSET Vertices(t) : Cardinality(S) <= m}
Searches(t, m, from) == from = [unseen \in Upto(t, m) |-> Search(t, from, unseen)]

LEMMA SearchLeavesFewer ==
  ASSUME NEW t, t.vertices \in Nat, NEW m \in Nat, NEW S \in Upto(t, m + 1),
         S # {}
  PROVE  /\ Lowest(S) \in S /\ Lowest(S) \in Vertices(t)
         /\ S \ Flood(t, Lowest(S)) \in Upto(t, m)
<1>1. S \in SUBSET Vertices(t) /\ Cardinality(S) <= m + 1
  BY DEF Upto
<1>2. Lowest(S) \in S
  <2>1. S \subseteq Nat
    BY <1>1 DEF Vertices
  <2>2. \E x \in S : \A y \in S : x <= y
    BY <2>1, FirstOf
  <2>. QED BY <2>2 DEF Lowest
<1>3. PICK v \in Vertices(t) : v = Lowest(S)
  BY <1>1, <1>2
<1>4. v \in Flood(t, v)
  BY FloodIsLeast
<1>5. S \ Flood(t, v) \subseteq S \ {v}
  BY <1>4
<1>6. IsFiniteSet(S) /\ Cardinality(S) \in Nat
  BY <1>1, VerticesFinite
<1>7. IsFiniteSet(S \ {v}) /\ Cardinality(S \ {v}) = Cardinality(S) - 1
  BY <1>2, <1>3, <1>6, FS_RemoveElement
<1>8. Cardinality(S \ Flood(t, v)) <= Cardinality(S \ {v})
  BY <1>5, <1>7, FS_Subset
<1>9. S \ Flood(t, v) \in SUBSET Vertices(t)
  BY <1>1
<1>10. Cardinality(S \ Flood(t, v)) \in Nat
  BY <1>9, VerticesFinite
<1>11. Cardinality(S \ Flood(t, v)) <= m
  BY <1>1, <1>6, <1>7, <1>8, <1>10
<1>. QED BY <1>1, <1>2, <1>3, <1>9, <1>11 DEF Upto

LEMMA UptoAll ==
  ASSUME NEW t, t.vertices \in Nat
  PROVE  /\ Upto(t, t.vertices) = SUBSET Vertices(t)
         /\ Upto(t, 0) = {{}}
         /\ \A m \in Nat : Upto(t, m) \subseteq Upto(t, m + 1)
<1>1. \A S \in SUBSET Vertices(t) :
        /\ IsFiniteSet(S) /\ Cardinality(S) \in Nat
        /\ Cardinality(S) <= t.vertices
  BY VerticesFinite
<1>2. \A S \in SUBSET Vertices(t) : Cardinality(S) <= 0 <=> S = {}
  BY <1>1, FS_EmptySet
<1>3. Upto(t, 0) = {{}}
  BY <1>2 DEF Upto
<1>4. \A m \in Nat, S \in SUBSET Vertices(t) :
        Cardinality(S) <= m => Cardinality(S) <= m + 1
  BY <1>1
<1>. QED BY <1>1, <1>3, <1>4 DEF Upto

LEMMA SearchesExist ==
  ASSUME NEW t, t.vertices \in Nat, NEW m \in Nat
  PROVE  \E from : Searches(t, m, from)
<1>. DEFINE T == {k \in Nat : \E from : Searches(t, k, from)}
<1>1. 0 \in T
  <2>1. PICK from : from = [unseen \in Upto(t, 0) |-> <<>>]
    OBVIOUS
  <2>2. \A unseen \in Upto(t, 0) : Search(t, from, unseen) = <<>>
    BY UptoAll DEF Search
  <2>3. Searches(t, 0, from)
    BY <2>1, <2>2 DEF Searches
  <2>. QED BY <2>3
<1>2. ASSUME NEW k \in Nat, k \in T PROVE k + 1 \in T
  <2>1. PICK f : Searches(t, k, f)
    BY <1>2
  <2>2. PICK g : g = [unseen \in Upto(t, k + 1) |-> Search(t, f, unseen)]
    OBVIOUS
  <2>3. ASSUME NEW unseen \in Upto(t, k) PROVE g[unseen] = f[unseen]
    <3>1. unseen \in Upto(t, k + 1)
      BY UptoAll
    <3>2. g[unseen] = Search(t, f, unseen)
      BY <2>2, <3>1
    <3>3. f[unseen] = Search(t, f, unseen)
      BY <2>1 DEF Searches
    <3>. QED BY <3>2, <3>3
  <2>4. ASSUME NEW unseen \in Upto(t, k + 1)
        PROVE  Search(t, f, unseen) = Search(t, g, unseen)
    <3>1. CASE unseen = {}
      BY <3>1 DEF Search
    <3>2. CASE unseen # {}
      <4>1. unseen \ Flood(t, Lowest(unseen)) \in Upto(t, k)
        BY <3>2, SearchLeavesFewer
      <4>2. PICK rest \in Upto(t, k) : rest = unseen \ Flood(t, Lowest(unseen))
        BY <4>1
      <4>3. g[rest] = f[rest]
        BY <2>3
      <4>. QED BY <4>2, <4>3 DEF Search
    <3>. QED BY <3>1, <3>2
  <2>5. g = [unseen \in Upto(t, k + 1) |-> Search(t, g, unseen)]
    BY <2>2, <2>4
  <2>. QED BY <2>5 DEF Searches
<1>. HIDE DEF T
<1>3. Nat \subseteq T
  BY <1>1, <1>2, CountingUp
<1>. QED BY <1>3 DEF T

(* A list of all the parts that a set of vertices falls into, each once.   *)
Lists(t, S, list) ==
  /\ list \in Seq(SUBSET Vertices(t))
  /\ \A i \in 1..Len(list) : \E v \in S : list[i] = Flood(t, v)
  /\ \A v \in S : \E i \in 1..Len(list) : list[i] = Flood(t, v)
  /\ \A i, j \in 1..Len(list) : list[i] = list[j] => i = j

LEMMA OneMoreListed ==
  ASSUME NEW t, t.vertices \in Nat, NEW S, Stays(t, S), NEW seed \in S,
         NEW rest, Lists(t, S \ Flood(t, seed), rest)
  PROVE  Lists(t, S, <<Flood(t, seed)>> \o rest)
<1>. DEFINE V == SUBSET Vertices(t)
            list == <<Flood(t, seed)>> \o rest
<1>1. /\ seed \in Vertices(t) /\ Flood(t, seed) \in V /\ seed \in Flood(t, seed)
      /\ S \subseteq Vertices(t)
  BY FloodIsLeast DEF Stays
<1>2. PICK r \in Seq(V) : r = rest
  BY DEF Lists
<1>3. PICK one \in Seq(V) :
        one = <<Flood(t, seed)>> /\ Len(one) = 1 /\ one[1] = Flood(t, seed)
  <2>. HIDE DEF V
  <2>1. <<Flood(t, seed)>> \in Seq(V)
    BY <1>1
  <2>2. /\ Len(<<Flood(t, seed)>>) = 1
        /\ <<Flood(t, seed)>>[1] = Flood(t, seed)
    OBVIOUS
  <2>. QED BY <2>1, <2>2
<1>. HIDE DEF V
<1>4. /\ one \o r \in Seq(V)
      /\ Len(one) \in Nat /\ Len(r) \in Nat
      /\ Len(one \o r) = Len(one) + Len(r)
      /\ \A i \in 1..Len(one) : (one \o r)[i] = one[i]
      /\ \A i \in Len(one) + 1 .. Len(one) + Len(r) :
           (one \o r)[i] = r[i - Len(one)]
  BY Joined
<1>5. PICK n \in Nat :
        /\ n = Len(r) /\ Len(list) = n + 1 /\ list \in Seq(V)
        /\ list[1] = Flood(t, seed)
        /\ \A i \in 1..n : list[i + 1] = r[i]
  <2>1. one \o r = list
    BY <1>2, <1>3
  <2>2. list[1] = Flood(t, seed)
    <3>1. 1 \in 1..Len(one)
      BY <1>3
    <3>. QED BY <1>3, <1>4, <2>1, <3>1
  <2>3. ASSUME NEW i \in 1..Len(r) PROVE list[i + 1] = r[i]
    <3>1. i + 1 \in Len(one) + 1 .. Len(one) + Len(r) /\ (i + 1) - Len(one) = i
      BY <1>3, <1>4
    <3>. QED BY <1>4, <2>1, <3>1
  <2>4. Len(list) = Len(r) + 1
    BY <1>3, <1>4, <2>1
  <2>. QED BY <1>4, <2>1, <2>2, <2>3, <2>4
<1>. HIDE DEF list
<1>6. /\ \A i \in 1..n : \E v \in S \ Flood(t, seed) : r[i] = Flood(t, v)
      /\ \A v \in S \ Flood(t, seed) : \E i \in 1..n : r[i] = Flood(t, v)
      /\ \A i, j \in 1..n : r[i] = r[j] => i = j
  BY <1>2, <1>5 DEF Lists
<1>7. \A i \in 1..n : r[i] # Flood(t, seed)
  <2>. SUFFICES ASSUME NEW i \in 1..n PROVE r[i] # Flood(t, seed)
    OBVIOUS
  <2>1. PICK v \in S \ Flood(t, seed) : r[i] = Flood(t, v)
    BY <1>6
  <2>2. v \in Flood(t, v)
    BY <1>1, <2>1, FloodIsLeast
  <2>. QED BY <2>1, <2>2
<1>8. \A i \in 1..(n + 1) : i = 1 \/ (i - 1 \in 1..n /\ list[i] = r[i - 1])
  <2>. SUFFICES ASSUME NEW i \in 1..(n + 1), i # 1
                PROVE  i - 1 \in 1..n /\ list[i] = r[i - 1]
    OBVIOUS
  <2>1. i - 1 \in 1..n /\ (i - 1) + 1 = i
    OBVIOUS
  <2>. QED BY <1>5, <2>1
<1>9. ASSUME NEW i \in 1..(n + 1)
      PROVE  \E v \in S : list[i] = Flood(t, v)
  <2>1. CASE i = 1
    BY <1>5, <2>1
  <2>2. CASE i # 1
    <3>1. i - 1 \in 1..n /\ list[i] = r[i - 1]
      BY <1>8, <2>2
    <3>2. \E v \in S \ Flood(t, seed) : r[i - 1] = Flood(t, v)
      BY <1>6, <3>1
    <3>. QED BY <3>1, <3>2
  <2>. QED BY <2>1, <2>2
<1>10. ASSUME NEW v \in S
       PROVE  \E i \in 1..(n + 1) : list[i] = Flood(t, v)
  <2>1. CASE v \in Flood(t, seed)
    <3>1. Flood(t, v) = Flood(t, seed)
      BY <1>1, <2>1, FloodsMeet
    <3>2. 1 \in 1..(n + 1)
      OBVIOUS
    <3>. QED BY <1>5, <3>1, <3>2
  <2>2. CASE v \notin Flood(t, seed)
    <3>1. PICK i \in 1..n : r[i] = Flood(t, v)
      BY <1>6, <2>2
    <3>2. i + 1 \in 1..(n + 1) /\ list[i + 1] = r[i]
      BY <1>5
    <3>. QED BY <3>1, <3>2
  <2>. QED BY <2>1, <2>2
<1>11. ASSUME NEW i \in 1..(n + 1), NEW j \in 1..(n + 1), list[i] = list[j]
       PROVE  i = j
  <2>1. CASE i = 1 /\ j # 1
    BY <1>5, <1>7, <1>8, <1>11, <2>1
  <2>2. CASE i # 1 /\ j = 1
    BY <1>5, <1>7, <1>8, <1>11, <2>2
  <2>3. CASE i # 1 /\ j # 1
    <3>1. /\ i - 1 \in 1..n /\ j - 1 \in 1..n /\ r[i - 1] = r[j - 1]
      BY <1>8, <1>11, <2>3
    <3>2. i - 1 = j - 1
      BY <1>6, <3>1
    <3>. QED BY <3>2
  <2>. QED BY <2>1, <2>2, <2>3
<1>. QED BY <1>5, <1>9, <1>10, <1>11 DEF Lists, V, list

LEMMA FoundListsAll ==
  ASSUME NEW t, t.vertices \in Nat
  PROVE  Lists(t, Vertices(t), Found(t))
<1>1. PICK from : /\ from = CHOOSE f : Searches(t, t.vertices, f)
                  /\ Searches(t, t.vertices, from)
  BY SearchesExist
<1>2. Found(t) = from[Vertices(t)]
  <2>1. Found(t) = (CHOOSE f : f = [unseen \in SUBSET Vertices(t) |->
                                      Search(t, f, unseen)])[Vertices(t)]
    BY DEF Found, Search, Lowest
  <2>. QED BY <1>1, <2>1, UptoAll DEF Searches
<1>3. \A S \in SUBSET Vertices(t) : from[S] = Search(t, from, S)
  BY <1>1, UptoAll DEF Searches
<1>. DEFINE T == {m \in Nat : \A S \in Upto(t, m) :
                                Stays(t, S) => Lists(t, S, from[S])}
<1>4. Lists(t, {}, from[{}])
  <2>1. PICK none \in Seq(SUBSET Vertices(t)) : none = <<>> /\ Len(none) = 0
    <3>1. <<>> \in Seq(SUBSET Vertices(t)) /\ Len(<<>>) = 0
      BY EmptySeq
    <3>. QED BY <3>1
  <2>2. from[{}] = none
    BY <1>3, <2>1 DEF Search
  <2>. QED BY <2>1, <2>2 DEF Lists
<1>5. 0 \in T
  BY <1>4, UptoAll
<1>6. ASSUME NEW m \in Nat, m \in T PROVE m + 1 \in T
  <2>. SUFFICES ASSUME NEW S \in Upto(t, m + 1), Stays(t, S)
                PROVE  Lists(t, S, from[S])
    OBVIOUS
  <2>1. CASE S = {}
    BY <1>4, <2>1
  <2>2. CASE S # {}
    <3>1. /\ Lowest(S) \in S /\ Lowest(S) \in Vertices(t)
          /\ S \ Flood(t, Lowest(S)) \in Upto(t, m)
      BY <2>2, SearchLeavesFewer
    <3>2. Stays(t, S \ Flood(t, Lowest(S)))
      BY <3>1, RestStays
    <3>3. Lists(t, S \ Flood(t, Lowest(S)), from[S \ Flood(t, Lowest(S))])
      BY <1>6, <3>1, <3>2
    <3>4. Lists(t, S, <<Flood(t, Lowest(S))>> \o from[S \ Flood(t, Lowest(S))])
      BY <3>1, <3>3, OneMoreListed
    <3>5. S \in SUBSET Vertices(t)
      BY DEF Stays
    <3>6. from[S] = <<Flood(t, Lowest(S))>> \o from[S \ Flood(t, Lowest(S))]
      BY <1>3, <2>2, <3>5 DEF Search
    <3>. QED BY <3>4, <3>6
  <2>. QED BY <2>1, <2>2
<1>7. Nat \subseteq T
  <2>. HIDE DEF T
  <2>. QED BY <1>5, <1>6, CountingUp
<1>8. Stays(t, Vertices(t)) /\ Vertices(t) \in Upto(t, t.vertices)
  BY UptoAll DEF Stays, Neighbours
<1>. QED BY <1>2, <1>7, <1>8

(* Whatever is ordered strictly and totally can be sorted: each goes where *)
(* the number of those before it says.                                     *)
LEMMA Sortable ==
  ASSUME NEW n \in Nat, NEW R,
         \A i, j \in 1..n : i # j => <<i, j>> \in R \/ <<j, i>> \in R,
         \A i, j, k \in 1..n :
           <<i, j>> \in R /\ <<j, k>> \in R => <<i, k>> \in R,
         \A i \in 1..n : <<i, i>> \notin R
  PROVE  \E p \in [1..n -> 1..n] :
           \A i, j \in 1..n : i < j => <<p[i], p[j]>> \in R
<1>. DEFINE S == 1..n
            Below(i) == {j \in S : <<j, i>> \in R}
<1>1. IsFiniteSet(S) /\ Cardinality(S) = n
  <2>1. IsFiniteSet(1..n) /\ Cardinality(1..n) = IF 1 > n THEN 0 ELSE n - 1 + 1
    BY FS_Interval
  <2>. QED BY <2>1
<1>2. \A i \in S : /\ IsFiniteSet(Below(i)) /\ Cardinality(Below(i)) \in Nat
                   /\ Cardinality(Below(i)) < n
  <2>. SUFFICES ASSUME NEW i \in S
                PROVE  /\ IsFiniteSet(Below(i)) /\ Cardinality(Below(i)) \in Nat
                       /\ Cardinality(Below(i)) < n
    OBVIOUS
  <2>1. Below(i) \in SUBSET S /\ Below(i) # S
    OBVIOUS
  <2>. HIDE DEF Below, S
  <2>2. IsFiniteSet(Below(i)) /\ Cardinality(Below(i)) \in Nat
    BY <1>1, <2>1, FS_Subset, FS_CardinalityType
  <2>3. Cardinality(Below(i)) <= n /\ Cardinality(Below(i)) # n
    BY <1>1, <2>1, FS_Subset
  <2>. QED BY <2>2, <2>3
<1>3. \A i, k \in S : <<i, k>> \in R => Cardinality(Below(i)) < Cardinality(Below(k))
  <2>. SUFFICES ASSUME NEW i \in S, NEW k \in S, <<i, k>> \in R
                PROVE  Cardinality(Below(i)) < Cardinality(Below(k))
    OBVIOUS
  <2>1. Below(i) \in SUBSET Below(k)
    OBVIOUS
  <2>2. i \in Below(k) /\ i \notin Below(i)
    OBVIOUS
  <2>. HIDE DEF Below
  <2>3. /\ Cardinality(Below(i)) <= Cardinality(Below(k))
        /\ Cardinality(Below(k)) # Cardinality(Below(i))
    BY <1>2, <2>1, <2>2, FS_Subset
  <2>. QED BY <1>2, <2>3
<1>. HIDE DEF Below
<1>4. PICK place : place = [i \in S |-> Cardinality(Below(i)) + 1]
  OBVIOUS
<1>5. place \in [S -> S] /\ \A i, k \in S : <<i, k>> \in R => place[i] < place[k]
  <2>1. \A i \in S : Cardinality(Below(i)) + 1 \in S
    BY <1>2
  <2>2. \A i, k \in S : <<i, k>> \in R =>
          Cardinality(Below(i)) + 1 < Cardinality(Below(k)) + 1
    BY <1>2, <1>3
  <2>. HIDE DEF S
  <2>. QED BY <1>4, <2>1, <2>2
<1>6. \A i, k \in S : place[i] = place[k] => i = k
  <2>. SUFFICES ASSUME NEW i \in S, NEW k \in S, place[i] = place[k], i # k
                PROVE  FALSE
    OBVIOUS
  <2>1. place[i] \in Nat /\ place[k] \in Nat
    BY <1>5
  <2>2. <<i, k>> \in R \/ <<k, i>> \in R
    OBVIOUS
  <2>3. place[i] < place[k] \/ place[k] < place[i]
    <3>. HIDE DEF S
    <3>. QED BY <1>5, <2>2
  <2>. QED BY <2>1, <2>3
<1>7. \A k \in S : \E i \in S : place[i] = k
  <2>. HIDE DEF S
  <2>1. place \in Injection(S, S)
    BY <1>5, <1>6 DEF Injection, IsInjective
  <2>2. place \in Surjection(S, S)
    BY <1>1, <2>1, FS_Injection
  <2>. QED BY <2>2 DEF Surjection
<1>8. PICK p : p = [k \in S |-> CHOOSE i \in S : place[i] = k]
  OBVIOUS
<1>9. \A k \in S : p[k] \in S /\ place[p[k]] = k
  <2>. HIDE DEF S
  <2>. QED BY <1>7, <1>8
<1>10. ASSUME NEW i \in S, NEW j \in S, i < j
       PROVE  <<p[i], p[j]>> \in R
  <2>1. place[p[i]] = i /\ place[p[j]] = j /\ p[i] \in S /\ p[j] \in S
    BY <1>9
  <2>2. p[i] # p[j]
    BY <1>10, <2>1
  <2>3. ~(<<p[j], p[i]>> \in R)
    <3>1. ~(place[p[j]] < place[p[i]])
      BY <1>10, <2>1
    <3>. QED BY <1>5, <2>1, <3>1
  <2>. QED BY <2>1, <2>2, <2>3
<1>11. p \in [S -> S]
  BY <1>8, <1>9
<1>. QED BY <1>10, <1>11

(* What `Found` lists: every class, each once, and no edge leaves it.      *)
LEMMA FoundIsClasses ==
  ASSUME NEW t \in Topologies
  PROVE  /\ Found(t) \in Seq(SUBSET Vertices(t))
         /\ Cardinality(Classes(t)) = Len(Found(t))
         /\ \A i \in 1..Len(Found(t)) :
              Found(t)[i] \in Classes(t) /\ EdgesStay(t, Found(t)[i])
         /\ \A i, j \in 1..Len(Found(t)) : Found(t)[i] = Found(t)[j] => i = j
<1>1. t.vertices \in Nat
  BY TopologyAssumption
<1>2. PICK list \in Seq(SUBSET Vertices(t)) :
        list = Found(t) /\ Lists(t, Vertices(t), list)
  <2>1. Lists(t, Vertices(t), Found(t))
    BY <1>1, FoundListsAll
  <2>. QED BY <2>1 DEF Lists
<1>3. PICK n \in Nat : n = Len(list) /\ DOMAIN list = 1..n
  OBVIOUS
<1>4. /\ \A i \in 1..n : \E v \in Vertices(t) : list[i] = Flood(t, v)
      /\ \A v \in Vertices(t) : \E i \in 1..n : list[i] = Flood(t, v)
      /\ \A i, j \in 1..n : list[i] = list[j] => i = j
  BY <1>2, <1>3 DEF Lists
<1>5. \A i \in 1..n : list[i] \in Classes(t) /\ EdgesStay(t, list[i])
  BY <1>4, FloodIsClass DEF Classes
<1>6. \A C \in Classes(t) : \E i \in 1..n : list[i] = C
  BY <1>4, FloodIsClass DEF Classes
<1>7. list \in Bijection(1..n, Classes(t))
  <2>1. list \in [1..n -> Classes(t)]
    <3>1. list = [i \in 1..n |-> list[i]]
      BY <1>3
    <3>. QED BY <1>5, <3>1
  <2>2. list \in Injection(1..n, Classes(t))
    BY <1>4, <2>1 DEF Injection, IsInjective
  <2>3. list \in Surjection(1..n, Classes(t))
    BY <1>6, <2>1 DEF Surjection
  <2>. QED BY <2>2, <2>3 DEF Bijection
<1>8. Cardinality(Classes(t)) = n
  BY <1>7, FS_CountingElements DEF ExistsBijection
<1>. QED BY <1>2, <1>3, <1>4, <1>5, <1>8

(* What ComponentsRight says of an answer about a topology.                *)
AnswerRight(t, answer) ==
  /\ answer.count = Cardinality(Classes(t))
  /\ answer.truncated <=> Len(answer.components) < answer.count
  /\ \A i \in DOMAIN answer.components :
       /\ answer.components[i].vertices \in Classes(t)
       /\ answer.components[i].edges =
            {e \in t.edges : e \cap answer.components[i].vertices # {}}
  /\ \A i, j \in DOMAIN answer.components : i < j =>
       /\ answer.components[i].vertices # answer.components[j].vertices
       /\ Cardinality(answer.components[i].vertices)
            >= Cardinality(answer.components[j].vertices)

(* The order that the records are sorted into.                             *)
Sooner(kept, i, j) ==
  \/ Cardinality(kept[i]) > Cardinality(kept[j])
  \/ Cardinality(kept[i]) = Cardinality(kept[j]) /\ i < j
Ordering(kept) ==
  CHOOSE p \in [DOMAIN kept -> DOMAIN kept] :
    \A i, j \in DOMAIN kept : i < j => Sooner(kept, p[i], p[j])

LEMMA OrderingSorts ==
  ASSUME NEW n \in Nat, NEW kept, DOMAIN kept = 1..n,
         \A i \in 1..n : Cardinality(kept[i]) \in Nat
  PROVE  /\ Ordering(kept) \in [1..n -> 1..n]
         /\ \A i, j \in 1..n : i < j =>
              Sooner(kept, Ordering(kept)[i], Ordering(kept)[j])
<1>. DEFINE R == {q \in (1..n) \X (1..n) : Sooner(kept, q[1], q[2])}
<1>1. \A i, j \in 1..n : <<i, j>> \in R <=> Sooner(kept, i, j)
  OBVIOUS
<1>2. \A i, j \in 1..n : i # j => Sooner(kept, i, j) \/ Sooner(kept, j, i)
  BY DEF Sooner
<1>3. \A i, j, k \in 1..n :
        Sooner(kept, i, j) /\ Sooner(kept, j, k) => Sooner(kept, i, k)
  BY DEF Sooner
<1>4. \A i \in 1..n : ~Sooner(kept, i, i)
  BY DEF Sooner
<1>. HIDE DEF R
<1>5. /\ \A i, j \in 1..n : i # j => <<i, j>> \in R \/ <<j, i>> \in R
      /\ \A i, j, k \in 1..n :
           <<i, j>> \in R /\ <<j, k>> \in R => <<i, k>> \in R
      /\ \A i \in 1..n : <<i, i>> \notin R
  BY <1>1, <1>2, <1>3, <1>4
<1>6. \E p \in [1..n -> 1..n] :
        \A i, j \in 1..n : i < j => <<p[i], p[j]>> \in R
  BY <1>5, Sortable
<1>7. \E p \in [1..n -> 1..n] :
        \A i, j \in 1..n : i < j => Sooner(kept, p[i], p[j])
  BY <1>1, <1>6
<1>. QED BY <1>7 DEF Ordering

(* An edge is in a class as soon as it touches it.                         *)
LEMMA InsideIsTouching ==
  ASSUME NEW t \in Topologies, NEW C, EdgesStay(t, C)
  PROVE  Inside(t, C) = {e \in t.edges : e \cap C # {}}
<1>1. \A e \in t.edges : e # {}
  BY TopologyAssumption
<1>2. ASSUME NEW e \in t.edges PROVE e \subseteq C <=> e \cap C # {}
  BY <1>1 DEF EdgesStay
<1>. QED BY <1>2 DEF Inside

LEMMA ComponentsAnswer ==
  ASSUME NEW t \in Topologies, NEW max \in Nat
  PROVE  AnswerRight(t, Components(t, max))
<1>0. PICK P : P = SUBSET Vertices(t)
  OBVIOUS
<1>1. PICK found \in Seq(P), all \in Nat :
        /\ found = Found(t) /\ all = Len(found)
        /\ Cardinality(Classes(t)) = all
        /\ \A i \in 1..all : found[i] \in Classes(t) /\ EdgesStay(t, found[i])
        /\ \A i, j \in 1..all : found[i] = found[j] => i = j
  <2>1. PICK found \in Seq(P) : found = Found(t)
    BY <1>0, FoundIsClasses
  <2>2. Len(found) \in Nat
    OBVIOUS
  <2>. QED BY <2>1, <2>2, FoundIsClasses
<1>2. PICK n \in Nat : n = AtMost(max, all) /\ n <= all
  BY DEF AtMost
<1>3. PICK kept \in Seq(P) :
        /\ kept = SubSeq(found, 1, n) /\ Len(kept) = n /\ DOMAIN kept = 1..n
        /\ \A i \in 1..n : kept[i] = found[i]
  <2>1. n \in 0..Len(found)
    BY <1>1, <1>2
  <2>2. /\ SubSeq(found, 1, n) \in Seq(P)
        /\ Len(SubSeq(found, 1, n)) = n
        /\ \A i \in 1..n : SubSeq(found, 1, n)[i] = found[i]
    BY <2>1, CutInTwo
  <2>3. PICK kept \in Seq(P) : kept = SubSeq(found, 1, n)
    BY <2>2
  <2>4. Len(kept) = n /\ \A i \in 1..n : kept[i] = found[i]
    BY <2>2, <2>3
  <2>5. DOMAIN kept = 1..n
    BY <2>4
  <2>. QED BY <2>3, <2>4, <2>5
<1>4. /\ \A i \in 1..n : /\ kept[i] \in Classes(t) /\ EdgesStay(t, kept[i])
                         /\ Cardinality(kept[i]) \in Nat
      /\ \A i, j \in 1..n : kept[i] = kept[j] => i = j
  <2>1. \A i \in 1..n : i \in 1..all
    BY <1>2
  <2>2. t.vertices \in Nat
    BY TopologyAssumption
  <2>3. \A i \in 1..n : kept[i] \in SUBSET Vertices(t)
    BY <1>0, <1>3
  <2>4. \A i \in 1..n : Cardinality(kept[i]) \in Nat
    BY <2>2, <2>3, VerticesFinite
  <2>. QED BY <1>1, <1>3, <2>1, <2>4
<1>5. PICK order \in [1..n -> 1..n] :
        /\ order = Ordering(kept)
        /\ \A i, j \in 1..n : i < j => Sooner(kept, order[i], order[j])
  BY <1>3, <1>4, OrderingSorts
<1>6. PICK given : given = [i \in DOMAIN order |->
                              [vertices |-> kept[order[i]],
                               edges |-> Inside(t, kept[order[i]])]]
  OBVIOUS
<1>7. Components(t, max) = [count |-> all, truncated |-> all > n,
                            components |-> given]
  <2>. DEFINE K == SubSeq(Found(t), 1, AtMost(max, Len(Found(t))))
  <2>1. Components(t, max) =
          [count |-> Len(Found(t)), truncated |-> Len(Found(t)) > Len(K),
           components |-> [i \in DOMAIN Ordering(K) |->
                             [vertices |-> K[Ordering(K)[i]],
                              edges |-> Inside(t, K[Ordering(K)[i]])]]]
    BY DEF Components, Ordering, Sooner
  <2>2. K = kept /\ Len(Found(t)) = all
    BY <1>1, <1>2, <1>3
  <2>. HIDE DEF K
  <2>3. Ordering(K) = order /\ Len(K) = n
    BY <1>3, <1>5, <2>2
  <2>. QED BY <1>6, <2>1, <2>2, <2>3
<1>8. DOMAIN given = 1..n /\ Len(given) = n
  <2>1. given \in [1..n -> {given[i] : i \in 1..n}]
    BY <1>6
  <2>. QED BY <2>1, ASequence
<1>9. \A i \in 1..n : /\ order[i] \in 1..n
                      /\ given[i].vertices = kept[order[i]]
                      /\ given[i].edges = Inside(t, kept[order[i]])
  BY <1>6
<1>10. ASSUME NEW i \in 1..n
       PROVE  /\ given[i].vertices \in Classes(t)
              /\ given[i].edges = {e \in t.edges : e \cap given[i].vertices # {}}
  <2>1. PICK C : C = kept[order[i]] /\ C \in Classes(t) /\ EdgesStay(t, C)
    BY <1>4, <1>9
  <2>2. given[i].vertices = C /\ given[i].edges = Inside(t, C)
    BY <1>9, <2>1
  <2>. QED BY <2>1, <2>2, InsideIsTouching
<1>11. ASSUME NEW i \in 1..n, NEW j \in 1..n, i < j
       PROVE  /\ given[i].vertices # given[j].vertices
              /\ Cardinality(given[i].vertices) >= Cardinality(given[j].vertices)
  <2>1. PICK a \in 1..n, b \in 1..n :
          a = order[i] /\ b = order[j] /\ Sooner(kept, a, b)
    BY <1>5, <1>9, <1>11
  <2>2. PICK x \in Nat, y \in Nat :
          x = Cardinality(kept[a]) /\ y = Cardinality(kept[b])
    BY <1>4
  <2>3. x > y \/ (x = y /\ a < b)
    BY <2>1, <2>2 DEF Sooner
  <2>4. x >= y
    BY <2>3
  <2>5. a # b
    <3>1. CASE x > y
      <4>1. x # y
        BY <3>1
      <4>. QED BY <2>2, <4>1
    <3>2. CASE a < b
      BY <3>2
    <3>. QED BY <2>3, <3>1, <3>2
  <2>6. kept[a] # kept[b]
    BY <1>4, <2>5
  <2>7. given[i].vertices = kept[a] /\ given[j].vertices = kept[b]
    BY <1>9, <2>1
  <2>. QED BY <2>2, <2>4, <2>6, <2>7
<1>12. (all > n) <=> n < all
  OBVIOUS
<1>13. PICK answer : /\ answer = Components(t, max)
                     /\ answer.count = all /\ (answer.truncated <=> n < all)
                     /\ answer.components = given
  <2>1. PICK answer : /\ answer = [count |-> all, truncated |-> all > n,
                                  components |-> given]
    OBVIOUS
  <2>2. /\ answer.count = all /\ (answer.truncated <=> all > n)
        /\ answer.components = given
    BY <2>1
  <2>. QED BY <1>7, <1>12, <2>1, <2>2
<1>14. AnswerRight(t, answer)
  <2>1. answer.count = Cardinality(Classes(t))
    BY <1>1, <1>13
  <2>2. answer.truncated <=> Len(answer.components) < answer.count
    BY <1>8, <1>13
  <2>3. DOMAIN answer.components = 1..n /\ answer.components = given
    BY <1>8, <1>13
  <2>4. \A i \in DOMAIN answer.components :
          /\ answer.components[i].vertices \in Classes(t)
          /\ answer.components[i].edges =
               {e \in t.edges : e \cap answer.components[i].vertices # {}}
    BY <1>10, <2>3
  <2>5. \A i, j \in DOMAIN answer.components : i < j =>
          /\ answer.components[i].vertices # answer.components[j].vertices
          /\ Cardinality(answer.components[i].vertices)
               >= Cardinality(answer.components[j].vertices)
    BY <1>11, <2>3
  <2>. QED BY <2>1, <2>2, <2>4, <2>5 DEF AnswerRight
<1>. QED BY <1>13, <1>14

(* Listing.  An answer was given at a revision that the mesh has, or had,  *)
(* and at the one it has says what there is, unless the user edited it.    *)
ListInv ==
  /\ DOMAIN listing = DOMAIN NoListing
  /\ listing.rev \in Int
  /\ ~listing.unnoticed => listing.rev <= mesh.rev
  /\ ComponentsRight

LEMMA ListInitInv == ReadInit => ListInv
<1>. SUFFICES ASSUME ReadInit PROVE ListInv
  OBVIOUS
<1>1. PICK t \in Topologies : mesh = [rev |-> 0, topo |-> t]
  BY DEF ReadInit
<1>2. mesh.rev = 0
  BY <1>1
<1>3. listing = NoListing
  BY DEF ReadInit
<1>4. listing.rev = -1
  BY <1>3 DEF NoListing
<1>5. ComponentsRight
  BY <1>3 DEF ComponentsRight
<1>. QED BY <1>2, <1>3, <1>4, <1>5 DEF ListInv

LEMMA ListNextInv == MeshInv /\ ListInv /\ [ReadNext]_readVars => ListInv'
<1>. SUFFICES ASSUME MeshInv, ListInv, [ReadNext]_readVars PROVE ListInv'
  OBVIOUS
<1>1. /\ mesh.rev \in Nat /\ mesh.topo \in Topologies
      /\ DOMAIN listing = DOMAIN NoListing /\ listing.rev \in Int
      /\ ~listing.unnoticed => listing.rev <= mesh.rev
      /\ ComponentsRight
  BY LimitAssumption DEF MeshInv, Meshes, ListInv
<1>2. ASSUME UNCHANGED <<mesh, listing>> PROVE ListInv'
  BY <1>1, <1>2 DEF ListInv, ComponentsRight
<1>3. CASE UNCHANGED readVars
  BY <1>2, <1>3 DEF readVars
<1>4. ASSUME NEW offset \in Offsets, NEW limit \in Limits,
             FirstPage(offset, limit)
      PROVE  ListInv'
  BY <1>2, <1>4 DEF FirstPage
<1>5. ASSUME NEW limit \in Limits, NextPage(limit) PROVE ListInv'
  BY <1>2, <1>5 DEF NextPage
<1>6. ASSUME listing' = NoListing, mesh'.rev \in Nat PROVE ListInv'
  <2>1. listing'.rev = -1
    BY <1>6 DEF NoListing
  <2>2. ComponentsRight'
    BY <1>6 DEF ComponentsRight
  <2>. QED BY <1>6, <2>1, <2>2 DEF ListInv
<1>7. CASE StartAgain
  BY <1>1, <1>6, <1>7 DEF StartAgain
<1>8. ASSUME NEW max \in Limits, ListComponents(max) PROVE ListInv'
  <2>1. PICK most \in Nat : most = AtLeast(1, AtMost(ListLimit, max))
    BY <1>8, LimitAssumption DEF AtLeast, AtMost
  <2>2. PICK answer : /\ answer = Components(mesh.topo, most)
                      /\ AnswerRight(mesh.topo, answer)
    BY <1>1, ComponentsAnswer
  <2>3. /\ listing' = [rev |-> mesh.rev, unnoticed |-> FALSE,
                       count |-> answer.count, truncated |-> answer.truncated,
                       components |-> answer.components]
        /\ mesh' = mesh
    BY <1>8, <2>1, <2>2 DEF ListComponents
  <2>4. /\ DOMAIN listing' = DOMAIN NoListing /\ listing'.rev = mesh.rev
        /\ listing'.count = answer.count
        /\ listing'.truncated = answer.truncated
        /\ listing'.components = answer.components
    BY <2>3 DEF NoListing
  <2>5. AnswerRight(mesh.topo, listing)'
    BY <2>2, <2>3, <2>4 DEF AnswerRight
  <2>6. ComponentsRight'
    BY <2>5 DEF ComponentsRight, AnswerRight
  <2>. QED BY <1>1, <2>3, <2>4, <2>6 DEF ListInv
<1>9. ASSUME NEW t \in Topologies, Rebuild(t) PROVE ListInv'
  <2>1. /\ mesh' = [rev |-> mesh.rev + 1, topo |-> t] /\ mesh.rev < MaxRev
        /\ listing' = listing
    BY <1>9 DEF Rebuild, NextRevision
  <2>2. mesh'.rev = mesh.rev + 1
    BY <2>1
  <2>3. ~listing.unnoticed => listing'.rev <= mesh'.rev /\ listing'.rev # mesh'.rev
    BY <1>1, <2>1, <2>2
  <2>4. ComponentsRight'
    BY <2>1, <2>3 DEF ComponentsRight
  <2>. QED BY <1>1, <2>1, <2>3, <2>4 DEF ListInv
<1>10. ASSUME Unnoticed, mesh'.rev \in Nat PROVE ListInv'
  <2>1. listing' = [listing EXCEPT !.unnoticed = listing # NoListing]
    BY <1>10 DEF Unnoticed
  <2>2. DOMAIN listing' = DOMAIN NoListing /\ listing'.rev = listing.rev
    BY <1>1, <2>1
  <2>3. CASE listing = NoListing
    <3>1. listing' = NoListing
      BY <2>1, <2>3 DEF NoListing
    <3>. QED BY <1>6, <1>10, <3>1
  <2>4. CASE listing # NoListing
    <3>1. "unnoticed" \in DOMAIN listing
      BY <1>1 DEF NoListing
    <3>2. listing'.unnoticed
      BY <2>1, <2>4, <3>1
    <3>3. ComponentsRight'
      BY <3>2 DEF ComponentsRight
    <3>. QED BY <1>1, <2>2, <3>2, <3>3 DEF ListInv
  <2>. QED BY <2>3, <2>4
<1>11. mesh'.rev \in Nat
  BY MeshNextInv, LimitAssumption DEF MeshInv, Meshes
<1>12. ASSUME NEW t \in Topologies, RecalcNormals(t) \/ UserEdits(t)
       PROVE  ListInv'
  BY <1>10, <1>11, <1>12 DEF RecalcNormals, UserEdits
<1>13. CASE Restore
  BY <1>10, <1>11, <1>13 DEF Restore
<1>. QED BY <1>3, <1>4, <1>5, <1>7, <1>8, <1>9, <1>12, <1>13 DEF ReadNext

-----------------------------------------------------------------------------
(* Borrowing.  A call has read what it is to give back before it assigns   *)
(* anything, and assigns only what its `finally` gives back.               *)
Viewing ==
  {[field |-> "shading", value |-> s] : s \in Shadings}
    \cup {[field |-> "overlays", value |-> b] : b \in BOOLEAN}
    \cup {[field |-> "file", value |-> "ours"]}

Overriding ==
  {[field |-> "mode", value |-> ObjectMode]}
    \cup {[field |-> "selected", value |-> {o}] : o \in Solids}
    \cup {[field |-> "active", value |-> o] : o \in Solids}

Assignments(method) == IF method = "apply" THEN Overriding ELSE Viewing

Calls == [method : {"none", "capture", "bundle", "apply"},
          step : {"idle", "borrow", "finally"},
          plan : Seq(Viewing \cup Overriding), saved : Ui,
          passes : SUBSET Passes, color : Shadings, failed : BOOLEAN,
          refused : BOOLEAN]

SameView(u, w) ==
  u.shading = w.shading /\ u.overlays = w.overlays /\ u.file = w.file
SameFocus(u, w) ==
  u.mode = w.mode /\ u.active = w.active /\ u.selected = w.selected

Rested ==
  /\ buffers = 0 /\ ui \in UserUi
  /\ SameView(ui, before) /\ ui.selected = before.selected
  /\ ui.active # before.active => call.method = "apply" /\ before.active = None
  /\ ui.mode # before.mode =>
       /\ call.method = "apply" /\ ui.mode = ObjectMode
       /\ IF before.mode \in Settable THEN call.refused ELSE call.failed

Busy ==
  /\ buffers = IF call.method = "bundle" THEN 1 ELSE 0
  /\ call.method # "none"
  /\ call.plan \in Seq(Assignments(call.method))
  /\ SameView(call.saved, before) /\ SameFocus(call.saved, before)
  /\ call.method = "apply" =>
       SameView(ui, before) /\ ui.mode \in {before.mode, ObjectMode}
  /\ call.method # "apply" => SameFocus(ui, before)

CaptureInv ==
  /\ ui \in Ui /\ before \in UserUi /\ call \in Calls
  /\ Idle => Rested
  /\ ~Idle => Busy

LEMMA CaptureInitInv == CaptureInit => CaptureInv
<1>. SUFFICES ASSUME CaptureInit PROVE CaptureInv
  OBVIOUS
<1>1. /\ ui \in UserUi /\ before = ui /\ buffers = 0
      /\ ui \in Ui /\ ui.shading \in Shadings
  BY DEF CaptureInit, UserUi, Ui
<1>2. call = [method |-> "none", step |-> "idle", plan |-> <<>>, saved |-> ui,
              passes |-> {}, color |-> ui.shading, failed |-> FALSE,
              refused |-> FALSE]
  BY DEF CaptureInit, NoCall
<1>3. <<>> \in Seq(Viewing \cup Overriding)
  BY EmptySeq
<1>4. call \in Calls /\ call.step = "idle" /\ call.method = "none"
  BY <1>1, <1>2, <1>3 DEF Calls
<1>. QED BY <1>1, <1>4 DEF CaptureInv, Idle, Rested, SameView

(* A call has just come.                                                   *)
LEMMA CallInv ==
  ASSUME CaptureInv, Idle, NEW method \in {"capture", "bundle", "apply"},
         NEW plan \in Seq(Assignments(method)), NEW passes \in SUBSET Passes,
         call' = Call(method, plan, passes), before' = ui, ui' = ui,
         buffers' = IF method = "bundle" THEN buffers + 1 ELSE buffers
  PROVE  CaptureInv'
<1>1. /\ ui \in Ui /\ ui \in UserUi /\ buffers = 0 /\ ui.shading \in Shadings
  BY DEF CaptureInv, Rested, Ui
<1>2. Assignments(method) \subseteq Viewing \cup Overriding
  BY DEF Assignments
<1>3. plan \in Seq(Viewing \cup Overriding)
  BY <1>2, SeqMonotonic
<1>4. call' = [method |-> method, step |-> "borrow", plan |-> plan, saved |-> ui,
               passes |-> passes, color |-> ui.shading, failed |-> FALSE,
               refused |-> FALSE]
  BY DEF Call
<1>5. /\ call' \in Calls /\ call'.step = "borrow" /\ call'.method = method
      /\ call'.plan = plan /\ call'.saved = ui
  BY <1>1, <1>3, <1>4 DEF Calls
<1>6. ~Idle'
  BY <1>5 DEF Idle
<1>7. Busy'
  BY <1>1, <1>5 DEF Busy, SameView, SameFocus
<1>. QED BY <1>1, <1>5, <1>6, <1>7 DEF CaptureInv

LEMMA Planned ==
  ASSUME NEW S, NEW p \in Seq(S), NEW q \in Seq(S)
  PROVE  p \o q \in Seq(S)
BY ConcatProperties

LEMMA AssignedOne ==
  ASSUME NEW S, NEW field, NEW value, [field |-> field, value |-> value] \in S
  PROVE  Assigned(field, value) \in Seq(S)
BY DEF Assigned

LEMMA AssignedPerhaps ==
  ASSUME NEW S, NEW condition \in BOOLEAN, NEW field, NEW value,
         condition => [field |-> field, value |-> value] \in S
  PROVE  AssignedIf(condition, field, value) \in Seq(S)
<1>1. <<>> \in Seq(S)
  BY EmptySeq
<1>2. CASE condition
  <2>1. Assigned(field, value) \in Seq(S)
    BY <1>2, AssignedOne
  <2>. QED BY <1>2, <2>1 DEF AssignedIf
<1>3. CASE ~condition
  BY <1>1, <1>3 DEF AssignedIf
<1>. QED BY <1>2, <1>3

(* What the passes of a bundle assign.                                     *)
LEMMA PassPlanned ==
  ASSUME NEW drawn, NEW color \in Shadings
  PROVE  PassPlan(drawn, color) \in Seq(Viewing)
<1>1. <<>> \in Seq(Viewing)
  BY EmptySeq
<1>2. PICK shading \in Shadings :
        shading = CASE drawn = "color" -> color [] drawn = "solid" -> "SOLID"
                    [] OTHER -> "WIREFRAME"
  BY DEF Shadings
<1>3. Assigned("shading", shading) \in Seq(Viewing)
  <2>1. [field |-> "shading", value |-> shading] \in Viewing
    BY DEF Viewing
  <2>. QED BY <2>1, AssignedOne
<1>4. Assigned("overlays", FALSE) \in Seq(Viewing)
  <2>1. [field |-> "overlays", value |-> FALSE] \in Viewing
    BY DEF Viewing
  <2>. QED BY <2>1, AssignedOne
<1>5. Assigned("shading", shading) \o Assigned("overlays", FALSE) \in Seq(Viewing)
  BY <1>3, <1>4, Planned
<1>. QED BY <1>1, <1>2, <1>5 DEF PassPlan

LEMMA BorrowInv == CaptureInv /\ Borrow => CaptureInv'
<1>. SUFFICES ASSUME CaptureInv, Borrow PROVE CaptureInv'
  OBVIOUS
<1>1. /\ ui \in Ui /\ before \in UserUi /\ call \in Calls /\ ~Idle /\ Busy
      /\ call.step = "borrow" /\ call.plan # <<>>
      /\ call' = [call EXCEPT !.plan = Tail(@)]
      /\ buffers' = buffers /\ before' = before
  BY DEF CaptureInv, Borrow, Idle
<1>2. PICK method \in {"capture", "bundle", "apply"} : method = call.method
  BY <1>1 DEF Busy, Calls
<1>3. PICK plan \in Seq(Assignments(method)) : plan = call.plan /\ plan # <<>>
  BY <1>1, <1>2 DEF Busy
<1>4. PICK first \in Assignments(method), rest \in Seq(Assignments(method)) :
        first = Head(plan) /\ rest = Tail(plan)
  BY <1>3, HeadTailProperties
<1>5. call' = [call EXCEPT !.plan = rest]
  BY <1>1, <1>3, <1>4
<1>6. rest \in Seq(Viewing \cup Overriding)
  <2>1. Assignments(method) \subseteq Viewing \cup Overriding
    BY DEF Assignments
  <2>. QED BY <2>1, SeqMonotonic
<1>7. /\ call' \in Calls /\ call'.step = "borrow" /\ call'.method = method
      /\ call'.plan = rest /\ call'.saved = call.saved
  BY <1>1, <1>2, <1>5, <1>6 DEF Calls
<1>8. ~Idle'
  BY <1>7 DEF Idle
<1>9. ui' = [ui EXCEPT ![first.field] = first.value]
  BY <1>3, <1>4 DEF Borrow
<1>10. CASE method # "apply"
  <2>1. first \in Viewing
    BY <1>10 DEF Assignments
  <2>2. ui' \in Ui /\ SameFocus(ui', ui)
    <3>1. ASSUME NEW s \in Shadings, first = [field |-> "shading", value |-> s]
          PROVE  ui' \in Ui /\ SameFocus(ui', ui)
      <4>1. ui' = [ui EXCEPT !.shading = s]
        BY <1>9, <3>1
      <4>. QED BY <1>1, <4>1 DEF Ui, SameFocus
    <3>2. ASSUME NEW b \in BOOLEAN, first = [field |-> "overlays", value |-> b]
          PROVE  ui' \in Ui /\ SameFocus(ui', ui)
      <4>1. ui' = [ui EXCEPT !.overlays = b]
        BY <1>9, <3>2
      <4>. QED BY <1>1, <4>1 DEF Ui, SameFocus
    <3>3. CASE first = [field |-> "file", value |-> "ours"]
      <4>1. ui' = [ui EXCEPT !.file = "ours"]
        BY <1>9, <3>3
      <4>. QED BY <1>1, <4>1 DEF Ui, SameFocus
    <3>. QED BY <2>1, <3>1, <3>2, <3>3 DEF Viewing
  <2>3. SameFocus(ui', before)
    BY <1>1, <1>2, <1>10, <2>2 DEF Busy, SameFocus
  <2>4. Busy'
    BY <1>1, <1>2, <1>4, <1>7, <1>10, <2>3 DEF Busy
  <2>. QED BY <1>1, <1>7, <1>8, <2>2, <2>4 DEF CaptureInv
<1>11. CASE method = "apply"
  <2>1. first \in Overriding
    BY <1>11 DEF Assignments
  <2>2. ObjectMode \in Modes
    BY ModeAssumption
  <2>3. /\ ui' \in Ui /\ SameView(ui', ui)
        /\ ui'.mode \in {ui.mode, ObjectMode}
    <3>1. CASE first = [field |-> "mode", value |-> ObjectMode]
      <4>1. ui' = [ui EXCEPT !.mode = ObjectMode]
        BY <1>9, <3>1
      <4>. QED BY <1>1, <2>2, <4>1 DEF Ui, SameView
    <3>2. ASSUME NEW o \in Solids, first = [field |-> "selected", value |-> {o}]
          PROVE  /\ ui' \in Ui /\ SameView(ui', ui)
                 /\ ui'.mode \in {ui.mode, ObjectMode}
      <4>1. ui' = [ui EXCEPT !.selected = {o}]
        BY <1>9, <3>2
      <4>. QED BY <1>1, <4>1 DEF Ui, SameView
    <3>3. ASSUME NEW o \in Solids, first = [field |-> "active", value |-> o]
          PROVE  /\ ui' \in Ui /\ SameView(ui', ui)
                 /\ ui'.mode \in {ui.mode, ObjectMode}
      <4>1. ui' = [ui EXCEPT !.active = o]
        BY <1>9, <3>3
      <4>. QED BY <1>1, <4>1 DEF Ui, SameView
    <3>. QED BY <2>1, <3>1, <3>2, <3>3 DEF Overriding
  <2>4. SameView(ui', before) /\ ui'.mode \in {before.mode, ObjectMode}
    BY <1>1, <1>2, <1>11, <2>3 DEF Busy, SameView
  <2>5. Busy'
    BY <1>1, <1>2, <1>4, <1>7, <1>11, <2>4 DEF Busy
  <2>. QED BY <1>1, <1>7, <1>8, <2>3, <2>5 DEF CaptureInv
<1>. QED BY <1>10, <1>11

(* The work is done, or something raised.                                  *)
LEMMA WorkInv == CaptureInv /\ (Work \/ Raise) => CaptureInv'
<1>. SUFFICES ASSUME CaptureInv, Work \/ Raise PROVE CaptureInv'
  OBVIOUS
<1>1. /\ call \in Calls /\ ~Idle /\ Busy
      /\ ui' = ui /\ buffers' = buffers /\ before' = before
  BY DEF CaptureInv, Work, Raise, Idle
<1>2. \/ call' = [call EXCEPT !.step = "finally"]
      \/ call' = [call EXCEPT !.step = "finally", !.failed = TRUE]
  BY DEF Work, Raise
<1>3. /\ call' \in Calls /\ call'.step = "finally" /\ call'.method = call.method
      /\ call'.plan = call.plan /\ call'.saved = call.saved
  BY <1>1, <1>2 DEF Calls
<1>4. ~Idle' /\ Busy'
  BY <1>1, <1>3 DEF Idle, Busy
<1>. QED BY <1>1, <1>3, <1>4 DEF CaptureInv

(* The end of a call.                                                      *)
LEMMA FinishedInv ==
  ASSUME CaptureInv, ~Idle, NEW failed \in BOOLEAN, NEW refused \in BOOLEAN,
         call' = Finished(failed, refused), before' = before, buffers' = 0, ui' \in UserUi,
         SameView(ui', before), ui'.selected = before.selected,
         ui'.active # before.active =>
           call.method = "apply" /\ before.active = None,
         ui'.mode # before.mode =>
           /\ call.method = "apply" /\ ui'.mode = ObjectMode
           /\ IF before.mode \in Settable THEN refused ELSE failed
  PROVE  CaptureInv'
<1>1. call \in Calls /\ before \in UserUi /\ before \in Ui
      /\ before.shading \in Shadings
  BY DEF CaptureInv, UserUi, Ui
<1>2. <<>> \in Seq(Viewing \cup Overriding)
  BY EmptySeq
<1>3. call' = [call EXCEPT !.step = "idle", !.plan = <<>>, !.passes = {},
                  !.saved = before, !.color = before.shading, !.failed = failed,
                  !.refused = refused]
  BY DEF Finished
<1>4. /\ call' \in Calls /\ call'.step = "idle" /\ call'.method = call.method
      /\ call'.failed = failed /\ call'.refused = refused
  BY <1>1, <1>2, <1>3 DEF Calls
<1>5. ui' \in Ui
  BY DEF UserUi
<1>. QED BY <1>1, <1>4, <1>5 DEF CaptureInv, Idle, Rested

LEMMA GiveBackModeInv ==
  ASSUME CaptureInv, ~Idle, GiveBackMode, before' = before
  PROVE  CaptureInv'
<1>1. /\ ui \in Ui /\ before \in UserUi /\ call \in Calls /\ Busy
      /\ call.method = "apply" /\ buffers' = buffers
  BY DEF CaptureInv, GiveBackMode
<1>2. /\ buffers = 0 /\ SameView(call.saved, before)
      /\ SameFocus(call.saved, before)
      /\ SameView(ui, before) /\ ui.mode \in {before.mode, ObjectMode}
  BY <1>1 DEF Busy
<1>3. /\ before \in Ui /\ before.file = "user"
      /\ before.active = None => before.mode = ObjectMode
  BY <1>1 DEF UserUi
<1>4. /\ call.saved.selected = before.selected
      /\ call.saved.active = before.active /\ call.saved.mode = before.mode
  BY <1>2 DEF SameFocus
<1>5. PICK asked \in BOOLEAN, unknown \in BOOLEAN, refused \in BOOLEAN,
           failed \in BOOLEAN :
        /\ asked <=> before.active # None /\ before.mode # ObjectMode /\ ~unknown
        /\ unknown <=> before.active # None /\ before.mode # ObjectMode
                       /\ before.mode \notin Settable
        /\ failed <=> call.failed \/ unknown
        /\ call' = Finished(failed, refused)
        /\ refused => asked
        /\ ui' = Overridden(call.saved, IF asked /\ ~refused THEN before.mode
                                                             ELSE ui.mode)
  <2>1. PICK asked \in BOOLEAN :
          asked = (ModeBack(call.saved) /\ ~Unknown(call.saved))
    OBVIOUS
  <2>2. PICK unknown \in BOOLEAN : unknown = Unknown(call.saved)
    BY DEF Unknown, ModeBack
  <2>3. PICK failed \in BOOLEAN : failed = (call.failed \/ Unknown(call.saved))
    BY <1>1 DEF Calls, Unknown, ModeBack
  <2>4. PICK refused \in BOOLEAN :
          /\ refused => asked
          /\ ui' = Overridden(call.saved, IF asked /\ ~refused
                                          THEN call.saved.mode ELSE ui.mode)
          /\ call' = Finished(failed, refused)
    BY <2>1, <2>3 DEF GiveBackMode
  <2>5. /\ unknown <=> before.active # None /\ before.mode # ObjectMode
                       /\ before.mode \notin Settable
        /\ asked <=> before.active # None /\ before.mode # ObjectMode /\ ~unknown
        /\ failed <=> call.failed \/ unknown
    BY <1>4, <2>1, <2>2, <2>3 DEF Unknown, ModeBack
  <2>6. refused => asked
    BY <2>4
  <2>7. ui' = Overridden(call.saved, IF asked /\ ~refused THEN before.mode
                                                          ELSE ui.mode)
    BY <1>4, <2>4
  <2>8. call' = Finished(failed, refused)
    BY <2>4
  <2>. QED BY <2>5, <2>6, <2>7, <2>8
<1>6. PICK mode \in Modes :
        mode = IF asked /\ ~refused THEN before.mode ELSE ui.mode
  BY <1>1, <1>3 DEF Ui
<1>7. PICK active \in Solids \cup {None} :
        active = (IF before.active = None THEN ui.active ELSE before.active)
  BY <1>1, <1>3 DEF Ui
<1>8. PICK selected \in SUBSET Solids : selected = before.selected
  BY <1>3 DEF Ui
<1>9. ui' = [ui EXCEPT !.selected = selected, !.active = active, !.mode = mode]
  BY <1>1, <1>4, <1>5, <1>6, <1>7, <1>8 DEF Overridden, Ui
<1>10. /\ ui' \in Ui /\ ui'.selected = selected /\ ui'.active = active
       /\ ui'.mode = mode /\ SameView(ui', ui)
  BY <1>1, <1>9 DEF Ui, SameView
<1>11. mode \in {before.mode, ObjectMode}
  BY <1>2, <1>6
<1>12. ui' \in UserUi
  <2>1. ui'.file = "user"
    BY <1>2, <1>3, <1>10 DEF SameView
  <2>2. ui'.active = None => before.active = None /\ mode = ObjectMode
    BY <1>3, <1>7, <1>10, <1>11
  <2>. QED BY <1>10, <2>1, <2>2 DEF UserUi
<1>13. SameView(ui', before)
  BY <1>2, <1>10 DEF SameView
<1>14. ui'.active # before.active => before.active = None
  BY <1>7, <1>10
<1>15. ui'.mode # before.mode =>
         /\ ui'.mode = ObjectMode
         /\ IF before.mode \in Settable THEN refused ELSE failed
  BY <1>3, <1>5, <1>6, <1>10, <1>11
<1>16. buffers' = 0
  BY <1>1, <1>2
<1>17. /\ ui'.active # before.active =>
            call.method = "apply" /\ before.active = None
       /\ ui'.mode # before.mode =>
            /\ call.method = "apply" /\ ui'.mode = ObjectMode
            /\ IF before.mode \in Settable THEN refused ELSE failed
  BY <1>1, <1>14, <1>15
<1>18. ui'.selected = before.selected
  BY <1>8, <1>10
<1>19. call' = Finished(failed, refused)
  BY <1>5
<1>. QED BY <1>12, <1>13, <1>16, <1>17, <1>18, <1>19, FinishedInv

(* What a viewport method gives back is all that it borrowed.              *)
LEMMA ViewGivenBack ==
  ASSUME CaptureInv, ~Idle, call.method # "apply", ui' = ViewBack(call.saved)
  PROVE  ui' \in UserUi /\ SameView(ui', before) /\ SameFocus(ui', before)
<1>1. /\ ui \in Ui /\ before \in UserUi /\ call \in Calls /\ Busy
      /\ before \in Ui
  BY DEF CaptureInv, UserUi
<1>2. SameView(call.saved, before) /\ SameFocus(ui, before)
  BY <1>1 DEF Busy
<1>3. PICK shading \in Shadings, overlays \in BOOLEAN, file \in {"user", "ours"} :
        /\ shading = call.saved.shading /\ overlays = call.saved.overlays
        /\ file = call.saved.file
        /\ shading = before.shading /\ overlays = before.overlays
        /\ file = before.file
  <2>1. /\ before.shading \in Shadings /\ before.overlays \in BOOLEAN
        /\ before.file \in {"user", "ours"}
    BY <1>1 DEF Ui
  <2>. QED BY <1>2, <2>1 DEF SameView
<1>4. ui' = [ui EXCEPT !.shading = shading, !.overlays = overlays, !.file = file]
  BY <1>3 DEF ViewBack
<1>5. /\ ui' \in Ui /\ ui'.shading = shading /\ ui'.overlays = overlays
      /\ ui'.file = file /\ SameFocus(ui', ui)
  BY <1>1, <1>4 DEF Ui, SameFocus
<1>6. SameView(ui', before) /\ SameFocus(ui', before)
  BY <1>2, <1>3, <1>5 DEF SameView, SameFocus
<1>7. ui' \in UserUi
  BY <1>1, <1>5, <1>6 DEF UserUi, SameView, SameFocus
<1>. QED BY <1>6, <1>7

LEMMA GiveBackViewInv ==
  ASSUME CaptureInv, ~Idle, GiveBackView, before' = before
  PROVE  CaptureInv'
<1>1. /\ call \in Calls /\ Busy /\ call.method = "capture" /\ buffers' = buffers
      /\ call' = Finished(call.failed, FALSE) /\ ui' = ViewBack(call.saved)
  BY DEF CaptureInv, GiveBackView
<1>2. buffers = 0 /\ call.failed \in BOOLEAN
  BY <1>1 DEF Busy, Calls
<1>3. ui' \in UserUi /\ SameView(ui', before) /\ SameFocus(ui', before)
  BY <1>1, ViewGivenBack
<1>. QED BY <1>1, <1>2, <1>3, FinishedInv DEF SameFocus

LEMMA PassOverInv ==
  ASSUME CaptureInv, ~Idle, PassOver, before' = before
  PROVE  CaptureInv'
<1>1. /\ call \in Calls /\ Busy /\ call.method = "bundle"
      /\ ui' = ViewBack(call.saved)
  BY DEF CaptureInv, PassOver
<1>2. buffers = 1 /\ call.failed \in BOOLEAN /\ call.color \in Shadings
  BY <1>1 DEF Busy, Calls
<1>3. ui' \in UserUi /\ SameView(ui', before) /\ SameFocus(ui', before)
  BY <1>1, ViewGivenBack
<1>4. ASSUME NEW failed \in {call.failed, TRUE}, call' = Finished(failed, FALSE),
             buffers' = buffers - 1
      PROVE  CaptureInv'
  <2>1. failed \in BOOLEAN
    BY <1>2
  <2>2. buffers' = 0
    BY <1>2, <1>4
  <2>. QED BY <1>1, <1>3, <1>4, <2>1, <2>2, FinishedInv DEF SameFocus
<1>5. ASSUME NEW following \in Ready(call.passes), buffers' = buffers,
             call' = [call EXCEPT !.step = "borrow", !.saved = ui',
                        !.plan = PassPlan(following, call.color),
                        !.passes = @ \ {following}]
      PROVE  CaptureInv'
  <2>1. PICK plan \in Seq(Viewing) : plan = PassPlan(following, call.color)
    BY <1>2, PassPlanned
  <2>2. plan \in Seq(Viewing \cup Overriding)
    <3>1. Viewing \subseteq Viewing \cup Overriding
      OBVIOUS
    <3>. QED BY <3>1, SeqMonotonic
  <2>3. PICK passes \in SUBSET Passes : passes = call.passes \ {following}
    BY <1>1 DEF Calls
  <2>4. PICK saved \in Ui : saved = ui'
    BY <1>3 DEF UserUi
  <2>5. call' = [call EXCEPT !.step = "borrow", !.saved = saved, !.plan = plan,
                             !.passes = passes]
    BY <1>1, <1>5, <2>1, <2>3, <2>4 DEF Calls
  <2>6. /\ call' \in Calls /\ call'.step = "borrow" /\ call'.method = "bundle"
        /\ call'.plan = plan /\ call'.saved = saved
    BY <1>1, <2>2, <2>5 DEF Calls
  <2>7. Assignments("bundle") = Viewing
    BY DEF Assignments
  <2>8. Busy'
    BY <1>2, <1>3, <1>5, <2>1, <2>4, <2>6, <2>7 DEF Busy
  <2>. QED BY <2>4, <2>6, <2>8 DEF CaptureInv, Idle
<1>. QED BY <1>4, <1>5 DEF PassOver

LEMMA CaptureNextInv == CaptureInv /\ [CaptureNext]_captureVars => CaptureInv'
<1>. SUFFICES ASSUME CaptureInv, [CaptureNext]_captureVars PROVE CaptureInv'
  OBVIOUS
<1>1. CASE UNCHANGED captureVars
  BY <1>1 DEF captureVars, CaptureInv, Idle, Rested, Busy
<1>2. ASSUME NEW shading \in Shadings \cup {None},
             NEW overlays \in BOOLEAN \cup {None}, Capture(shading, overlays)
      PROVE  CaptureInv'
  <2>1. AssignedIf(shading # None, "shading", shading) \in Seq(Viewing)
    <3>1. shading # None => [field |-> "shading", value |-> shading] \in Viewing
      BY DEF Viewing
    <3>. QED BY <3>1, AssignedPerhaps
  <2>2. AssignedIf(overlays # None, "overlays", overlays) \in Seq(Viewing)
    <3>1. overlays # None => [field |-> "overlays", value |-> overlays] \in Viewing
      BY DEF Viewing
    <3>. QED BY <3>1, AssignedPerhaps
  <2>3. Assigned("file", "ours") \in Seq(Viewing)
    <3>1. [field |-> "file", value |-> "ours"] \in Viewing
      BY DEF Viewing
    <3>. QED BY <3>1, AssignedOne
  <2>4. PICK plan \in Seq(Viewing) :
          plan = AssignedIf(shading # None, "shading", shading)
                   \o AssignedIf(overlays # None, "overlays", overlays)
                   \o Assigned("file", "ours")
    BY <2>1, <2>2, <2>3, Planned
  <2>5. /\ Idle /\ call' = Call("capture", plan, {}) /\ before' = ui
        /\ ui' = ui /\ buffers' = buffers
    BY <1>2, <2>4 DEF Capture
  <2>6. plan \in Seq(Assignments("capture"))
    BY DEF Assignments
  <2>. QED BY <2>5, <2>6, CallInv
<1>3. ASSUME NEW passes \in SUBSET Passes, Bundle(passes) PROVE CaptureInv'
  <2>1. PICK first \in Ready(passes) :
          call' = Call("bundle", PassPlan(first, ui.shading), passes \ {first})
    BY <1>3 DEF Bundle
  <2>2. /\ Idle /\ before' = ui /\ ui' = ui /\ buffers' = buffers + 1
    BY <1>3 DEF Bundle
  <2>3. ui.shading \in Shadings
    BY DEF CaptureInv, Ui
  <2>4. PICK plan \in Seq(Assignments("bundle")) :
          plan = PassPlan(first, ui.shading)
    BY <2>3, PassPlanned DEF Assignments
  <2>5. PICK rest \in SUBSET Passes : rest = passes \ {first}
    OBVIOUS
  <2>. QED BY <2>1, <2>2, <2>4, <2>5, CallInv
<1>4. ASSUME NEW o \in Solids, Apply(o) PROVE CaptureInv'
  <2>1. PICK condition \in BOOLEAN :
          condition = (ui.active # None /\ ui.mode # ObjectMode)
    OBVIOUS
  <2>2. AssignedIf(condition, "mode", ObjectMode) \in Seq(Overriding)
    <3>1. [field |-> "mode", value |-> ObjectMode] \in Overriding
      BY DEF Overriding
    <3>. QED BY <3>1, AssignedPerhaps
  <2>3. Assigned("selected", {o}) \in Seq(Overriding)
    <3>1. [field |-> "selected", value |-> {o}] \in Overriding
      BY DEF Overriding
    <3>. QED BY <3>1, AssignedOne
  <2>4. Assigned("active", o) \in Seq(Overriding)
    <3>1. [field |-> "active", value |-> o] \in Overriding
      BY DEF Overriding
    <3>. QED BY <3>1, AssignedOne
  <2>5. PICK plan \in Seq(Overriding) :
          plan = AssignedIf(condition, "mode", ObjectMode)
                   \o Assigned("selected", {o}) \o Assigned("active", o)
    BY <2>2, <2>3, <2>4, Planned
  <2>6. /\ Idle /\ call' = Call("apply", plan, {}) /\ before' = ui
        /\ ui' = ui /\ buffers' = buffers
    BY <1>4, <2>1, <2>5 DEF Apply
  <2>7. plan \in Seq(Assignments("apply"))
    BY DEF Assignments
  <2>. QED BY <2>6, <2>7, CallInv
<1>5. CASE Borrow
  BY <1>5, BorrowInv
<1>6. CASE Work \/ Raise
  BY <1>6, WorkInv
<1>7. CASE Finally
  <2>1. ~Idle /\ before' = before
    BY <1>7 DEF Finally, Idle
  <2>2. GiveBackMode \/ GiveBackView \/ PassOver
    BY <1>7 DEF Finally
  <2>. QED BY <2>1, <2>2, GiveBackModeInv, GiveBackViewInv, PassOverInv
<1>8. CASE User
  <2>1. /\ Idle /\ ui' \in UserUi /\ before' = ui' /\ buffers' = buffers
        /\ call' = [call EXCEPT !.method = "none", !.saved = ui',
                                !.color = ui'.shading, !.failed = FALSE,
                                !.refused = FALSE]
        /\ call \in Calls /\ buffers = 0
    BY <1>8 DEF User, CaptureInv, Rested
  <2>2. ui' \in Ui /\ ui'.shading \in Shadings
    BY <2>1 DEF UserUi, Ui
  <2>3. /\ call' \in Calls /\ call'.step = "idle" /\ call'.method = "none"
    BY <2>1, <2>2 DEF Calls, Idle
  <2>. QED BY <2>1, <2>2, <2>3 DEF CaptureInv, Idle, Rested, SameView
<1>. QED BY <1>1, <1>2, <1>3, <1>4, <1>5, <1>6, <1>7, <1>8 DEF CaptureNext

LEMMA CaptureGiven == CaptureInv => GivenBack /\ CaptureTypeOK
<1>. SUFFICES ASSUME CaptureInv PROVE GivenBack /\ CaptureTypeOK
  OBVIOUS
<1>1. GivenBack
  BY DEF CaptureInv, Rested, SameView, GivenBack
<1>2. CaptureTypeOK
  BY DEF CaptureInv, CaptureTypeOK, Rested, Busy
<1>. QED BY <1>1, <1>2

-----------------------------------------------------------------------------
(* Every part is as its own invariant says.                                *)
Sound ==
  /\ part \in Parts
  /\ MeshInv /\ ReadInv /\ ListInv /\ SnapInv /\ CaptureInv /\ IdInv
  /\ ImageInv

(* A step of a behaviour is, for each of the parts, a step of that part or *)
(* none.                                                                   *)
LEMMA PartSteps ==
  [Next]_vars =>
    /\ [ReadNext]_readVars /\ [SnapNext]_snapVars /\ [CaptureNext]_captureVars
    /\ [IdNext]_idVars /\ [ImageNext]_imageVars /\ UNCHANGED part
<1>. SUFFICES ASSUME [Next]_vars
              PROVE  /\ [ReadNext]_readVars /\ [SnapNext]_snapVars
                     /\ [CaptureNext]_captureVars /\ [IdNext]_idVars
                     /\ [ImageNext]_imageVars /\ UNCHANGED part
  OBVIOUS
<1>1. CASE UNCHANGED vars
  BY <1>1 DEF vars
<1>2. CASE Next
  BY <1>2 DEF Next
<1>. QED BY <1>1, <1>2

(* EVERYTHING STAYS SOUND.  Pages, listings, snapshots, borrowed editor    *)
(* state, id passes and pictures keep their invariants, whatever a         *)
(* behaviour does: agents, the user, undo, rollbacks and recoveries        *)
(* between any two steps.                                                  *)
THEOREM Soundness == Spec => []Sound
<1>1. Init => Sound
  BY MeshInitInv, ReadInitInv, ListInitInv, SnapInitInv, CaptureInitInv,
     IdInitInv, ImageInitInv
  DEF Init, Sound
<1>2. Sound /\ [Next]_vars => Sound'
  <2>. SUFFICES ASSUME Sound, [Next]_vars PROVE Sound'
    OBVIOUS
  <2>1. /\ [ReadNext]_readVars /\ [SnapNext]_snapVars
        /\ [CaptureNext]_captureVars /\ [IdNext]_idVars
        /\ [ImageNext]_imageVars /\ UNCHANGED part
    BY PartSteps
  <2>2. /\ part \in Parts
        /\ MeshInv /\ ReadInv /\ ListInv /\ SnapInv /\ CaptureInv /\ IdInv
        /\ ImageInv
    BY DEF Sound
  <2>3. MeshInv' /\ ReadInv' /\ ListInv' /\ SnapInv' /\ CaptureInv'
    BY <2>1, <2>2, MeshNextInv, ReadNextInv, ListNextInv, SnapNextInv, CaptureNextInv
  <2>4. IdInv' /\ ImageInv'
    BY <2>1, <2>2, IdNextInv, ImageNextInv
  <2>5. part' \in Parts
    BY <2>1, <2>2
  <2>. QED BY <2>3, <2>4, <2>5 DEF Sound
<1>. QED BY <1>1, <1>2, PTL DEF Spec

(* TYPES.  Every variable of every part stays in its range, the store of   *)
(* snapshots within its capacity, and one GPU buffer is allocated at most. *)
THEOREM TypeCorrect == Spec => []TypeOK
<1>1. Sound => TypeOK
  <2>. SUFFICES ASSUME Sound PROVE TypeOK
    OBVIOUS
  <2>1. ReadTypeOK
    BY ReadWhole DEF Sound
  <2>2. SnapTypeOK
    BY DEF Sound, SnapInv, SnapTypeOK
  <2>3. CaptureTypeOK
    BY CaptureGiven DEF Sound
  <2>4. IdTypeOK
    BY IdDecodes DEF Sound
  <2>5. ImageTypeOK
    BY DEF Sound, ImageInv, Loop, ImageTypeOK
  <2>. QED BY <2>1, <2>2, <2>3, <2>4, <2>5 DEF TypeOK, Sound
<1>. QED BY <1>1, Soundness, PTL

(* PAGES ARE WHOLE.  Pages of one revision, which the mesh still has, read *)
(* to the end, are every element once, in order and as it is, whatever     *)
(* agents rebuilt in between, as long as nothing changed the mesh without  *)
(* a new revision: no edit by the user, no recalculated normals and no     *)
(* mesh that was put back (mesh.py:47-97, identity.py:94).                 *)
THEOREM PagesAreWhole == Spec => []PagesWhole
<1>1. Sound => PagesWhole
  BY ReadWhole DEF Sound
<1>. QED BY <1>1, Soundness, PTL

(* COMPONENTS ARE RIGHT.  A listing whose revision the mesh still has,     *)
(* with no unnoticed change since, counts the classes of connected         *)
(* vertices, says whether it left some out, gives no class twice or in     *)
(* part, the largest first, and accounts for every edge of the classes it  *)
(* gives, for every graph and every limit (mesh_query.py:231-295).         *)
THEOREM ComponentsAreRight == Spec => []ComponentsRight
<1>1. Sound => ComponentsRight
  BY DEF Sound, ListInv
<1>. QED BY <1>1, Soundness, PTL

(* THE NEWEST ARE KEPT.  The last Capacity snapshots, each once, and no    *)
(* older one (runtime.py:120-133).                                         *)
THEOREM SnapshotsKept == Spec => []NewestKept
<1>1. Sound => NewestKept
  BY SnapKept DEF Sound
<1>. QED BY <1>1, Soundness, PTL

(* A DIFF TELLS what changed of what snapshots record, and says "equal" of *)
(* two depths only if all agrees that the deeper one records; what neither *)
(* records may differ (snapshots.py:20-86).                                *)
THEOREM DiffsTell == Spec => []DiffTells
<1>1. Sound => DiffTells
  BY SnapDiff DEF Sound
<1>. QED BY <1>1, Soundness, PTL

(* GIVEN BACK.  Wherever a method raised, the user has back what it        *)
(* borrowed; the active object stays only where there was none, and object *)
(* mode only where Blender refused the old one or the call fails           *)
(* (context.py:42-90, viewport.py:89-119, perception.py:287-309).          *)
THEOREM BorrowedGivenBack == Spec => []GivenBack
<1>1. Sound => GivenBack
  BY CaptureGiven DEF Sound
<1>. QED BY <1>1, Soundness, PTL

(* PIXELS DECODE to the code of what is in front, for every base and every *)
(* number of instances, up to the limit where the pass fails               *)
(* (perception.py:71-83, 144-219).                                         *)
THEOREM PixelsAreDecoded == Spec => []PixelsDecode
<1>1. Sound => PixelsDecode
  BY IdDecodes DEF Sound
<1>. QED BY <1>1, Soundness, PTL

(* THE IMAGE IS AS SAID: within the limit or said to exceed it, and if it  *)
(* is within the limit of the size that is reported (mcp_server.py:30-72). *)
(* Of one that exceeds it the reported size may be a smaller picture's.    *)
THEOREM ImagesAreAsSaid == Spec => []ImageAsSaid
<1>1. Sound => ImageAsSaid
  BY DEF Sound, ImageInv
<1>. QED BY <1>1, Soundness, PTL
=============================================================================
