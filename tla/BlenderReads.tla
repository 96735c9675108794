---------------------------- MODULE BlenderReads ----------------------------
(***************************************************************************)
(* What an agent learns of a mesh from the Blender host: the elements,     *)
(* page by page (mesh.elements, ops/mesh.py), and the connected components *)
(* (mesh.components, ops/mesh_query.py).  Every answer carries the         *)
(* revision it was read at.  Between two dispatches agents rebuild the     *)
(* mesh, which bumps its revision.  Others change it unnoticed, with no    *)
(* new revision: the user edits it, agents recalculate its normals, and    *)
(* undo, a rollback or a recovery puts an older mesh back, with the older  *)
(* revision that is stored in it.                                          *)
(*                                                                         *)
(* A topology is a number of vertices, a set of edges, and how its faces   *)
(* are turned; what a page says of a vertex stands for whatever an         *)
(* element's record holds.                                                 *)
(***************************************************************************)
EXTENDS Integers, Sequences, FiniteSets

CONSTANTS
  Topologies,  \* [vertices |-> how many, edges |-> pairs of their indices,
               \*  turned |-> how the faces look]
  Offsets,     \* what a first page is asked to start from: the beginning
  Limits,      \* what the parameters limit and max_components may be
  PageLimit,   \* 2000: what `limit` is cut down to
  ListLimit,   \* 10000: what `max_components` is cut down to
  MaxRev,      \* bound: mesh revisions
  MaxPast      \* bound: boundaries of the undo history that are followed

ASSUME LimitAssumption ==
  /\ PageLimit \in Nat \ {0} /\ ListLimit \in Nat \ {0} /\ MaxRev \in Nat
  /\ MaxPast \in Nat \ {0}
  /\ Limits \subseteq Int
  /\ \A offset \in Offsets : offset \in Int /\ offset <= 0
ASSUME TopologyAssumption ==
  \A t \in Topologies :
    /\ t.vertices \in Nat
    /\ \A e \in t.edges : \E v, w \in 0..(t.vertices - 1) : e = {v, w}

VARIABLES
  mesh,    \* its revision and topology
  past,    \* the mesh in boundaries that undo or redo can bring back
  reader,  \* the pages an agent has collected
  listing  \* its last answer to mesh.components

readVars == <<mesh, past, reader, listing>>

Vertices(t) == 0..(t.vertices - 1)
Neighbours(t, v) == {w \in Vertices(t) : {v, w} \in t.edges /\ v # w}

AtLeast(a, b) == IF a >= b THEN a ELSE b
AtMost(a, b) == IF a <= b THEN a ELSE b

(* unnoticed: history, whether the mesh changed since the first page, or   *)
(* since the answer, in a way that gives it no new revision.               *)
NoPages == [offset |-> 0, items |-> <<>>, revs |-> {}, more |-> TRUE,
            unnoticed |-> FALSE]
NoListing == [rev |-> -1, count |-> 0, components |-> <<>>,
              truncated |-> FALSE, unnoticed |-> FALSE]

-----------------------------------------------------------------------------
(* mesh.elements                                                           *)
Item(t, i) == [index |-> i, near |-> Neighbours(t, i), turned |-> t.turned]

PageItems(t, offset, limit) ==
  LET first == AtMost(offset, t.vertices)
      stop == AtMost(t.vertices, offset + limit)
  IN [k \in 1..AtLeast(0, stop - first) |-> Item(t, first + k - 1)]

HasMoreButOne(t, offset, items) == offset + Len(items) < t.vertices - 1
HasMore(t, offset, items) == offset + Len(items) < t.vertices

(* One agent is followed, which has an answer to one of the two methods.   *)
NothingAsked == reader = NoPages /\ listing = NoListing

(* One page, added to those before it; the agent asks for the next page    *)
(* where this one ends.                                                    *)
Paged(pages, asked, limit) ==
  LET offset == AtLeast(0, asked)
      items == PageItems(mesh.topo, offset, AtLeast(1, AtMost(PageLimit, limit)))
  IN [pages EXCEPT !.offset = offset + Len(items), !.items = @ \o items,
                   !.revs = @ \cup {mesh.rev},
                   !.more = HasMore(mesh.topo, offset, items)]

FirstPage(offset, limit) ==
  /\ NothingAsked
  /\ reader' = Paged(NoPages, offset, limit)
  /\ UNCHANGED <<mesh, past, listing>>

NextPage(limit) ==
  /\ reader # NoPages /\ reader.more
  /\ reader' = Paged(reader, reader.offset, limit)
  /\ UNCHANGED <<mesh, past, listing>>

(* The agent has what it wanted, or saw two revisions: it starts again.    *)
StartAgain ==
  /\ ~NothingAsked
  /\ reader' = NoPages /\ listing' = NoListing
  /\ UNCHANGED <<mesh, past>>

-----------------------------------------------------------------------------
(* mesh.components                                                         *)

(* The breadth-first search from a seed, wave by wave.                     *)
FloodOnce(t, seed) == {seed} \cup Neighbours(t, seed)
Flood(t, seed) ==
  LET wave[n \in 0..t.vertices] ==
        IF n = 0 THEN {seed}
        ELSE wave[n - 1] \cup UNION {Neighbours(t, v) : v \in wave[n - 1]}
  IN wave[t.vertices]

(* The components in the order they are found: of the vertices not seen    *)
(* yet, the one with the lowest index is the next seed.                    *)
Found(t) ==
  LET from[unseen \in SUBSET Vertices(t)] ==
        IF unseen = {} THEN <<>>
        ELSE LET seed == CHOOSE v \in unseen : \A w \in unseen : v <= w
             IN <<Flood(t, seed)>> \o from[unseen \ Flood(t, seed)]
  IN from[Vertices(t)]

Inside(t, component) == {e \in t.edges : e \subseteq component}

(* The first `max` of them get a record; the records are then sorted, the  *)
(* largest first and of equal ones that found first.                       *)
Components(t, max) ==
  LET found == Found(t)
      kept == SubSeq(found, 1, AtMost(max, Len(found)))
      Before(i, j) == \/ Cardinality(kept[i]) > Cardinality(kept[j])
                      \/ /\ Cardinality(kept[i]) = Cardinality(kept[j])
                         /\ i < j
      order == CHOOSE p \in [DOMAIN kept -> DOMAIN kept] :
                 \A i, j \in DOMAIN kept : i < j => Before(p[i], p[j])
  IN [count |-> Len(found), truncated |-> Len(found) > Len(kept),
      components |-> [i \in DOMAIN order |->
                        [vertices |-> kept[order[i]],
                         edges |-> Inside(t, kept[order[i]])]]]

ListComponents(max) ==
  /\ NothingAsked
  /\ LET answer == Components(mesh.topo, AtLeast(1, AtMost(ListLimit, max)))
     IN listing' = [rev |-> mesh.rev, unnoticed |-> FALSE, count |-> answer.count,
                    truncated |-> answer.truncated,
                    components |-> answer.components]
  /\ UNCHANGED <<mesh, past, reader>>

-----------------------------------------------------------------------------
(* The mesh goes into the history, which forgets what it has no room for.  *)
Remember(m) ==
  past' \in {kept \in SUBSET (past \cup {m}) : Cardinality(kept) <= MaxPast}

(* A change that whoever reads is not told of by a new revision.           *)
Unnoticed ==
  /\ reader' = [reader EXCEPT !.unnoticed = reader # NoPages]
  /\ listing' = [listing EXCEPT !.unnoticed = listing # NoListing]

(* An agent's topology operation: identity.py:94-100.                      *)
RevisionKept(rev) == rev
NextRevision(rev) == rev + 1

Rebuild(t) ==
  /\ mesh.rev < MaxRev
  /\ Remember(mesh)
  /\ mesh' = [rev |-> NextRevision(mesh.rev), topo |-> t]
  /\ UNCHANGED <<reader, listing>>

(* mesh.recalc_normals turns faces, and is not counted as topology.        *)
RecalcNormals(t) ==
  /\ [t EXCEPT !.turned = mesh.topo.turned] = mesh.topo
  /\ Remember(mesh)
  /\ mesh' = [mesh EXCEPT !.topo = t]
  /\ Unnoticed

(* The user's edit mode: no revision.                                      *)
UserEdits(t) ==
  /\ mesh' = [mesh EXCEPT !.topo = t]
  /\ Remember(mesh')
  /\ Unnoticed

(* Undo or redo, by the user, by transaction.rollback or by the recovery   *)
(* of a failed method, over any number of steps.                           *)
Restore ==
  /\ mesh' \in past
  /\ Unnoticed
  /\ UNCHANGED past

ReadInit ==
  /\ \E t \in Topologies : mesh = [rev |-> 0, topo |-> t]
  /\ past = {mesh}
  /\ reader = NoPages
  /\ listing = NoListing

ReadNext ==
  \/ \E offset \in Offsets, limit \in Limits : FirstPage(offset, limit)
  \/ \E limit \in Limits : NextPage(limit)
  \/ StartAgain
  \/ \E max \in Limits : ListComponents(max)
  \/ \E t \in Topologies : Rebuild(t) \/ RecalcNormals(t) \/ UserEdits(t)
  \/ Restore

-----------------------------------------------------------------------------
ReadTypeOK ==
  /\ mesh.rev \in 0..MaxRev /\ mesh.topo \in Topologies
  /\ past \subseteq [rev : 0..MaxRev, topo : Topologies]
  /\ Cardinality(past) <= MaxPast
  /\ reader.revs \subseteq 0..MaxRev /\ reader.offset \in Nat

(* PAGES ARE WHOLE.  An agent that pages to the end and saw one revision   *)
(* on all pages, which the mesh still has, has read every element once, in *)
(* order and as it is, whatever topology operations other agents did       *)
(* between the pages (mesh.py:47-97, identity.py:94).  The revision does   *)
(* not tell of the user's edits, of recalculated normals and of a mesh     *)
(* that was put back: of these there must have been none since page one.   *)
PagesWhole ==
  ~reader.more /\ ~reader.unnoticed /\ reader.revs = {mesh.rev} =>
    reader.items = [k \in 1..mesh.topo.vertices |-> Item(mesh.topo, k - 1)]

(* COMPONENTS ARE RIGHT.  A listing whose revision the mesh still has,     *)
(* with no unnoticed change since, counts the classes of connected         *)
(* vertices, says whether it left some out, gives no class twice or in     *)
(* part, the largest first, and accounts for every edge of the classes it  *)
(* gives (mesh_query.py:231-295).                                          *)
EdgesStay(t, S) == \A e \in t.edges : e \cap S # {} => e \subseteq S

(* What is connected with v: what every set holds that holds v and that no *)
(* edge leaves.                                                            *)
Class(t, v) ==
  {w \in Vertices(t) :
     \A S \in SUBSET Vertices(t) : v \in S /\ EdgesStay(t, S) => w \in S}
Classes(t) == {Class(t, v) : v \in Vertices(t)}

ComponentsRight ==
  listing # NoListing /\ ~listing.unnoticed /\ listing.rev = mesh.rev =>
    LET t == mesh.topo
        given == listing.components
    IN /\ listing.count = Cardinality(Classes(t))
       /\ listing.truncated <=> Len(given) < listing.count
       /\ \A i \in DOMAIN given :
            /\ given[i].vertices \in Classes(t)
            /\ given[i].edges = {e \in t.edges : e \cap given[i].vertices # {}}
       /\ \A i, j \in DOMAIN given : i < j =>
            /\ given[i].vertices # given[j].vertices
            /\ Cardinality(given[i].vertices) >= Cardinality(given[j].vertices)
=============================================================================
