# TLA+ models of RoboVision

RoboVision lets agents inspect and edit a scene in Blender or Unity. What
makes it hard to get right is not the editing: it is that the user edits the
same scene at the same time, that the host learns of it only through a flag
and a fingerprint, that undo is the only means of repair, and that requests
and answers cross a network. These modules model that part, and around it
what agents are told: identities, element references, pages, diffs, pictures.

## 1. The system

| Component | State it keeps | Operations | What makes it correct |
|---|---|---|---|
| Blender runtime (`runtime.py`) | revision, dirty flag, cached fingerprint, 32 snapshots | `start`, `stop`, `mark_dirty`, `dispatch`, dirty check, own-mutation accept, recovery | a revision stands for one scene; guarded writes meet the scene that was read; an error keeps the state or says it does not |
| Transaction manager (`transactions.py`) | the open transaction, its BEGIN fingerprint, its external-change mark | begin, commit, rollback, prepare, recover, mark | one transaction at a time; no clean end after a foreign edit; a successful rollback is back at BEGIN |
| Transport (`transport.py`) | listener, clients in order, receive and send buffers | `poll` (accept, read, dispatch, flush), start, stop | each request dispatched at most once, in order; answers neither lost nor mixed up; everyone is served |
| Client (`client.py`) | socket, buffer | `call`, `close` | a call returns the answer to its own request or raises |
| Identity and mesh revisions (`identity.py`, `ops/mesh*.py`) | ids and revisions stored as custom properties in the scene | resolve, repair duplicates, assert and bump a mesh revision | an id means one object; a stale element index is refused |
| Snapshots (`snapshots.py`, `ops/scene.py`) | the last 32, in the runtime | deep/shallow snapshot, diff | the newest can be compared with; a diff names every difference |
| Mesh reads (`ops/mesh.py`, `ops/mesh_query.py`) | none of their own | pages of elements, components | pages of one revision are one mesh; components are the connected classes |
| Perception and viewport (`ops/perception.py`, `ops/viewport.py`, `context.py`) | editor state borrowed from the user | capture, bundle, id passes, object override | all is given back; a colour names one owner |
| Unity host (`RoboVisionHost.cs`, `RoboVisionTransactions.cs`, `RoboVisionBootstrap.cs`) | the same as the Blender runtime, in a static host that a domain reload re-creates | the same, over Unity undo groups | the same contract |
| Unity server (`RoboVisionServer.cs`) | listener, clients in order, byte lists | poll (from the newest client), start, dispose | in order, nobody hung up on, everyone served |
| MCP adapter (`mcp_server.py`) | none: one connection per call | tools, image loop | images within a size limit, or said not to be |

**How they interact.** A client writes a line to a loopback connection. A
timer on Blender's main thread calls `poll`, which hands complete lines to
`dispatch`. `dispatch` first runs the dirty check (a deep snapshot if the
depsgraph handler has raised the flag), compares `if_revision`, pushes an undo
boundary and takes a checkpoint, calls the handler, and accepts the new scene
as a new revision; an exception starts the recovery. The user edits through
Blender between two timer ticks. No code of the host runs on another thread.

**What is hard.** Edits between any two requests; edits while the server is
stopped and no handler is installed; undo that is refused, stops early, or has
forgotten the boundary; failures half way through a handler, a rollback, a
commit or a recovery; fingerprints that do not cover everything; answers that
arrive after their caller gave up; clients that crowd out others; ids and
revisions that are stored in the scene and therefore copied by the user and
taken back by undo; a reload that starts the host over; a mesh that is rebuilt,
edited or put back between two pages. `PROJECT.json` lists these hazards at
their lines.

## 2. The modules

    HostContract          what any host promises its agents (abstract)
      ^ implement ^
    BlenderHost  UnityHost
      |   ^          ^-- MCUnityHost, UnityHostProofs
      |   |-- MCBlenderHost
      |   `-- BlenderHostProofs
      v
    BlenderEditor         scene, fingerprint, undo history
      ^                   (Blender itself: external)
    BlenderObjects        ids and mesh revisions stored in that scene
      ^-- MCBlenderObjects, BlenderObjectsProofs

    BlenderTransport      server and clients, and TCP between them
      ^-- MCBlenderTransport, BlenderTransportProofs
                              ^-- BlenderTransportOrder
    UnityServer           the other server, clients with several requests
      ^-- MCUnityServer, UnityServerProofs

    Evidence              what agents are told and shown: one behaviour
      |                   follows one of its parts
      |-- BlenderReads, BlenderSnapshots, BlenderCapture,
      |   BlenderPerception, McpImages
      ^-- MCEvidence, EvidenceProofs

The modules `MC...` are instances for TLC, the modules `...Proofs` and
`BlenderTransportOrder` hold theorems, and `QueueLemmas` what their proofs need
to know of sequences: joined, cut in two, moved from the end of one to the
front of the next.

### BlenderHost over BlenderEditor

| Module | Code |
|---|---|
| `dirty`, `lastFp`, `revision` | `_dirty`, `_last_fingerprint`, `revision` |
| `tx` | `TransactionManager.active`: its id, BEGIN fingerprint, external-change mark |
| `running` | `transport.running`: the timer runs and the handler is installed |
| `scene`, `undo` | Blender's scene and undo history |
| `view[a]` | what agent `a` last learned: a revision and the fingerprint it stood for |
| `reply` | the answer of the dispatch this step made |
| `atBegin`, `beginAt` | history: the scene at BEGIN, and where BEGIN's boundary is in `undo` |
| `owned`, `foreign`, `unsure` | history: what the last answer left, whether a foreign scene was found since BEGIN, whether a request ended without saying what it left |

One action is one `dispatch` (or `start`, `stop`, one thing the user did), for
the main thread does one of these at a time. `Refreshed` is the dirty check,
and every dispatch action starts from its result `Now`. The actions are the
ways in which a dispatch changes what the host believes or what is in Blender:

| Method | It succeeds | It is refused, or raises before it changed anything | It fails on the way |
|---|---|---|---|
| a read | `Read` | `Reject` | |
| a mutation | `Mutate` | `RefuseStale`, `MutateWithoutBoundary` | `MutateFails`: recovered, or MUTATION_RECOVERY_INCOMPLETE; `MutateEscapes`: the recovery itself raises, and nobody is answered |
| begin | `Begin` | `RefuseBegin` | |
| commit | `Commit` | `RefuseControl`, `CommitWithoutBoundary` | `CommitRaises`: after its push, before it closes the transaction |
| rollback | `Rollback` | `RefuseStale`, `RefuseControl` | `RollbackIncomplete`: no match; `RollbackRaises`: an undo or the snapshot after it raises; `RollbackUnaccepted`: the snapshot raises that should accept a rollback whose transaction is closed |

Not told apart are ends that leave the same behind: a dirty check that raises
(nothing changed, the flag still up) is as if the request had not come, a
begin whose snapshot raises is `Reject`, a handler that succeeds and is then
not accepted is recovered as one that raised (`MutateFails`).

Abstractions, and why they keep what matters:

* A scene is a `shape`, the part a deep snapshot hashes, and a `hidden` part
  it does not (settings of modifiers, contents of materials, normals). The
  fingerprint is the shape: SHA-256 is taken to be injective. The handler of a
  mutating method is any change of the scene.
* The history is a sequence of boundaries with the active one last. An undo
  lands on the boundary before it, or on the active one itself when the scene
  holds changes no boundary has. It may be refused (poll, result) or raise at any
  call, so a loop of undo calls may end anywhere on its way, with an answer of
  its own for either. A redo is one more edit.
  A push may be refused too (Global Undo off, wrong context).
* The depsgraph handler runs before the next timer tick after a change, also
  after the host's own undo calls, and may run when nothing changed.
* The identity repairs that a snapshot makes are not in this module.
* `begin` and `commit` are registered as non-mutating, so no revision guards
  them; that is modelled as it is.
* An `if_revision` is one some agent learned, or absent. Any agent may send
  any agent's: agents talk to each other.

### HostContract

The contract of `docs/HOST_CONTRACT.md` and sections 5 and 6 of
`docs/ARCHITECTURE.md`, with no dirty flag, undo or failure: a state that only
changes with a growing revision, and a transaction with a fixed base, that a
foreign change taints with a revision of its own, and that ends tainted only by
force. A rollback that met an exception may have dropped the transaction:
nothing is published for it (`Drop`). The refinement reads the contract's state
from the *cached* fingerprint; `InSync` ties that to the scene. Both hosts are
compared with this one module. A rollback that changes nothing may keep its
revision, for Unity's does (Blender's never does); a reload of Unity's domain
is outside the contract, which says nothing of a host that starts over.

### UnityHost

| Module | Code |
|---|---|
| `dirty`, `lastFp`, `revision` | `_dirty`, `_fingerprint`, `_revision` |
| `running`, `hooked` | a server object with a listener exists; `Update` and the change handlers are installed. `Start` that raises leaves the first without the second |
| `tx` | `RoboVisionTransactions._active` |
| `scene` | what `CaptureState` would return of the loaded scenes |
| `view[a].old` | a domain reload came since agent `a` read |
| `owned`, `foreign` | history, read by properties only |

Its actions are those of `BlenderHost` without an undo history: Unity's
`RevertAllDownToGroup` leaves any scene (`RecoveryEnds`, `Rollback`,
`RollbackIncomplete`), and the host believes the fingerprint it takes
afterwards. That fingerprint may raise (`RollbackRaises`), and so may the one
that should accept a rollback whose transaction is closed
(`RollbackUnaccepted`), the one of a commit (`CommitRaises`), the checkpoint of
a mutation (`MutateUnprepared`), and anything in a recovery (`MutateEscapes`),
where only `RoboVisionException` is caught: in the first two the host leaves
the flag as the editor's events left it (`Unaccepted`). New are `StartFails`
and `Reload`. `Announced` is the assumption that the editor raises one of the
four events the host listens to for every change; ARCHITECTURE.md:61 says it of
the hosts, and everything a host promises about other people's edits rests on
it.

### BlenderObjects

| Module | Code |
|---|---|
| `scene.list` | `bpy.data.objects` in the order of names, each with the id stored under `_robovision_id` and its mesh |
| `scene.meshes[m]` | the revision stored under `_robovision_mesh_revision`, and what element indices refer to |
| `undo` | boundaries of Blender's history: they hold ids and revisions like everything else |
| `dirty` | the next dispatch takes a deep snapshot, and so repairs ids |
| `fresh` | the next uuid |
| `ref` | a reference an agent holds: id, mesh revision, and what they stood for |
| `root`, `born` | history: what the user's copies were made of |

A dispatch is `Now` (the repair the dirty check makes), the method, and the
repair made when the new scene is accepted (`Accepts`). `Rebuild` stands for
every topology method, which differ in the topology they leave; `Apply` gives
an object a mesh of its own first. `RecalcNormals` is the one method that takes
element indices with no mesh revision beside them; what it changes is no
topology. The user copies ids with objects, renames,
deletes and edits; `Undo` is anybody's. Ids of linked objects are derived and
never stored, and the fallback to names only reads: both are left out.

### Evidence

Five parts that share no state; a behaviour of `Evidence` follows one of them,
so that one run checks all without multiplying them.

* `BlenderReads`: an agent collects pages (`FirstPage`, `NextPage`) or lists
  components while agents rebuild the mesh (`Rebuild`, a new revision) and
  others change it with none: `UserEdits`, `RecalcNormals`, and `Restore`, by
  which an undo, a rollback or a recovery brings back a mesh of the history
  (`past`) with the revision stored in it. `unnoticed` is history: whether one
  of those came since the first page or the listing. `Flood` is the breadth-first
  search; the reference definition, `Classes`, has no search in it: the class
  of a vertex is what every set holds that holds the vertex and that no edge
  leaves.
* `BlenderSnapshots`: the store and `diff_snapshots`. A thing has a look, a
  geometry that only a deep snapshot tells, and a rest that none does (modifier
  settings, UVs, normals, materials' contents, digits after the ninth). What a
  snapshot of either depth would have told is kept as history (`of`), to
  compare what a diff says with what changed.
* `BlenderCapture`: `capture`, `capture_bundle` and `modifier.apply` as the
  assignments they make one by one, any of which may raise, and their
  `finally` blocks.
* `BlenderPerception`: `_draw_id_pass` with the codes as digits of a base; the
  GPU puts a batch in front at any set of pixels. An owner is the index of its
  instance, so that no owner gets two codes is not a result of this module: the
  key that recognises an instance, `_instance_key`, is not modelled.
* `McpImages`: `_model_image` with encodings of any size.

### BlenderTransport

| Module | Code |
|---|---|
| `link[k].recv`, `.send` | `_Client.recv_buffer`, `send_buffer` |
| `link[k].c2s`, `.s2c` | the kernel's buffers; the front of `s2c` is the client's own `_buffer` |
| `link[k].client`, `.server` | which ends are open |
| `backlog`, `order` | connections to accept; `self.clients` in dict order |
| `turn`, `stage`, `remaining` | where `poll` is: clients still to serve, reading or dispatching, what is left of `command_budget` |
| `sock`, `call`, `unsent` | `_socket`; the request of the call under way; sends half done |
| `outcome`, `executed`, `link[k].late` | history: how a call ended, dispatch counts, whether a call on the connection timed out |

The clients are other processes, so `poll` is a sequence of steps they
interleave with: `Poll` accepts, then for each client `Receive` (or `HangUp`,
`TooLarge`), `Dispatch` per line (or `RejectLine`, `DispatchRaises`), and
`FinishTurn`, which flushes. On loopback what was sent is readable at once. A
line is its request's identifier (an answer to a line the server refuses has
none: protocol.py:16 answers `"invalid"`, which `IdsAssumption` keeps apart); a
request over the size limit is two pieces, so that the limit can be found
passed before or after its line ends, and a send that times out half way glues
the next request to it. A failed send on a
dead connection changes nothing and is not a step. `DispatchRaises` stands for
an exception `dispatch` does not catch (a failing undo operator inside the
recovery, a result `json.dumps` refuses); `_tick` ends the poll.

### UnityServer

`link`, `backlog`, `stage`, `remaining` are as above; `clients` is `_clients`,
the oldest first, and `turn` what the loop from its end has still to serve, so
`Poll` walks from the newest. It differs from the Blender transport where the
code does: end of stream is tested after all there is was read, so whole
requests of a client that left are dropped (`HangUp`); the size limit is
tested per chunk and only while no line ends in the buffer (`Overflows`); the
`MESSAGE_TOO_LARGE` answer is dropped with the client (`TooLarge`); an
exception in `Receive` or `Dispatch` leaves the loop (`ReadRaises`,
`DispatchRaises`) and the clients behind wait for the next update. Its clients
may have several requests under way. `Wire` is all that is under way on a
connection, answers first; `Starts` are the positions where a request or the
answer to one starts, which is what `InOrder` follows from step to step.

## 3. What the runs check

| Run | Instance | Result |
|---|---|---|
| `blender_host` | 2 agents, 3 shapes, history of 3, revisions 0 to 2, undo loops of 2 | `TypeOK`, `InSync`, `NoStaleWrite`, `OneRevisionOneScene`, `MarkExplained`, `FailureKeepsState`, `CleanClose`, `KeepsContract`, `StopsAtBegin` hold |
| `unity_host` | 2 agents, 3 shapes, revisions 0 to 3 | `TypeOK`, `InSync`, `NoStaleWrite`, `FailureKeepsState`, `CleanClose`, `KeepsContract` hold |
| `objects` | 2 objects, 2 meshes, 2 topologies, 3 ids, history of 2 | `TypeOK`, `UniqueIds`, `DurableId`, `RelatedOrNothing`, `GuardedTopology` hold |
| `blender_transport` | 2 clients, 2 connections, 3 requests in use, budget 2, room for 1 answer, fair | `Conserved`, `LateForGood`, `Answered` hold |
| `blender_transport_faults` | the same with large requests, room for 2 answers and raising dispatches | `TypeOK`, `AtMostOnce`, `OwnAnswer`, `MismatchExplained`, `NotOvertaken` hold |
| `unity_server` | 2 connections, 2 requests in use, budget 3, room for 1 answer, one accept per poll, one exception, fair | `TypeOK`, `InOrder`, `HeardOut`, `Answered` hold |
| `evidence` | six meshes of 0, 2 and 4 vertices, one of them also with its faces turned, a history of 1, store of 2, 4 passes, 2-valued channels, 2 rounds of 2 qualities | `TypeOK`, `PagesWhole`, `ComponentsRight`, `NewestKept`, `DiffTells`, `GivenBack`, `PixelsDecode`, `ImageAsSaid` hold |
| `blender_exact_rollback` | 2 shapes, 2 hidden parts, history of 4 | `ExactRollback` violated |
| `unity_reload` | 1 agent, 2 shapes | `StaleIsRefused` violated |
| `stale_topology` | as `objects`, the user edits no topology | `StaleReferencesFail` violated |
| `unguarded_indices` | the same | `StaleIndicesRejected` violated |
| `context_restored` | as `evidence` | `ContextRestored` violated |

The five violations are disagreements between the code and what the
repository says of it:

1. *Rollback proves less than it says.* A rollback whose BEGIN fingerprint is
   already there succeeds without an undo, but `modifier.set` changes values
   that no fingerprint covers. The shortest run: begin, a mutation of a hidden
   value, rollback answers success, the value stays.
2. *Unity's revision is monotonic only between reloads.* A domain reload
   constructs the host with revision 0. An agent that read revision 0 before,
   and comes back after a reload, is admitted to whatever the scene is now.
3. *Stale references do not always fail.* The mesh revision lives in the mesh:
   rebuild (1), read a reference, undo (0), rebuild otherwise (1), and the
   reference is admitted for another topology.
4. *Not every method that takes indices rejects stale ones.* README.md:12 and
   HOST_CONTRACT.md:32 have element indices count only beside a revision;
   `mesh.recalc_normals` takes face indices without one. Read a reference, let
   another agent rebuild, and the old indices are taken for new faces.
5. *Context is not always restored.* HOST_CONTRACT.md:36 has an adapter that
   "supplies and restores explicit context". A `modifier.apply` with no active
   object succeeds and leaves its object active (the run's trace); so does one
   after which Blender refuses the old mode, and leaves object mode
   (context.py:79 calls that intentional).

Two more sentences of the repository say more than the code does, without a
run of their own, because a property that holds says better what is true:

* ARCHITECTURE.md:65 has rollback perform "only the transaction's recorded undo
  count". The code has no count; it undoes until the fingerprint matches, up to
  `max_steps`. `StopsAtBegin` says how far that is safe: as long as the history
  has BEGIN's boundary and one above it, nothing from before BEGIN is undone. If
  a full history dropped that boundary or the user undid past it, the loop does
  go on into the user's own steps.
* The error TRANSACTION_CONTAMINATED speaks of "an out-of-band Blender edit"
  (transactions.py:150). `MarkExplained` says what a mark means: a request found
  a scene nobody was told of, or a request of the transaction ended without
  saying what it left. After an incomplete rollback or recovery, or one that
  raised, it is the host's own remains that are found.

What the properties had to leave room for, and a reader should know:

* `DurableId` and `RelatedOrNothing`: after the user copies an object the copy
  whose name sorts first keeps the id and the original gets a new one; an
  undo of the copying gives it back. An id never leads to an unrelated object.
* `FailureKeepsState`: an exception in a rollback is answered HOST_EXCEPTION
  with no recovery, for a rollback has no checkpoint. The scene may be anywhere
  on the way, with the flag up, or back at BEGIN with the transaction gone. On
  Unity it may be any scene, and the flag is up because the revert announces
  itself. An agent that gets HOST_EXCEPTION for a rollback has to look.
* `GivenBack`: the two ends of finding 5; and modes whose `bpy.context.mode` is
  no value of `mode_set` (`PAINT_WEIGHT`, `EDIT_CURVE`) raise a `TypeError` from
  the `finally`, so that an apply that was done is answered as failed (and undone
  by the recovery).
* `GuardedTopology` is about references the guard admits, while the user edits
  no topology and nothing is undone: findings 3 and 4 are what it leaves out.
* `PagesWhole`, `ComponentsRight`: a revision tells of agents' topology
  operations only. It does not tell of the user's edits, of recalculated
  normals, or of a mesh that an undo, a rollback or a recovery put back, after
  which another rebuild gives the same number to another topology.
* `ImageAsSaid`: when the limit was exceeded to the end, `model_size` is that
  of a picture one step smaller than the one returned. The property says
  nothing of the size then, and no document does.
* `ComponentsRight`: a truncated list holds the components found first, which
  are then sorted; it need not hold the largest.
* `DiffTells`: two shallow snapshots are equal although geometry differs, a
  deep one never equals a shallow one when a mesh is there, and two deep ones
  are equal although what neither records differs: `modifier.set`, then
  `scene.diff`, says equal.
* `HeardOut`: a client that sends too much also loses the answers of requests
  dispatched before, and is told nothing.

**Bounds.** Three shapes are the least that tell apart a BEGIN state, an own
change and a foreign one; two agents are the least for one to be stale.
Revisions 0 to 2 allow a read, a change and a guarded write after it, and
between these restarts, failures and rollbacks that publish nothing. A history
of three is filled and overflows, so the loss of BEGIN is explored, and loops of
two stop short of it. In the transports two
connections compete for a budget they can exhaust, and one answer fills the
buffer; three requests let one Blender client have two under way and one late.
In `objects` two objects are an original and its copy, or two that share a
mesh; three ids let a duplicate be repaired twice; one mesh revision is enough
to be taken back and given out again. In `evidence` channels of two values
make the palette of eight codes overflow within nine entries, the store of two
evicts the first of three snapshots, pages of three split four vertices, four
vertices have components that indices do not follow, and a history of one is
enough to put back a mesh whose revision is then given out again. `MaxRevision`,
`MaxId`, `MaxMeshRev` and the like bound the guards of actions and name what
they cut off; every run explores all states within them.

**Fairness.** None for the hosts: nobody has to send a request. For the
transports, weak fairness of the server's steps (the timer or the editor's
update calls poll again and again; the steps of a poll follow one another) and
of what a client must do to be served: the Blender client's receive; for Unity
also the rest of a half-sent line, without which there is nothing to answer.
None for calls, timeouts, close, start and stop. `Answered` of Blender needs no
more clients than the budget (with more, those at the front of the dict can
starve the others for ever: with a budget of 1 and two clients TLC finds the
cycle) and excludes clients that kept a connection after a timeout, whose
backlog does the same. `Answered` of Unity needs the others together to have
less under way than the budget, for the newest are served first at every poll,
and finitely many exceptions.

**Deadlock** is checked in every run but `evidence`, some of whose parts are
calls that run to an end (an id pass, an image).

## 4. What is proved

With TLAPS, for every value of the constants that meets the assumptions named
here. The assumptions are the modules' own ASSUMEs, which TLC evaluates on the
instances; none says more than that bounds are numbers, that `None` and the
like are values of their own, and what the text gives a reason for. The proof
modules are laid out alike: the inductive invariant, lemmas about the
operators, one lemma per action or kind of step, then the theorems.

| Proof module | Invariants of runs proved | Steps and refinement |
|---|---|---|
| `BlenderHostProofs` | `TypeOK`, `InSync`, `NoStaleWrite`, `OneRevisionOneScene`, `MarkExplained` | `FailureKeepsState`, `CleanClose`, `StopsAtBegin`; implements `HostContract` |
| `UnityHostProofs` | `TypeOK`, `InSync`, `NoStaleWrite` | `FailureKeepsState`, `CleanClose`; implements `HostContract` |
| `BlenderObjectsProofs` | `TypeOK`, `UniqueIds`, `DurableId`, `RelatedOrNothing`, `GuardedTopology` | |
| `BlenderTransportProofs` | `TypeOK`, `AtMostOnce` | `OwnAnswer`, `MismatchExplained` |
| `BlenderTransportOrder` | | `Conserved`, `LateForGood`, `NotOvertaken` |
| `UnityServerProofs` | `TypeOK` | `InOrder`, `HeardOut` |
| `EvidenceProofs` | `TypeOK`, `PagesWhole`, `ComponentsRight`, `NewestKept`, `DiffTells`, `GivenBack`, `PixelsDecode`, `ImageAsSaid` | |

**`BlenderHostProofs`.** Assumptions: `CapacityAssumption` (the history
holds at least one boundary), `NoneAssumption` (`None` is no shape, id or
number), `BoundAssumption` (the bounds are numbers). None of the safety
invariants is inductive alone. The invariant `IInv` adds to `TypeOK` and
`InSync`:

* `Looked`: a running host, and one that has a transaction or that any agent
  has a view of, has cached a fingerprint;
* `OwnedIsCached`: the fingerprint the last answer left is the cached one;
* `ForeignIsMarked`: if a foreign state was found since BEGIN, the
  transaction is marked; `MarkExplained` is the way back, for which
  `OwnedUnlessUnsure` says that otherwise an answer's fingerprint is known;
* `ViewsHold`: every view is of an older revision, or of the present one and
  then of the cached fingerprint.

The argument: every step either keeps revision and cache together or raises
the revision (`Moves`), and an agent only learns the pair the host then holds
(`Learns`). `NextStep` shows this action by action; `ViewsStep` concludes that
what the agents know survives; the refinement needs `Moves` and the dirty
check's facts alone. `StopsAtBegin` needs that the boundary at `beginAt` has the
transaction's fingerprint, wherever pushes and undos have moved it
(`BeginIsHeld`): then the loop matches there at the latest.

**`UnityHostProofs`.** The same argument, over a host that an edit may escape
and a reload may start over. `IInv` is `TypeOK`, and if `Announced` (the editor
raises an event for every change) the same facts about cache and views, where
`ViewsHold` leaves out what an agent learned before the reload: such a view is
of another numbering of revisions. The invariants name `Announced` themselves
where they need it, and the refinement is `Announced => (Spec =>
KeepsContract)`: without the events the host can promise nothing about other
people's edits. `FailureKeepsState` needs only `TypeOK`, and the events where it
says that the flag is up.

**`BlenderObjectsProofs`.** An id is a value stored in a scene, so what holds
now must hold of every scene an undo can bring back. The idea is the kin of an
id: the root of the object it was given to. `IInv` says that there is a
kin for every id given out so far, such that in the scene and in every
scene of the undo history an id is stored only in objects of that root
(`KinOf`), objects and ids are old ones (`Sound`) and unused meshes hold
nothing (`Tidied`); that no two objects share an id unless the host is dirty
(`Named`); and that a reference an agent holds is worth what its history allows
(`Worth`): its object keeps its id as long as nobody copied it and nothing was
undone, and its revision stands for its topology as long as the user left the
mesh alone. A dispatch is a repair, a method and a repair: one lemma says that a
repair leads from good scenes to good scenes (`RepairGood`), another that every
method and every edit of the user does (`DerivedGood`), and an undo returns a
scene that was good when it was left. The ids a repair gives out are numbered by
their positions, which is where cardinalities come in (`Numbered`).

**`BlenderTransportProofs`.** A server step does one of a few things to one
connection, so lemmas speak of two queues per connection: the pieces on their
way to dispatch (`Arrived`) and the answers on their way to the client
(`Replies`). `IInv` is `TypeOK` and

* `LinkInv`: a tail directly follows its head, no request waits twice as a
  line, an answer not the transport's own names its request;
* `ClientInv`: a connection in use is one client's alone; a request half sent is
  nowhere a line nor answered (`Half`); before a call on it timed out, a
  connection carries the request of the call under way or one answer, its own
  or an error (`Timely`);
* `History`: what waits was never dispatched and waits on one connection only,
  what is answered was dispatched once.

`AtMostOnce` needs `History`, and that needs `LinkInv`: the dangerous step is
the late tail of a request that timed out, which glues the next request to
itself. `OwnAnswer` and `MismatchExplained` follow from `Timely`. Assumptions:
`NoneAssumption`, `LimitAssumption`, `IdsAssumption`.

**`BlenderTransportOrder`.** Requests and answers move through a connection's
queues as through one, which each step shortens at its front or lengthens
at its end.

* Without large requests and without dispatches that raise (`Plain`, the
  instance `blender_transport` runs) that queue holds every request once, and
  `Conserved` and `LateForGood` say what becomes of it. `PlainInv` says that all
  pieces are lines, that a connection carries a request or answer for the call
  under way and, once late, one more, and that what comes first on a late
  connection is never of the call under way.
* In general a raising dispatch takes a request from the queue without an answer,
  and a request cut in two may get an error for its head and another for its
  tail. What is left is `NotOvertaken`: no two requests that are under way change
  places. The dangerous step is the limit (transport.py:83-88): the error for a
  head is put behind all answers while its tail may still be on its way. It
  passes nobody only because of `OrderInv`, which holds without `Plain`
  (`OrderHeld`): the pieces of a request are next to each other (`InOnePlace`), a
  head not yet read has no error (`Unwarned`), and nothing comes after a head
  whose tail is not sent (`LastSent`). Each kind of step is first a lemma about
  two sequences (`TakenInOrder`, `ReadInOrder`, `WarnedInOrder`, `JoinsInOrder`),
  then one about connections (`Proceeds`).

Assumptions: those of `BlenderTransportProofs`.

**`UnityServerProofs`.** `IInv` is `TypeOK` and, for every connection, that the
kernel's buffer is within its capacity, that a tail follows its head (`Framed`)
and that no request is under way twice (`OneEach`). `InOrder` and `HeardOut`
compare a connection before and after a step. Each of the steps keeps, drops or
adds pieces, and the comparison is by maps of positions that keep their order
(`Within`), so that one lemma about such maps serves all steps.
Assumption: `LimitAssumption`.

**`EvidenceProofs`.** Each part has an invariant of its own, and a step of a
behaviour is a step of one part and of no other (`PartSteps`); `Sound` is all of
them.

* Pages: if nothing changed the mesh unnoticed since the first page, no page is
  of a revision above the mesh's, and pages of the mesh's own revision alone are
  the beginning of its elements (`ReadInv`, `Agrees`). Then a rebuild gives a
  revision no page has, which is what makes this inductive; after an unnoticed
  change it need not, and nothing is claimed.
* Components: a search goes out in waves, each the one before and what its
  vertices have an edge to, until a wave brings nothing new, at the latest after
  as many waves as there are vertices (`WavesExist`, `FloodWaves`). What it
  finds is then a set no edge leaves, and the least one with its first vertex
  (`FloodIsLeast`), so it is that vertex's class. Two such sets are the same or
  apart (`FloodsMeet`); a search therefore leaves whole classes to the searches
  after it, which find every class once (`FoundIsClasses`). What is listed are
  the first of them, in an order of sizes that exists because a finite set of
  numbers can be enumerated upwards (`OrderingSorts`). `ListInv` says all this
  of the last answer; no other step touches it while the mesh is the same. The
  recursion of search and list counts up to a number. The library's
  induction theorems take an operator and cannot be used, so inductions are by
  a least counterexample among the numbers (`CountingUp`, `FirstOf`).
* Snapshots: the ids in the store are consecutive and end before the next one
  (`Run`), there are as many as were taken until the store is full, and each
  body is what its scene had to say at its depth (`Whole`). For equal answers of
  two depths `GeometryAssumption` keeps "untold" apart from the geometries.
* Borrowing: a call saved all it is to give back before it assigned anything
  (`Busy`), and plans only assignments that its own `finally` undoes: viewport
  methods never touch selection, mode and active object, the override nothing
  else. At rest (`Rested`) is what `GivenBack` says, and that the editor is in a
  state users can be in.
* Id passes: the palette has the codes that were given out, each owner once, and
  a pixel shows the colour of a code of its owner (`Shows`). `Decoded` shows that
  a number below the cube of the base is read back from its three digits, from
  the uniqueness of quotient and rest (`Quotient`).
* Pictures: as long as nothing is returned a round is left, and the last
  encoding was too big.

Assumptions: those of the five modules; `TopologyAssumption` says that a mesh
has a natural number of vertices and that an edge joins two of them,
`BaseAssumption` that a channel has at least two values.

**Only model-checked.** `Answered`, of both transports: liveness from
fairness, and ENABLED, are beyond the provers. `Conserved` and `LateForGood`
are not true of the Blender transport beyond `Plain` instances and not claimed
there; `NotOvertaken` is what holds of every instance. The five violations of
section 3 are counterexamples and stay with TLC.

## 5. Plan

The modules planned are written, and every safety property a run checks is
proved. What is left is liveness, which stays with TLC.

## 6. Not modelled

GPU drawing, image encoding and camera mathematics; the geometry that mesh
operators compute, and the filters and sorts of `mesh.query` and the counts of
`mesh.validate`, which are arithmetic on coordinates; the tool registry, tool
documentation and panels; how Unity's tools walk the editor's objects; file and
package installation; what Blender and Unity do beyond what the hosts observe
of them. The bytes of JSON, numbers and timings are abstracted throughout.
