------------------------------ MODULE Evidence ------------------------------
(***************************************************************************)
(* What agents are told and shown: the parts of the Blender host that read *)
(* a mesh, compare snapshots, borrow the viewport and draw id passes, and  *)
(* the adapter's pictures.  None of these parts reads what another writes, *)
(* so their interleavings say nothing that each does not say alone: a      *)
(* behaviour follows one of them.                                          *)
(***************************************************************************)
EXTENDS BlenderReads, BlenderSnapshots, BlenderCapture, BlenderPerception,
        McpImages

VARIABLE part  \* the part that a behaviour follows

vars == <<part, readVars, snapVars, captureVars, idVars, imageVars>>

Parts == {"reads", "snapshots", "capture", "ids", "images"}

(* The parts that are not followed rest in one initial state.              *)
Init ==
  /\ part \in Parts
  /\ ReadInit
  /\ part # "reads" => mesh.topo = CHOOSE t \in Topologies : TRUE
  /\ SnapInit
  /\ part # "snapshots" => world.frame = CHOOSE f \in Frames : TRUE
  /\ CaptureInit
  /\ part # "capture" => ui = CHOOSE u \in UserUi : TRUE
  /\ IdInit
  /\ part # "ids" => pass.mode = "object"
  /\ ImageInit
  /\ part # "images" => artifact = CHOOSE a \in Artifact : TRUE

Next ==
  \/ part = "reads" /\ ReadNext
       /\ UNCHANGED <<part, snapVars, captureVars, idVars, imageVars>>
  \/ part = "snapshots" /\ SnapNext
       /\ UNCHANGED <<part, readVars, captureVars, idVars, imageVars>>
  \/ part = "capture" /\ CaptureNext
       /\ UNCHANGED <<part, readVars, snapVars, idVars, imageVars>>
  \/ part = "ids" /\ IdNext
       /\ UNCHANGED <<part, readVars, snapVars, captureVars, imageVars>>
  \/ part = "images" /\ ImageNext
       /\ UNCHANGED <<part, readVars, snapVars, captureVars, idVars>>

Spec == Init /\ [][Next]_vars

-----------------------------------------------------------------------------
(* TYPES.  Every variable of every part in its range; the store never      *)
(* holds more than its capacity, and at most one GPU buffer is allocated.  *)
TypeOK ==
  /\ part \in Parts
  /\ ReadTypeOK /\ SnapTypeOK /\ CaptureTypeOK /\ IdTypeOK /\ ImageTypeOK
=============================================================================
