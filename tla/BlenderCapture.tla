--------------------------- MODULE BlenderCapture ---------------------------
(***************************************************************************)
(* The editor state that Blender methods borrow from the user and give     *)
(* back: viewport.capture (ops/viewport.py), the viewport and GPU passes   *)
(* of perception.capture_bundle (ops/perception.py), and modifier.apply    *)
(* through active_object_override (context.py).  Whatever raises between   *)
(* borrowing and giving back, the `finally` blocks run.                    *)
(*                                                                         *)
(* A call runs on the main thread from end to end: the user acts only      *)
(* between calls.  What a call does to the scene is not modelled here.     *)
(***************************************************************************)
EXTENDS Naturals, Sequences

CONSTANTS
  Solids,      \* objects that can be active or selected
  Modes,       \* bpy.context.mode
  ObjectMode,  \* "OBJECT"
  Settable,    \* modes whose name, less "_MESH", mode_set knows (external)
  Passes,      \* the passes of a bundle that an agent asks for
  None

ASSUME ModeAssumption ==
  ObjectMode \in Settable /\ Settable \subseteq Modes /\ None \notin Solids

VARIABLES
  ui,      \* what methods borrow of the editor
  call,    \* the method in progress, or the last one
  buffers, \* GPU offscreen buffers that are allocated
  before   \* history: what `ui` was when the call came

captureVars == <<ui, call, buffers, before>>

Shadings == {"WIREFRAME", "SOLID", "MATERIAL", "RENDERED"}
ViewportPasses == {"color", "solid", "wireframe"}
ASSUME PassAssumption ==
  Passes \subseteq ViewportPasses \cup {"ids", "normals"}

(* `file` stands for the render path and format of the scene.              *)
Ui == [shading : Shadings, overlays : BOOLEAN, file : {"user", "ours"},
       mode : Modes, active : Solids \cup {None}, selected : SUBSET Solids]

(* A call: what it is still to assign, what it has read to give back, the  *)
(* passes still to draw, and the shading "color" is drawn with.  refused:  *)
(* history, whether Blender did not let the mode be given back.            *)
Call(method, plan, passes) ==
  [method |-> method, step |-> "borrow", plan |-> plan, saved |-> ui,
   passes |-> passes, color |-> ui.shading, failed |-> FALSE,
   refused |-> FALSE]

NoCall == [method |-> "none", step |-> "idle", plan |-> <<>>, saved |-> ui,
           passes |-> {}, color |-> ui.shading, failed |-> FALSE,
           refused |-> FALSE]

Idle == call.step = "idle"

Assigned(field, value) == <<[field |-> field, value |-> value]>>
AssignedIf(condition, field, value) ==
  IF condition THEN Assigned(field, value) ELSE <<>>

-----------------------------------------------------------------------------
(* viewport.capture: the requested shading and overlays, if any, and the   *)
(* render path.                                                            *)
Capture(shading, overlays) ==
  /\ Idle
  /\ call' = Call("capture",
                  AssignedIf(shading # None, "shading", shading)
                    \o AssignedIf(overlays # None, "overlays", overlays)
                    \o Assigned("file", "ours"),
                  {})
  /\ before' = ui
  /\ UNCHANGED <<ui, buffers>>

(* perception.capture_bundle: pass after pass, the viewport passes first;  *)
(* each has a buffer of its own.                                           *)
PassPlan(pass, color) ==
  IF pass \in ViewportPasses
  THEN Assigned("shading", CASE pass = "color" -> color
                             [] pass = "solid" -> "SOLID"
                             [] OTHER -> "WIREFRAME")
         \o Assigned("overlays", FALSE)
  ELSE <<>>

Ready(passes) ==
  LET viewport == passes \cap ViewportPasses
  IN IF viewport # {} THEN viewport ELSE passes

Bundle(passes) ==
  /\ Idle /\ passes # {}
  /\ \E pass \in Ready(passes) :
       call' = Call("bundle", PassPlan(pass, ui.shading), passes \ {pass})
  /\ buffers' = buffers + 1
  /\ before' = ui
  /\ UNCHANGED ui

(* modifier.apply: object mode, and the object alone selected and active.  *)
Apply(o) ==
  /\ Idle
  /\ call' = Call("apply",
                  AssignedIf(ui.active # None /\ ui.mode # ObjectMode,
                             "mode", ObjectMode)
                    \o Assigned("selected", {o}) \o Assigned("active", o),
                  {})
  /\ before' = ui
  /\ UNCHANGED <<ui, buffers>>

-----------------------------------------------------------------------------
Borrow ==
  /\ call.step = "borrow" /\ call.plan # <<>>
  /\ ui' = [ui EXCEPT ![Head(call.plan).field] = Head(call.plan).value]
  /\ call' = [call EXCEPT !.plan = Tail(@)]
  /\ UNCHANGED <<buffers, before>>

(* The drawing, the render, Blender's operator.                            *)
Work ==
  /\ call.step = "borrow" /\ call.plan = <<>>
  /\ call' = [call EXCEPT !.step = "finally"]
  /\ UNCHANGED <<ui, buffers, before>>

(* An assignment that Blender refuses, a poll that fails, an operator that *)
(* does not finish, anything that raises.                                  *)
Raise ==
  /\ call.step = "borrow"
  /\ call' = [call EXCEPT !.step = "finally", !.failed = TRUE]
  /\ UNCHANGED <<ui, buffers, before>>

(* The `finally` of a viewport method, and of active_object_override: the  *)
(* active object comes back if there was one, and the mode if mode_set     *)
(* takes its name and Blender allows it.                                   *)
ViewKept(saved) == ui
ViewBack(saved) ==
  [ui EXCEPT !.shading = saved.shading, !.overlays = saved.overlays,
             !.file = saved.file]

ModeBack(saved) == saved.active # None /\ saved.mode # ObjectMode

Overridden(saved, mode) ==
  [ui EXCEPT !.selected = saved.selected,
             !.active = IF saved.active = None THEN @ ELSE saved.active,
             !.mode = mode]

(* Anything but RuntimeError leaves the `finally`: the call fails.         *)
Unknown(saved) == ModeBack(saved) /\ saved.mode \notin Settable

Finished(failed, refused) ==
  [call EXCEPT !.step = "idle", !.plan = <<>>, !.passes = {},
               !.saved = before, !.color = before.shading, !.failed = failed,
               !.refused = refused]

GiveBackMode ==
  /\ call.method = "apply"
  /\ LET asked == ModeBack(call.saved) /\ ~Unknown(call.saved)
     IN \E refused \in BOOLEAN :
          /\ refused => asked
          /\ ui' = Overridden(call.saved, IF asked /\ ~refused
                                          THEN call.saved.mode ELSE ui.mode)
          /\ call' = Finished(call.failed \/ Unknown(call.saved), refused)
  /\ UNCHANGED buffers

GiveBackView ==
  /\ call.method = "capture"
  /\ ui' = ViewBack(call.saved)
  /\ call' = Finished(call.failed, FALSE)
  /\ UNCHANGED buffers

(* A pass is over: its picture is saved, which may raise, and the next     *)
(* pass reads again what it will give back.                                *)
PassOver ==
  /\ call.method = "bundle"
  /\ ui' = ViewBack(call.saved)
  /\ \/ /\ \E failed \in {call.failed, TRUE} :
             (failed \/ call.passes = {}) /\ call' = Finished(failed, FALSE)
        /\ buffers' = buffers - 1
     \/ /\ ~call.failed
        /\ \E pass \in Ready(call.passes) :
             call' = [call EXCEPT !.step = "borrow", !.saved = ui',
                        !.plan = PassPlan(pass, call.color),
                        !.passes = @ \ {pass}]
        /\ UNCHANGED buffers

Finally ==
  /\ call.step = "finally"
  /\ GiveBackMode \/ GiveBackView \/ PassOver
  /\ UNCHANGED before

-----------------------------------------------------------------------------
(* The user, between calls.  Without an active object there is only object *)
(* mode.                                                                   *)
UserUi == {u \in Ui : u.file = "user" /\ (u.active = None => u.mode = ObjectMode)}

User ==
  /\ Idle
  /\ ui' \in UserUi
  /\ before' = ui'
  /\ call' = [call EXCEPT !.method = "none", !.saved = ui',
                          !.color = ui'.shading, !.failed = FALSE,
                          !.refused = FALSE]
  /\ UNCHANGED buffers

CaptureInit ==
  /\ ui \in UserUi
  /\ before = ui /\ buffers = 0
  /\ call = NoCall

CaptureNext ==
  \/ \E shading \in Shadings \cup {None}, overlays \in BOOLEAN \cup {None} :
       Capture(shading, overlays)
  \/ \E passes \in SUBSET Passes : Bundle(passes)
  \/ \E o \in Solids : Apply(o)
  \/ Borrow \/ Work \/ Raise \/ Finally \/ User

-----------------------------------------------------------------------------
CaptureTypeOK == ui \in Ui /\ buffers \in 0..1 /\ before \in UserUi

(* GIVEN BACK.  After a call, failed or not and wherever it failed, the    *)
(* user has the shading, the overlays, the render path and the selection   *)
(* he had, and no GPU buffer is left.  modifier.apply alone touches mode   *)
(* and active object.  If there was an active object it is active again;   *)
(* and the mode is back too, unless Blender refused it, or mode_set does   *)
(* not know its name and the call fails, whatever it had done              *)
(* (context.py:42-90, viewport.py:89-119, perception.py:287-309).          *)
GivenBack ==
  Idle =>
    /\ buffers = 0
    /\ \A field \in {"shading", "overlays", "file", "selected"} :
         ui[field] = before[field]
    /\ ui.active # before.active =>
         call.method = "apply" /\ before.active = None
    /\ ui.mode # before.mode =>
         /\ call.method = "apply" /\ ui.mode = ObjectMode
         /\ IF before.mode \in Settable THEN call.refused ELSE call.failed

(* CONTEXT IS RESTORED (HOST_CONTRACT.md:36).  A call that succeeds leaves *)
(* the mode, the active object and the selection as it found them.         *)
(* modifier.apply does not where no object was active, nor where Blender   *)
(* refuses the old mode: context.py:72-81.                                 *)
ContextRestored ==
  Idle /\ ~call.failed =>
    \A field \in {"mode", "active", "selected"} : ui[field] = before[field]
=============================================================================
