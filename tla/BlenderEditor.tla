--------------------------- MODULE BlenderEditor ---------------------------
(***************************************************************************)
(* What the Blender host uses of Blender: the scene, the fingerprint the   *)
(* host takes of it, and the global undo history.  No state of its own;    *)
(* BlenderHost keeps the scene and the history and changes them with these *)
(* operators.                                                              *)
(*                                                                         *)
(* A scene has two parts.  `shape` is all that scene_snapshot(deep=True)   *)
(* hashes: objects, transforms, parents, mesh digests, the names, types    *)
(* and visibility of modifiers.  `hidden` is all it does not: the settings *)
(* of a modifier, material contents, custom normals.  Two scenes have the  *)
(* same fingerprint exactly when they have the same shape: SHA-256 is      *)
(* taken to be injective on the canonical form.                            *)
(***************************************************************************)
LOCAL INSTANCE Naturals
LOCAL INSTANCE Sequences

CONSTANTS
  Shapes,        \* values of the fingerprinted part of the scene
  Hidden,        \* values of the part no fingerprint covers
  UndoCapacity   \* bound: how many boundaries Blender's history keeps

ASSUME CapacityAssumption == UndoCapacity \in Nat \ {0}

Scene == [shape : Shapes, hidden : Hidden]

(* The fingerprint of a deep snapshot: a function of the shape alone.      *)
Fingerprint(s) == s.shape

(***************************************************************************)
(* The history: a sequence of boundaries, the active one last.  Undoing    *)
(* drops the boundaries it passes; a later redo is one more edit by the    *)
(* user, who reaches the same scene again.                                 *)
(***************************************************************************)
(* ed.undo_push: the new boundary holds the whole scene, and a full        *)
(* history forgets its oldest one.                                         *)
Pushed(history, s) ==
  IF Len(history) < UndoCapacity THEN Append(history, s)
                                 ELSE Append(Tail(history), s)

(* Where one ed.undo may land: on the boundary before the active one, or,  *)
(* when the scene holds changes no boundary has, on the active one.        *)
UndoStops(s, history) ==
  {p \in 1..Len(history) :
     \/ p = Len(history) - 1
     \/ p = Len(history) /\ s # history[p]}

(* Position 0 stands for "nothing was undone".                             *)
SceneAt(s, history, p) == IF p = 0 THEN s ELSE history[p]

HistoryAt(history, p) == IF p = 0 THEN history ELSE SubSeq(history, 1, p)

(* Where the host's loop of ed.undo calls may end when it looks for a      *)
(* fingerprint, at most `limit` calls long.  It stops at the first match.  *)
(* Before that Blender may refuse a call (the operator's poll fails, or it *)
(* does not answer FINISHED), at the first call already, so any position   *)
(* the loop passes can also be where it gives up.                          *)
UndoLoopEnds(s, history, target, limit) ==
  {0} \cup
  {p \in 1..Len(history) :
     \E first \in UndoStops(s, history) :
        /\ p <= first
        /\ first - p < limit
        /\ \A q \in (p + 1)..first : Fingerprint(history[q]) # target}
=============================================================================
