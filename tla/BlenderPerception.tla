------------------------- MODULE BlenderPerception --------------------------
(***************************************************************************)
(* The id passes of perception.capture_bundle (_draw_id_pass,              *)
(* ops/perception.py): every instance, or every material, is drawn in a    *)
(* colour that codes a number, and a palette says whose number it is.      *)
(*                                                                         *)
(* The GPU draws a batch over the pixels where it is nearer than what is   *)
(* there: any set of pixels.  A buffer of eight bits a channel gives back  *)
(* the digits it was given (external).                                     *)
(***************************************************************************)
EXTENDS Naturals, Sequences

CONSTANTS
  Base,       \* 256: the values of a colour channel
  Pixels,
  Materials,  \* (library, name) of a material, or none
  MaxEntries, \* bound: what there is to draw
  Nobody      \* what is in front where nothing was drawn

ASSUME BaseAssumption == Base \in Nat \ {0, 1} /\ MaxEntries \in Nat
ASSUME NobodyAssumption == Nobody \notin Materials \cup Nat

VARIABLES
  pass,   \* "object" or "material", its next code and number of entries
  frame,  \* the frame buffer
  palette,\* the owner of each code
  nearest \* history: whose batch is in front at each pixel

idVars == <<pass, frame, palette, nearest>>

(* _palette_color, _palette_rgb, and how an agent reads a colour: the      *)
(* buffer is cleared to all zeros, which is no code.                       *)
FitsOneMore(code) == code > 0 /\ code <= Base * Base * Base
Fits(code) == code > 0 /\ code < Base * Base * Base
Rgb(code) == <<(code \div (Base * Base)) % Base, (code \div Base) % Base, code % Base>>
Clear == <<0, 0, 0>>
Read(rgb) == rgb[1] * Base * Base + rgb[2] * Base + rgb[3]

Running == pass.result = "running"

Drawn(owner, code, pixels) ==
  /\ frame' = [p \in Pixels |-> IF p \in pixels THEN Rgb(code) ELSE frame[p]]
  /\ nearest' = [p \in Pixels |-> IF p \in pixels THEN owner ELSE nearest[p]]

(* The object pass: the n-th instance has no triangles and is skipped, or  *)
(* takes the next code.                                                    *)
Skip ==
  /\ Running /\ pass.mode = "object" /\ pass.entries < MaxEntries
  /\ pass' = [pass EXCEPT !.entries = @ + 1]
  /\ UNCHANGED <<frame, palette, nearest>>

Instance == pass.entries + 1

(* The material pass: a group of triangles of one material takes the code  *)
(* its material has, or the next one.                                      *)
Owners == IF pass.mode = "object" THEN {Instance} ELSE Materials
CodesOf(owner) == {code \in DOMAIN palette : palette[code] = owner}

(* The palette of the material pass learns of a code before it is known to *)
(* fit.                                                                    *)
Draw(owner, pixels) ==
  /\ Running /\ pass.entries < MaxEntries
  /\ LET isNew == CodesOf(owner) = {}
         code == IF isNew THEN pass.code
                 ELSE CHOOSE c \in CodesOf(owner) : TRUE
         learned == IF isNew THEN Append(palette, owner) ELSE palette
     IN \/ /\ Fits(code)
           /\ pass' = [pass EXCEPT !.entries = @ + 1,
                                   !.code = IF isNew THEN @ + 1 ELSE @]
           /\ palette' = learned
           /\ Drawn(owner, code, pixels)
        \/ /\ ~Fits(code)
           /\ pass' = [pass EXCEPT !.result = "RESOURCE_LIMIT"]
           /\ palette' = IF pass.mode = "material" THEN learned ELSE palette
           /\ UNCHANGED <<frame, nearest>>

(* The buffer is read.                                                     *)
Finish ==
  /\ Running
  /\ pass' = [pass EXCEPT !.result = "OK"]
  /\ UNCHANGED <<frame, palette, nearest>>

IdInit ==
  /\ \E mode \in {"object", "material"} :
       pass = [mode |-> mode, code |-> 1, entries |-> 0, result |-> "running"]
  /\ frame = [p \in Pixels |-> Clear]
  /\ palette = <<>>
  /\ nearest = [p \in Pixels |-> Nobody]

IdNext ==
  \/ Skip
  \/ \E owner \in Owners, pixels \in SUBSET Pixels : Draw(owner, pixels)
  \/ Finish

-----------------------------------------------------------------------------
IdTypeOK ==
  /\ pass.code \in 1..(MaxEntries + 1) /\ pass.entries \in 0..MaxEntries
  /\ frame \in [Pixels -> (0..(Base - 1)) \X (0..(Base - 1)) \X (0..(Base - 1))]
  /\ palette \in Seq(Materials \cup 1..MaxEntries)

(* PIXELS DECODE.  Where nothing was drawn an agent reads no code; where   *)
(* something was, it reads a code that the palette has and that belongs to *)
(* what is in front there, and no owner has two codes: at the 24-bit limit *)
(* the pass fails rather than start over (perception.py:71-83, 144-219).   *)
PixelsDecode ==
  /\ \A p \in Pixels :
       IF nearest[p] = Nobody THEN Read(frame[p]) = 0
       ELSE /\ Read(frame[p]) \in DOMAIN palette
            /\ palette[Read(frame[p])] = nearest[p]
  /\ \A c, d \in DOMAIN palette : palette[c] = palette[d] => c = d
=============================================================================
