----------------------------- MODULE McpImages ------------------------------
(***************************************************************************)
(* The picture the MCP adapter puts before a model (_model_image of        *)
(* mcp_server.py, called by rv_capture and rv_perception): the artifact    *)
(* itself if it is small enough, otherwise a JPEG of it, of ever lower     *)
(* quality and, round after round, ever smaller.                           *)
(*                                                                         *)
(* What the encoder makes of a picture may have any number of bytes        *)
(* (external); a picture is known by how often it was made smaller.        *)
(***************************************************************************)
EXTENDS Naturals

CONSTANTS
  Weights,    \* bytes that an artifact or a JPEG may have
  Limit,      \* max_bytes
  Qualities,  \* 5: the qualities that are tried in a round
  Rounds      \* 8

ASSUME RoundAssumption ==
  /\ Weights \subseteq Nat /\ Limit \in Nat
  /\ Qualities \in Nat \ {0} /\ Rounds \in Nat \ {0}

VARIABLES
  artifact,  \* what the host left on disk
  loop,      \* the round and the quality that are next; the last encoding
  image      \* what is returned, with what is said about it

imageVars == <<artifact, loop, image>>

Artifact == [exists : BOOLEAN, named : BOOLEAN, readable : BOOLEAN,
             bytes : Weights]  \* named: its suffix is that of a PNG or JPEG
NoImage == [code |-> "NONE"]

Encoding == [bytes : Weights \cup {0}, shrunk : 0..Rounds]

Within(bytes) == bytes <= Limit

Returned(transcoded, encoding, says, exceeded) ==
  [code |-> "OK", transcoded |-> transcoded, encoding |-> encoding,
   says |-> says, exceeded |-> exceeded]

(* As it is, without opening it.                                           *)
Small == artifact.exists /\ artifact.named /\ Within(artifact.bytes)

Preserve ==
  /\ image = NoImage /\ Small
  /\ image' = Returned(FALSE, [bytes |-> artifact.bytes, shrunk |-> 0], 0, FALSE)
  /\ UNCHANGED <<artifact, loop>>

(* FileNotFoundError, or what Pillow raises of what it cannot read: the    *)
(* caller answers an error.                                                *)
CannotOpen ==
  /\ image = NoImage /\ ~Small
  /\ ~artifact.exists \/ ~artifact.readable
  /\ image' = [code |-> "ERROR"]
  /\ UNCHANGED <<artifact, loop>>

Transcoding ==
  /\ image = NoImage /\ ~Small
  /\ artifact.exists /\ artifact.readable

Encode(bytes) ==
  /\ Transcoding /\ loop.quality < Qualities
  /\ LET best == [bytes |-> bytes, shrunk |-> loop.round]
     IN /\ loop' = [loop EXCEPT !.best = best, !.quality = @ + 1]
        /\ image' = IF Within(bytes)
                    THEN Returned(TRUE, best, loop.round, FALSE) ELSE image
  /\ UNCHANGED artifact

(* All qualities were tried: a smaller picture, for the next round or, the *)
(* last time, for nothing but the size that is reported.                   *)
SaidNothing(best) == FALSE
Exceeded(best) == ~Within(best.bytes)

Shrink ==
  /\ Transcoding /\ loop.quality = Qualities
  /\ loop' = [loop EXCEPT !.round = @ + 1, !.quality = 0]
  /\ image' = IF loop.round + 1 < Rounds THEN image
              ELSE Returned(TRUE, loop.best, loop.round + 1, Exceeded(loop.best))
  /\ UNCHANGED artifact

ImageInit ==
  /\ artifact \in Artifact
  /\ loop = [round |-> 0, quality |-> 0, best |-> [bytes |-> 0, shrunk |-> 0]]
  /\ image = NoImage

ImageNext ==
  \/ Preserve \/ CannotOpen \/ Shrink
  \/ \E bytes \in Weights : Encode(bytes)

-----------------------------------------------------------------------------
ImageTypeOK ==
  /\ loop.round \in 0..Rounds /\ loop.quality \in 0..Qualities
  /\ loop.best \in Encoding

(* THE IMAGE IS AS SAID.  What is returned is within the limit, or it says *)
(* that it is not; and within the limit the size that is reported is that  *)
(* of the returned picture, and not of one that was made smaller since     *)
(* (mcp_server.py:30-72).                                                  *)
ImageAsSaid ==
  image.code = "OK" =>
    /\ image.exceeded <=> ~Within(image.encoding.bytes)
    /\ ~image.exceeded => image.says = image.encoding.shrunk
=============================================================================
