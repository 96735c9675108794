--------------------------- MODULE MCBlenderHost ---------------------------
(* BlenderHost on small instances; each .cfg chooses which.                *)
EXTENDS BlenderHost, TLC

MCSymmetry ==
  Permutations(Agents) \cup Permutations(Shapes) \cup Permutations(Hidden)
    \cup Permutations(TxIds)
=============================================================================
