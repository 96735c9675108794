-------------------------- MODULE MCBlenderObjects --------------------------
(* BlenderObjects on small instances; each .cfg chooses which.             *)
EXTENDS BlenderObjects, TLC

MCSymmetry ==
  Permutations(Objects) \cup Permutations(Meshes) \cup Permutations(Topologies)
=============================================================================
