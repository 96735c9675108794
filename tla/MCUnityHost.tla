---------------------------- MODULE MCUnityHost ----------------------------
(* UnityHost on small instances; each .cfg chooses which.                  *)
EXTENDS UnityHost, TLC

MCSymmetry ==
  Permutations(Agents) \cup Permutations(Shapes) \cup Permutations(TxIds)
=============================================================================
