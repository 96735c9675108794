----------------------------- MODULE MCEvidence -----------------------------
(* Evidence on a small instance.                                           *)
EXTENDS Evidence, TLC

MCSymmetry ==
  Permutations(Things) \cup Permutations(Geometries) \cup Permutations(Rests)

MCOffsets == {-1, 0}

(* Graphs whose indices do not follow the components, or the way through   *)
(* them, one of them also with its faces turned over, and small ones.      *)
Graph(n, edges, turned) ==
  [vertices |-> n, edges |-> edges, turned |-> turned]

MCTopologies ==
  {Graph(0, {}, FALSE), Graph(2, {{0, 1}}, FALSE),
   Graph(4, {{1, 3}, {3, 2}}, FALSE), Graph(4, {{0, 2}, {1, 3}}, FALSE)}
    \cup {Graph(4, {{0, 3}, {3, 1}, {1, 2}}, turned) : turned \in BOOLEAN}
=============================================================================
