------------------------- MODULE MCBlenderTransport -------------------------
(* BlenderTransport on small instances; each .cfg chooses which.           *)
EXTENDS BlenderTransport, TLC

MCSymmetry ==
  Permutations(Clients) \cup Permutations(Links) \cup Permutations(Ids)
=============================================================================
