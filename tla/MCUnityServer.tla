--------------------------- MODULE MCUnityServer ---------------------------
(* UnityServer on small instances; the .cfg chooses which.                 *)
EXTENDS UnityServer, TLC
=============================================================================
