--------------------------- MODULE MCMeshCoreLink ---------------------------
(* A node with two channel endpoints that is connected up to three times. *)
EXTENDS MeshCoreLink, TLC

CONSTANTS e1, e2
=============================================================================
