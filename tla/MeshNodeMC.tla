----------------------------- MODULE MeshNodeMC -----------------------------
(* A node among three peers: at p's private address q may answer, and z is   *)
(* banned.                                                                   *)
EXTENDS MeshNode, TLC

CONSTANTS p, q, z

MCReach == p :> {p, q} @@ q :> {q} @@ z :> {}
=============================================================================
