--------------------------- MODULE MeshSessionMC ---------------------------
(* Two sessions with one worker; or a contributor and a mesh run that finds  *)
(* it and asks twice.                                                        *)
EXTENDS MeshCommands, TLC

CONSTANTS s1, s2, t1, t2, w1, k

MCTarget    == s1 :> w1 @@ s2 :> w1 @@ t1 :> k @@ t2 :> k
MCMaxTokens == s1 :> 2 @@ s2 :> 1 @@ t1 :> 1 @@ t2 :> 1
=============================================================================
