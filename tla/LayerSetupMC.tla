----------------------------- MODULE LayerSetupMC -----------------------------
(* Two calls that share two workers, in opposite order, and a third worker,  *)
(* without a pipeline handler, that only the first call uses.                *)
EXTENDS LayerSetup

CONSTANTS s1, s2, w1, w2, w3

MCPlan == [s \in {s1, s2} |-> IF s = s1 THEN <<w1, w2>> ELSE <<w2, w3>>]
MCMaxReleases == [w \in {w1, w2, w3} |-> IF w = w2 THEN 1 ELSE 0]
=============================================================================
