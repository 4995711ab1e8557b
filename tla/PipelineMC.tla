----------------------------- MODULE PipelineMC -----------------------------
(* A session over two workers and one over the second of them, on one node.  *)
EXTENDS Pipeline, TLC

CONSTANTS s1, s2, w1, w2, n1, n2

MCHome      == s1 :> n1 @@ s2 :> n1
MCPlan      == s1 :> <<w1, w2>> @@ s2 :> <<w2>>
MCMaxTokens == s1 :> 4 @@ s2 :> 1
=============================================================================
