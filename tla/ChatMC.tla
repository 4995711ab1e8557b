------------------------------- MODULE ChatMC -------------------------------
(* Two turns and two visits of the page, with a local model and two mesh      *)
(* peers, the handle of one of which is a number that JavaScript can hold.    *)
EXTENDS Chat, TLC

CONSTANTS t1, t2, conv1, model, peer, odd, rounded

MCAsNumber  == model :> model @@ peer :> peer @@ odd :> rounded
MCMaxTokens == t1 :> 2 @@ t2 :> 1
=============================================================================
