--------------------------- MODULE CoordinatorMC ---------------------------
(***************************************************************************)
(* The three machines Coordinator_proofs is about, which share no state: a *)
(* behaviour is one of the coordinator, one of a set of swarms and their   *)
(* router, or one call of a cloud model, and `part' says which.  The other *)
(* two stay where they start.                                              *)
(*                                                                         *)
(* The coordinator has two nodes, two server tasks, two receipts that      *)
(* share their anti-replay key, one of which needs a registered client.    *)
(***************************************************************************)
EXTENDS Coordinator, SwarmMC, CloudStreamMC

CONSTANTS n1, n2, low, high

MCReceipts   == {low, high}
MCWorker     == low :> n1 @@ high :> n2
MCClient     == low :> n2 @@ high :> n2
MCTokens     == low :> 1 @@ high :> 2
MCKey        == low :> low @@ high :> low
MCMaxSignals == n1 :> 3 @@ n2 :> 0

VARIABLE part

\* One start for the swarms and for the call while they are not the part.
SwarmsAtRest == LET i == CHOOSE j \in MCInstances : TRUE
                IN cap = i.cap /\ near = i.near /\ changes = i.changes
CallAtRest == /\ protocol = "openai" /\ key = KeyFrom("openai", FALSE, FALSE, FALSE)
              /\ mode = "stream" /\ messages = <<"user">>

\* What is streamed does not depend on the conversation: the long one is given to
\* generate, whose request has the same body.
MCInit == /\ part \in {"coordinator", "swarms", "cloud"}
          /\ Init /\ SwarmInit /\ CloudInit
          /\ part # "swarms" => SwarmsAtRest
          /\ part # "cloud" => CallAtRest
          /\ mode = "stream" => messages = <<"user">>

\* The provider of a cloud model may fall silent, and a call that is over stays
\* so: the last disjunct.
MCNext == /\ UNCHANGED part
          /\ \/ part = "coordinator" /\ Next /\ UNCHANGED <<swarmVars, cloudVars>>
             \/ part = "swarms" /\ SwarmNext /\ UNCHANGED <<vars, cloudVars>>
             \/ part = "cloud" /\ CloudNext /\ UNCHANGED <<vars, swarmVars>>
             \/ part = "cloud" /\ UNCHANGED <<vars, swarmVars, cloudVars>>

\* The coordinator's fairness. It binds no step of the other parts: without a
\* node there is nothing to prune, and no handler runs.
MCSpec == MCInit /\ [][MCNext]_<<part, vars, swarmVars, cloudVars>> /\ Fairness
=============================================================================
