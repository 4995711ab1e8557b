------------------------------- MODULE SwarmMC -------------------------------
(***************************************************************************)
(* Four peers; a model of six layers and one of seven. Memory in units of *)
(* half a gigabyte: a peer needs four to be in a swarm, one to draft.      *)
(***************************************************************************)
EXTENDS Swarm

MCPeers == 1..4
Pairs == {{p, q} : p, q \in MCPeers} \ {{p} : p \in MCPeers}
Memory(a, b, c, d) == <<a, b, c, d>>
\* Alike in one place; unequal, two of them far from each other; one so strong
\* that the others get few layers or none, with a fourth too weak to join or
\* not; alike in two places, which makes two swarms for the router to choose
\* from.
MCInstances ==
  {[cap |-> Memory(6, 6, 6, 6), near |-> Pairs, changes |-> 3],
   [cap |-> Memory(6, 9, 7, 5), near |-> Pairs \ {{1, 4}}, changes |-> 3],
   [cap |-> Memory(60, 4, 4, 2), near |-> Pairs, changes |-> 3],
   [cap |-> Memory(60, 4, 4, 4), near |-> Pairs, changes |-> 0],
   [cap |-> Memory(6, 10, 6, 10), near |-> {{1, 2}, {3, 4}}, changes |-> 0]}
MCSizes == <<5, 12>>
MCLayerCounts == <<6, 7>>
Symmetric == Permutations(Callers)
=============================================================================
