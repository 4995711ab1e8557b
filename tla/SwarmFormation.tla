---------------------------- MODULE SwarmFormation ----------------------------
(***************************************************************************)
(* form_swarms: grouping peers into swarms                                 *)
(* (crates/hivebear-mesh/src/swarm/formation.rs).  A peer is its position  *)
(* in the list given to form_swarms; cap is its memory, near the pairs of  *)
(* peers whose latency is acceptable.                                      *)
(***************************************************************************)
EXTENDS LayerShares

CONSTANTS
  MinPeer,      \* min_peer_capacity_bytes
  MinDrafter,   \* min_drafter_capacity_bytes
  MinCapacity,  \* MIN_SWARM_CAPACITY_BYTES
  MaxDepth,     \* max_pipeline_depth
  Least,        \* min_layers_per_stage
  MinSwarm,     \* MIN_SWARM_SIZE
  Sizes,        \* the models' sizes, in the order of the list
  LayerCounts   \* their numbers of layers

ASSUME FormationAssumption ==
  /\ MinPeer \in Nat \ {0} /\ MinDrafter \in Nat /\ MinCapacity \in Nat
  /\ MaxDepth \in Nat /\ Least \in Nat \ {0} /\ MinSwarm \in Nat \ {0, 1}
  /\ Sizes \in Seq(Nat) /\ LayerCounts \in Seq(Nat \ {0}) /\ Len(Sizes) = Len(LayerCounts)

Models == DOMAIN Sizes
NoModel == 0

\* The largest model in 85 % of the capacity, the last of equals.
BestModel(capacity) ==
  LET fits == {m \in Models : 100 * Sizes[m] <= 85 * capacity}
      best == {m \in fits : \A k \in fits : Sizes[k] <= Sizes[m]}
  IN IF fits = {} THEN NoModel ELSE Max(best)

\* Peers too weak for a swarm draft, unless they are too weak for that too.
Drafters(peers, cap) == {p \in peers : cap[p] < MinPeer /\ cap[p] >= MinDrafter}
Eligible(peers, cap) == Ranked({p \in peers : cap[p] >= MinPeer}, cap, [p \in peers |-> 0])

\* The peer and, in order, every free one that is near all taken so far.
Candidates(order, i, assigned, near) ==
  LET found[j \in 0..Len(order)] ==
        IF j = 0 THEN <<i>>
        ELSE IF \/ j = i \/ j \in assigned
                \/ Len(found[j - 1]) >= MaxDepth
                \/ \E k \in DOMAIN found[j - 1] :
                     {order[j], order[found[j - 1][k]]} \notin near
             THEN found[j - 1]
             ELSE Append(found[j - 1], j)
  IN found[Len(order)]

Member(p, role, c, from, to) == [peer |-> p, role |-> role, cap |-> c, from |-> from, to |-> to]

\* The members with their layers: the strongest leads, those left without
\* layers are left out.
FormMembers(strongest, cap, layers) ==
  LET stages == Stages(strongest, cap, layers, Least)
  IN [k \in DOMAIN stages |->
        Member(stages[k].peer, IF stages[k].peer = strongest[1] THEN "leader" ELSE "worker",
               cap[stages[k].peer], stages[k].from, stages[k].to)]

\* sorted_candidates: in the order they were found when they are equal.
ByCapacity(members, cap) ==
  LET places == DOMAIN members
      order == OrderedBy(places, {e \in places \X places :
                 \/ cap[members[e[1]]] > cap[members[e[2]]]
                 \/ cap[members[e[1]]] = cap[members[e[2]]] /\ e[1] < e[2]})
  IN [k \in DOMAIN order |-> members[order[k]]]

\* One round of the greedy loop, for the i-th strongest peer.
FormOne(acc, order, i, cap, near) ==
  LET group == Candidates(order, i, acc.assigned, near)
      members == [k \in DOMAIN group |-> order[group[k]]]
      capacity == Total([k \in DOMAIN members |-> cap[members[k]]])
      model == BestModel(capacity)
      strongest == ByCapacity(members, cap)
      placed == FormMembers(strongest, cap, LayerCounts[model])
  IN IF \/ i \in acc.assigned
        \/ Len(group) < MinSwarm
        \/ capacity < MinCapacity
        \/ model = NoModel
        \/ LayerCounts[model] < Least * Smallest(Len(group), MinSwarm)
     THEN acc
     ELSE [assigned |-> acc.assigned \cup
                          {g \in ToSet(group) : \E k \in DOMAIN placed : placed[k].peer = order[g]},
           swarms |-> Append(acc.swarms, [model |-> model, members |-> placed, status |-> "forming"])]

FormSwarms(peers, cap, near) ==
  LET order == Eligible(peers, cap)
      formed[i \in 0..Len(order)] ==
        IF i = 0 THEN [assigned |-> {}, swarms |-> <<>>]
        ELSE FormOne(formed[i - 1], order, i, cap, near)
  IN formed[Len(order)].swarms
=============================================================================
