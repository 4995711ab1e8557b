------------------------------ MODULE LayerShares ------------------------------
(***************************************************************************)
(* How the layers of a model are shared out among computers by their       *)
(* memory: the one computation behind both schedulers                      *)
(* (crates/hivebear-mesh/src/scheduler/), the forming of swarms and their  *)
(* rebalancing (swarm/).                                                   *)
(*                                                                         *)
(* The code divides in f64; here the quotient is exact, so that a tie the  *)
(* f64 product rounds the other way moves one layer to the neighbour.      *)
(***************************************************************************)
EXTENDS Naturals, Sequences, FiniteSets, SequencesExt, Ordering

Total(caps) ==
  LET sum[n \in 0..Len(caps)] == IF n = 0 THEN 0 ELSE sum[n - 1] + caps[n]
  IN sum[Len(caps)]
Largest(a, b) == IF a > b THEN a ELSE b
Smallest(a, b) == IF a < b THEN a ELSE b

\* (capacity / total * layers).round()
Proportion(cap, total, layers) == (2 * cap * layers + total) \div (2 * total)

\* A slip: the last member gets its proportion too.
HandedByProportion(caps, layers, least) ==
  LET n == Len(caps)
      total == Total(caps)
      cursor[i \in 0..n] ==
        IF i = 0 THEN 0
        ELSE cursor[i - 1] + Smallest(Largest(Proportion(caps[i], total, layers), least),
                                      layers - cursor[i - 1])
  IN cursor

\* layer_cursor after the first i members: each gets its proportion, at least
\* `least` and at most what is left; the last one gets what is left.
Handed(caps, layers, least) ==
  LET n == Len(caps)
      total == Total(caps)
      cursor[i \in 0..n] ==
        IF i = 0 THEN 0
        ELSE IF i = n THEN layers
        ELSE cursor[i - 1] + Smallest(Largest(Proportion(caps[i], total, layers), least),
                                      layers - cursor[i - 1])
  IN cursor

-----------------------------------------------------------------------------
\* The peers of a set, strongest first, the better reputation first among
\* equals, and in the order they were listed among those.
Stronger(cap, rep, p, q) == \/ cap[p] > cap[q]
                            \/ cap[p] = cap[q] /\ rep[p] > rep[q]
                            \/ cap[p] = cap[q] /\ rep[p] = rep[q] /\ p < q
Ranked(peers, cap, rep) ==
  OrderedBy(peers, {e \in peers \X peers : Stronger(cap, rep, e[1], e[2])})

\* The stages of a plan: the peers that got layers, with their ranges.
Stages(ranked, cap, layers, least) ==
  LET cursor == Handed([i \in DOMAIN ranked |-> cap[ranked[i]]], layers, least)
      served == Ascending({i \in DOMAIN ranked : cursor[i] > cursor[i - 1]})
  IN [k \in DOMAIN served |-> [peer |-> ranked[served[k]],
                               from |-> cursor[served[k] - 1], to |-> cursor[served[k]]]]

\* GreedyScheduler::plan: every peer, one layer at least.  <<>> is an error.
GreedyPlan(peers, cap, rep, layers) ==
  IF peers = {} \/ layers = 0 \/ \A p \in peers : cap[p] = 0 THEN <<>>
  ELSE Stages(Ranked(peers, cap, rep), cap, layers, 1)

\* SwarmAwareScheduler::plan: of the peers near enough the strongest `depth`,
\* fewer as long as the layers do not give each of them `least`.
SwarmAwarePlan(peers, cap, rep, near, layers, depth, least) ==
  LET eligible == Ranked(peers \cap near, cap, rep)
      most == Smallest(Len(eligible), depth)
      used == CHOOSE n \in 1..most : /\ n = 1 \/ layers >= least * n
                                     /\ \A m \in n + 1..most : layers < least * m
      chosen == SubSeq(eligible, 1, used)
  IN IF eligible = <<>> \/ layers = 0 \/ \A i \in 1..used : cap[chosen[i]] = 0 THEN <<>>
     ELSE Stages(chosen, cap, layers, least)
=============================================================================
