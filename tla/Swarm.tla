--------------------------------- MODULE Swarm ---------------------------------
(***************************************************************************)
(* The life of the swarms form_swarms makes: members leave, fail and join  *)
(* (crates/hivebear-mesh/src/swarm/rebalance.rs), and requests are routed  *)
(* to the registered ones (router.rs).                                     *)
(*                                                                         *)
(* rebalance owns the definition it changes; the router keeps a copy of it *)
(* from the time it was registered, and counters that its callers change   *)
(* in calls of their own: select_swarm, request_started, request_finished. *)
(***************************************************************************)
EXTENDS SwarmFormation

CONSTANTS
  Peers,         \* the peers given to form_swarms, 1..n
  Instances,     \* what a run starts from: capacities, near pairs, and the
                 \* membership changes it has (a bound)
  Callers,       \* tasks that route requests
  Requesters,    \* the peers they do it for
  MaxRequests,   \* max_requests_per_swarm
  CountModulus,  \* active_requests is an AtomicU32
  MaxSize        \* MAX_SWARM_SIZE

ASSUME SwarmAssumption ==
  /\ Peers \subseteq Nat \ {0} /\ IsFiniteSet(Peers) /\ Requesters \subseteq Peers
  /\ \A i \in Instances : i.cap \in [Peers -> Nat \ {0}] /\ i.changes \in Nat
  /\ MaxRequests \in Nat \ {0}
  /\ IsFiniteSet(Callers) /\ CountModulus \in Nat /\ CountModulus > Cardinality(Callers)

VARIABLES
  cap,           \* memory of each peer
  near,          \* pairs of peers close enough
  swarm,         \* the definitions, as form_swarms and rebalance leave them
  former,        \* peers that have been members of each swarm
  changes,       \* membership changes there may still be
  listed,        \* the router's swarms of each model: copies of id and status
  load,          \* active_requests by swarm, NoLoad when there is no entry
  contributing,  \* contributing_peers
  caller,        \* what each caller does: nothing, chosen or running, on a swarm
  crowded,       \* swarms chosen by two callers before the first was counted
  recounted      \* swarms whose counter was dropped while callers were on it

memberVars == <<cap, near, swarm, former, changes>>
routerVars == <<listed, load, contributing, caller, crowded, recounted>>
swarmVars == <<memberVars, routerVars>>

NoLoad == CountModulus
Roles == {"leader", "worker", "standby"}
Statuses == {"forming", "ready", "busy", "degraded", "disbanded"}
NoRequest == [at |-> "idle", swarm |-> 0]
Swarms == DOMAIN swarm
PeersOf(sw) == {sw.members[i].peer : i \in DOMAIN sw.members}

SwarmInit ==
  /\ \E i \in Instances : /\ cap = i.cap /\ near = i.near /\ changes = i.changes
                          /\ swarm = FormSwarms(Peers, i.cap, i.near)
  /\ former = [s \in Swarms |-> PeersOf(swarm[s])]
  /\ listed = [m \in Models |-> <<>>]
  /\ load = [s \in Swarms |-> NoLoad]
  /\ contributing = {}
  /\ caller = [c \in Callers |-> NoRequest]
  /\ crowded = {} /\ recounted = {}

\* Slips: one active member is enough, one request too many is admitted, the
\* counter does not wrap.
TooFewByOne(members) == ~\E i \in DOMAIN members : members[i].role # "standby"
HasRoomForOneMore(s) == load[s] = NoLoad \/ load[s] <= MaxRequests

-----------------------------------------------------------------------------
(* Membership.                                                             *)

IsActive(member) == member.role # "standby"
ActiveOf(members) == Ascending({i \in DOMAIN members : IsActive(members[i])})
Leads(members) == \E i \in DOMAIN members : members[i].role = "leader"

\* New ranges for the active members; those the layers run out before keep
\* the ranges they had.
Redistributed(sw) ==
  LET active == ActiveOf(sw.members)
      layers == LayerCounts[sw.model]
      cursor == Handed([k \in DOMAIN active |-> sw.members[active[k]].cap], layers, 1)
      place(i) == CHOOSE k \in DOMAIN active : active[k] = i
  IN IF active = <<>> THEN [sw EXCEPT !.status = "disbanded"]
     ELSE [sw EXCEPT !.members = [i \in DOMAIN sw.members |->
             IF IsActive(sw.members[i]) /\ cursor[place(i) - 1] < layers
             THEN [sw.members[i] EXCEPT !.from = cursor[place(i) - 1], !.to = cursor[place(i)]]
             ELSE sw.members[i]]]

\* The index of the first standby after the member at `gone` was removed.
Shifted(standby, gone) == IF gone # 0 /\ gone < standby THEN standby - 1 ELSE standby

TooFew(members) == Len(ActiveOf(members)) < MinSwarm

\* handle_member_departure
Departed(sw, p) ==
  LET standby == SelectInSeq(sw.members, LAMBDA m : m.role = "standby")
      gone == SelectInSeq(sw.members, LAMBDA m : m.peer = p)
      rest == IF gone = 0 THEN sw.members ELSE RemoveAt(sw.members, gone)
      next == Shifted(standby, gone)
      led == IF Leads(rest) \/ rest = <<>> THEN rest ELSE [rest EXCEPT ![1].role = "leader"]
  IN IF standby # 0 /\ next <= Len(rest)
     THEN Redistributed([sw EXCEPT !.members =
            [rest EXCEPT ![next].role = IF Leads(rest) THEN "worker" ELSE "leader"]])
     ELSE IF TooFew(led)
     THEN [sw EXCEPT !.members = led, !.status = "disbanded"]
     ELSE Redistributed([sw EXCEPT !.members = led, !.status = "degraded"])

Change(s, sw) ==
  /\ changes > 0
  /\ changes' = changes - 1
  /\ swarm' = [swarm EXCEPT ![s] = sw]
  /\ former' = [former EXCEPT ![s] = @ \cup PeersOf(sw)]
  /\ UNCHANGED <<cap, near, routerVars>>

\* A member left or its health check failed; the report may be a second one.
Depart(s, p) == p \in former[s] /\ Change(s, Departed(swarm[s], p))

\* A peer without a swarm is added, to work or to stand by.
CanAccept(sw) == Len(sw.members) < MaxSize /\ sw.status \in {"forming", "ready", "degraded"}
Join(s, p, role) ==
  /\ CanAccept(swarm[s])
  /\ p \notin Drafters(Peers, cap)
  /\ \A t \in Swarms : p \notin PeersOf(swarm[t])
  /\ Change(s, Redistributed([swarm[s] EXCEPT !.members =
                 Append(@, Member(p, role, cap[p], 0, 0))]))

\* The owner of the definition has loaded the model, has no free slot, has one.
SetStatus(s, status) ==
  /\ <<swarm[s].status, status>> \in {<<"forming", "ready">>, <<"ready", "busy">>, <<"busy", "ready">>}
  /\ swarm' = [swarm EXCEPT ![s].status = status]
  /\ UNCHANGED <<cap, near, former, changes, routerVars>>

-----------------------------------------------------------------------------
(* Routing.                                                                *)

CallersOn(s, at) == {c \in Callers : caller[c] = [at |-> at, swarm |-> s]}
IsListed(s) == \E i \in DOMAIN listed[swarm[s].model] : listed[swarm[s].model][i].id = s

\* register_swarm: an entry of load is kept when there is one.
Register(s) ==
  /\ ~IsListed(s)
  /\ load' = [load EXCEPT ![s] = IF @ = NoLoad THEN 0 ELSE @]
  /\ listed' = [listed EXCEPT ![swarm[s].model] = Append(@, [id |-> s, status |-> swarm[s].status])]
  /\ UNCHANGED <<memberVars, contributing, caller, crowded, recounted>>

\* retain: the entries of other swarms.
Without(entries, s) ==
  LET kept[n \in 0..Len(entries)] ==
        IF n = 0 THEN <<>>
        ELSE IF entries[n].id = s THEN kept[n - 1] ELSE Append(kept[n - 1], entries[n])
  IN kept[Len(entries)]

\* unregister_swarm, once the registered copy is no longer what the swarm is.
Unregister(s) ==
  /\ IsListed(s)
  /\ [id |-> s, status |-> swarm[s].status] \notin ToSet(listed[swarm[s].model])
  /\ load' = [load EXCEPT ![s] = NoLoad]
  /\ listed' = [m \in Models |-> Without(listed[m], s)]
  /\ recounted' = IF CallersOn(s, "running") \cup CallersOn(s, "chosen") = {}
                  THEN recounted ELSE recounted \cup {s}
  /\ UNCHANGED <<memberVars, contributing, caller, crowded>>

SetContributing(p) ==
  /\ contributing' = IF p \in contributing THEN contributing \ {p} ELSE contributing \cup {p}
  /\ UNCHANGED <<memberVars, listed, load, caller, crowded, recounted>>

LoadOf(s) == IF load[s] = NoLoad THEN 0 ELSE load[s]
HasRoom(s) == LoadOf(s) < MaxRequests

\* The entries select_swarm may pick: the first of those with the best score,
\* a ready swarm's being 1 / (load + 1) and a busy one's 0.
Open(m) == {i \in DOMAIN listed[m] : /\ listed[m][i].status \in {"ready", "busy"}
                                     /\ HasRoom(listed[m][i].id)}
Better(e, f) == /\ e.status = "ready"
                /\ f.status = "ready" => LoadOf(e.id) < LoadOf(f.id)
Selected(m) == CHOOSE i \in Open(m) : \A j \in Open(m) :
                 /\ ~Better(listed[m][j], listed[m][i])
                 /\ j < i => Better(listed[m][i], listed[m][j])

\* select_swarm: only a contributing peer's request is routed.
Select(c, p, m) ==
  /\ caller[c] = NoRequest
  /\ p \in contributing
  /\ Open(m) # {}
  /\ LET s == listed[m][Selected(m)].id
     IN /\ caller' = [caller EXCEPT ![c] = [at |-> "chosen", swarm |-> s]]
        /\ crowded' = IF CallersOn(s, "chosen") = {} THEN crowded ELSE crowded \cup {s}
  /\ UNCHANGED <<memberVars, listed, load, contributing, recounted>>

Count(s, change) ==
  load' = [load EXCEPT ![s] = IF @ = NoLoad THEN NoLoad
                              ELSE (@ + change) % CountModulus]

\* request_started
RequestStarted(c) ==
  /\ caller[c].at = "chosen"
  /\ caller' = [caller EXCEPT ![c].at = "running"]
  /\ Count(caller[c].swarm, 1)
  /\ UNCHANGED <<memberVars, listed, contributing, crowded, recounted>>

\* request_finished.  No operation puts a request in the queue it then drains.
RequestFinished(c) ==
  /\ caller[c].at = "running"
  /\ caller' = [caller EXCEPT ![c] = NoRequest]
  /\ Count(caller[c].swarm, CountModulus - 1)
  /\ UNCHANGED <<memberVars, listed, contributing, crowded, recounted>>

SwarmNext ==
  \/ \E s \in Swarms : \/ \E p \in Peers : Depart(s, p)
                       \/ \E p \in Peers, role \in {"worker", "standby"} : Join(s, p, role)
                       \/ \E status \in Statuses : SetStatus(s, status)
                       \/ Register(s) \/ Unregister(s)
  \/ \E p \in Requesters : SetContributing(p)
  \/ \E c \in Callers : \/ \E p \in Requesters, m \in Models : Select(c, p, m)
                        \/ RequestStarted(c) \/ RequestFinished(c)

SwarmSpec == SwarmInit /\ [][SwarmNext]_swarmVars

-----------------------------------------------------------------------------
(* Properties.                                                             *)

InService(s) == swarm[s].status # "disbanded"
ActiveMembers(s) == {swarm[s].members[i] : i \in {j \in DOMAIN swarm[s].members :
                                                    IsActive(swarm[s].members[j])}}

\* rebalance: whatever sequence of departures, repeated reports and joins, a
\* swarm in service has one leader, and between them its active members
\* hold every layer of its model.
OneLeaderAllLayers ==
  \A s \in Swarms : InService(s) =>
    /\ Cardinality({i \in DOMAIN swarm[s].members : swarm[s].members[i].role = "leader"}) = 1
    /\ \A l \in 0..LayerCounts[swarm[s].model] - 1 :
         \E m \in ActiveMembers(s) : m.from <= l /\ l < m.to

\* handle_member_departure: a swarm that has MIN_SWARM_SIZE active members
\* keeps as many, with or without a standby to promote, or is disbanded.
ActiveOrDisbanded ==
  [][\A s \in Swarms :
       Cardinality(ActiveMembers(s)) >= MinSwarm /\ swarm'[s].status # "disbanded"
         => Cardinality(ActiveMembers(s)') >= MinSwarm]_swarmVars

\* The counter of a swarm says how many requests run on it, and admits no more
\* than max_requests_per_swarm, unless two callers chose the swarm at once or
\* its counter was dropped under a request.
CountedRequests ==
  \A s \in Swarms \ (crowded \cup recounted) : load[s] # NoLoad =>
    /\ load[s] = Cardinality(CallersOn(s, "running"))
    /\ load[s] <= MaxRequests

\* SwarmAwareScheduler::plan, and the comment on min_layers_per_stage, "Minimum
\* layers each stage must process": a plan of several stages gives each of them
\* that many.
StagesReachLeast ==
  \A m \in Models :
    LET plan == SwarmAwarePlan(Peers, cap, [p \in Peers |-> 0], Peers,
                               LayerCounts[m], MaxDepth, Least)
    IN Len(plan) > 1 => \A k \in DOMAIN plan : plan[k].to - plan[k].from >= Least

=============================================================================
