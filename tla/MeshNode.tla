------------------------------ MODULE MeshNode ------------------------------
(***************************************************************************)
(* The life of one mesh node, crates/hivebear-mesh/src/node.rs, with the   *)
(* coordination client (discovery/server.rs) and the composite discovery   *)
(* (discovery/composite.rs) it registers through.                          *)
(*                                                                         *)
(* Three tasks share the node: the one start_background spawns, the        *)
(* maintenance loop, and the caller of stop.  A step runs from one await   *)
(* to the next; `start', `loop' and `stop' are the three program counters. *)
(* A node is started once and stopped at most once, as the CLI and the     *)
(* desktop application do (the latter makes a new node for each start).    *)
(*                                                                         *)
(* Connections that a peer opens to us are kept by the acceptor in its own *)
(* copy of the map (transport/quic.rs), which send and disconnect never    *)
(* read: `conn' is what the node can use, the connections it opened.       *)
(***************************************************************************)

CONSTANTS
  Peers,    \* the other nodes
  Banned,   \* peers whose reputation is below the ban threshold
  Reach,    \* peer |-> nodes that may answer at the addresses it advertises
  NoPeer    \* no peer

ASSUME MeshNodeAssumption ==
  /\ Banned \subseteq Peers
  /\ Reach \in [Peers -> SUBSET Peers]
  /\ NoPeer \notin Peers

VARIABLES
  running,     \* the `running' flag
  registered,  \* the `registered' flag
  nodeInfo,    \* the coordination client holds our record
  notified,    \* the loop was waiting on `shutdown' at notify_waiters
  start,       \* where start_background's task stands
  loop,        \* where the maintenance loop stands
  stop,        \* where the caller of stop stands
  todo,        \* peers the loop's current handler has still to treat
  dial,        \* the peer being connected, and the node that answered
  peers,       \* peer |-> its entry: the state, and the record's node id
  conn,        \* nodes to which the transport holds a live connection
  listed,      \* the coordinator lists this node
  up,          \* the coordinator can be reached
  lan,         \* LAN discovery is configured; it accepts every registration
  quiet        \* stop was called with neither start nor a loop handler in flight

flagVars == <<running, registered, nodeInfo, notified>>
pcVars   == <<start, loop, stop, quiet>>
peerVars == <<todo, dial, peers, conn>>
vars == <<flagVars, pcVars, peerVars, listed, up, lan>>

Absent  == [state |-> "Absent", id |-> NoPeer]
Entry(s, i) == [state |-> s, id |-> i]
NoDial  == [to |-> NoPeer, answer |-> NoPeer]

Known(p)     == peers[p] # Absent
Connected(p) == peers[p].state = "Connected"

Waiting == loop \in {"delay", "select"}

-----------------------------------------------------------------------------
(* Slips a change of the node could make, each the mutant of the definition  *)
(* it is named after                                                         *)

\* The loop trusts the notification alone: a tick no longer looks at the flag.
MayWorkAlways == TRUE

\* A tick that finds the node stopped skips its work and waits on.
LoopEndsNotifiedOnly ==
  /\ Waiting /\ notified
  /\ loop' = "ended"
  /\ UNCHANGED <<flagVars, start, stop, quiet, peerVars, listed, up, lan>>

\* A node that is not registered leaves it at that (the registration was
\* attempted only once, at startup).
HeartbeatTickOnce ==
  /\ loop = "select" /\ running
  /\ loop' = IF registered THEN "heartbeat" ELSE "select"
  /\ UNCHANGED <<flagVars, start, stop, quiet, peerVars, listed, up, lan>>

-----------------------------------------------------------------------------
Init ==
  /\ running = FALSE /\ registered = FALSE /\ nodeInfo = FALSE /\ notified = FALSE
  /\ start = "none" /\ loop = "off" /\ stop = "none" /\ quiet = FALSE
  /\ todo = {} /\ dial = NoDial
  /\ peers = [p \in Peers |-> Absent]
  /\ conn = {}
  /\ listed = FALSE /\ up \in BOOLEAN /\ lan \in BOOLEAN

-----------------------------------------------------------------------------
(* Requests to the coordinator *)

\* A POST reaches the coordinator if it is up, which then lists us (heartbeats
\* included: it registers nodes it does not know); `ok' says that its answer
\* reached us.
Post(ok) ==
  /\ ok => up
  /\ listed' = (listed \/ up)

\* CompositeDiscovery::register succeeds when one source accepts us.
RegisterPost(ok) ==
  /\ Post(ok)
  /\ registered' = (ok \/ lan)

-----------------------------------------------------------------------------
(* start_background *)

StartBackground ==
  /\ start = "none"
  /\ running' = TRUE
  /\ start' = "listen"
  /\ UNCHANGED <<registered, nodeInfo, notified, loop, stop, quiet, peerVars, listed, up, lan>>

\* transport.listen, then running.store(true); on an error start_background
\* stores false and ends.
Listen ==
  /\ start = "listen"
  /\ \/ running' = TRUE /\ start' = "setInfo"
     \/ running' = FALSE /\ start' = "failed"
  /\ UNCHANGED <<registered, nodeInfo, notified, loop, stop, quiet, peerVars, listed, up, lan>>

\* discovery.register: the client keeps our record, then posts it.
StartSetInfo ==
  /\ start = "setInfo"
  /\ nodeInfo' = TRUE
  /\ start' = "register"
  /\ UNCHANGED <<running, registered, notified, loop, stop, quiet, peerVars, listed, up, lan>>

StartRegister ==
  /\ start = "register"
  /\ \E ok \in BOOLEAN : RegisterPost(ok)
  /\ start' = "maintain"
  /\ UNCHANGED <<running, nodeInfo, notified, loop, stop, quiet, peerVars, up, lan>>

\* start_maintenance spawns the loop.
StartMaintenance ==
  /\ start = "maintain"
  /\ start' = "done"
  /\ loop' = "spawned"
  /\ UNCHANGED <<flagVars, stop, quiet, peerVars, listed, up, lan>>

-----------------------------------------------------------------------------
(* The maintenance loop *)

\* Reaches its first select: from now on notify_waiters finds it waiting.
LoopBegins ==
  /\ loop = "spawned"
  /\ loop' = "delay"
  /\ UNCHANGED <<flagVars, start, stop, quiet, peerVars, listed, up, lan>>

\* The select takes the shutdown branch, or a timer branch whose is_running
\* test fails.
LoopEnds ==
  /\ Waiting
  /\ notified \/ ~running
  /\ loop' = "ended"
  /\ UNCHANGED <<flagVars, start, stop, quiet, peerVars, listed, up, lan>>

\* The is_running test of the timer branches.
MayWork == running

\* The first pass, after the delay, and those of the discovery timer.
DiscoveryTick ==
  /\ Waiting /\ MayWork
  /\ loop' = "find"
  /\ UNCHANGED <<flagVars, start, stop, quiet, peerVars, listed, up, lan>>

HeartbeatTick ==
  /\ loop = "select" /\ MayWork
  /\ loop' = IF registered THEN "heartbeat" ELSE "setInfo"
  /\ UNCHANGED <<flagVars, start, stop, quiet, peerVars, listed, up, lan>>

\* maintain_registration.  The client's lock is held across the POST, so the
\* record cannot go while the heartbeat is in flight.
Heartbeat ==
  /\ loop = "heartbeat"
  /\ \/ /\ ~nodeInfo
        /\ registered' = FALSE /\ loop' = "setInfo"
        /\ UNCHANGED listed
     \/ /\ nodeInfo
        /\ \E ok \in BOOLEAN :
             /\ Post(ok)
             /\ registered' = ok
             /\ loop' = IF ok THEN "select" ELSE "setInfo"
  /\ UNCHANGED <<running, nodeInfo, notified, start, stop, quiet, peerVars, up, lan>>

LoopSetInfo ==
  /\ loop = "setInfo"
  /\ nodeInfo' = TRUE
  /\ loop' = "register"
  /\ UNCHANGED <<running, registered, notified, start, stop, quiet, peerVars, listed, up, lan>>

LoopRegister ==
  /\ loop = "register"
  /\ \E ok \in BOOLEAN : RegisterPost(ok)
  /\ loop' = "select"
  /\ UNCHANGED <<running, nodeInfo, notified, start, stop, quiet, peerVars, up, lan>>

\* check_peer_health: the node ids on record in the connected entries.
ToPing == {peers[p].id : p \in {p \in Peers : Connected(p)}}

HealthTick ==
  /\ loop = "select" /\ MayWork
  /\ todo' = ToPing
  /\ loop' = "health"
  /\ UNCHANGED <<flagVars, start, stop, quiet, dial, peers, conn, listed, up, lan>>

\* A ping that cannot be sent marks the entry under that id, if there is one,
\* and drops the connection.
PingPeer(i) ==
  /\ loop = "health" /\ i \in todo
  /\ todo' = todo \ {i}
  /\ peers' = IF i \notin conn /\ Known(i)
              THEN [peers EXCEPT ![i].state = "Disconnected"] ELSE peers
  /\ UNCHANGED <<flagVars, pcVars, dial, conn, listed, up, lan>>

\* discover_and_connect_peers: any set of peers, or none, may be found.
FindPeers ==
  /\ loop = "find"
  /\ todo' \in SUBSET Peers
  /\ loop' = "discover"
  /\ UNCHANGED <<flagVars, start, stop, quiet, dial, peers, conn, listed, up, lan>>

SkipPeer(p) ==
  /\ loop = "discover" /\ p \in todo
  /\ Known(p) \/ p \in Banned
  /\ todo' = todo \ {p}
  /\ UNCHANGED <<flagVars, pcVars, dial, peers, conn, listed, up, lan>>

DialPeer(p) ==
  /\ loop = "discover" /\ p \in todo
  /\ ~Known(p) /\ p \notin Banned
  /\ todo' = todo \ {p}
  /\ dial' = [NoDial EXCEPT !.to = p]
  /\ loop' = "connect"
  /\ UNCHANGED <<flagVars, start, stop, quiet, peers, conn, listed, up, lan>>

\* connect_with_nat_traversal.  The hole punch may have opened a connection to
\* whoever answered it, which stays open whatever follows.
Punched == {{}} \cup {{q} : q \in Reach[dial.to]}

\* One strategy succeeds: whoever answered it is taken for the peer.
Connect(q) ==
  /\ loop = "connect" /\ q \in Reach[dial.to]
  /\ \E left \in Punched : conn' = conn \cup {q} \cup left
  /\ dial' = [dial EXCEPT !.answer = q]
  /\ loop' = "insert"
  /\ UNCHANGED <<flagVars, start, stop, quiet, todo, peers, listed, up, lan>>

\* Every strategy fails.
ConnectFails ==
  /\ loop = "connect"
  /\ \E left \in Punched : conn' = conn \cup left
  /\ dial' = NoDial
  /\ loop' = "discover"
  /\ UNCHANGED <<flagVars, start, stop, quiet, todo, peers, listed, up, lan>>

\* The entry is stored under the id of the node that answered.
Insert ==
  /\ loop = "insert"
  /\ peers' = [peers EXCEPT ![dial.answer] = Entry("Connected", dial.to)]
  /\ dial' = NoDial
  /\ loop' = "discover"
  /\ UNCHANGED <<flagVars, start, stop, quiet, todo, conn, listed, up, lan>>

\* The handler has treated its peers; the loop waits for the next tick.
HandlerDone ==
  /\ loop \in {"health", "discover"} /\ todo = {}
  /\ loop' = "select"
  /\ UNCHANGED <<flagVars, start, stop, quiet, peerVars, listed, up, lan>>

-----------------------------------------------------------------------------
(* stop *)

Quiet == /\ start \in {"done", "failed"}
         /\ loop \in {"off", "spawned", "delay", "select", "ended"}

StopMark ==
  /\ stop = "none" /\ start # "none"
  /\ running' = FALSE
  /\ stop' = "notify"
  /\ quiet' = Quiet
  /\ UNCHANGED <<registered, nodeInfo, notified, start, loop, peerVars, listed, up, lan>>

\* notify_waiters reaches the loop only while it waits in a select.
StopNotify ==
  /\ stop = "notify"
  /\ notified' = Waiting
  /\ stop' = "disconnect"
  /\ UNCHANGED <<running, registered, nodeInfo, start, loop, quiet, peerVars, listed, up, lan>>

StopDisconnect ==
  /\ stop = "disconnect"
  /\ conn' = conn \ {peers[p].id : p \in Peers}
  /\ stop' = "clear"
  /\ UNCHANGED <<flagVars, start, loop, quiet, todo, dial, peers, listed, up, lan>>

StopClear ==
  /\ stop = "clear"
  /\ peers' = [p \in Peers |-> Absent]
  /\ stop' = "deregister"
  /\ UNCHANGED <<flagVars, start, loop, quiet, todo, dial, conn, listed, up, lan>>

\* The DELETE, with the client's lock held; its failure is not an error.  The
\* lock is given back before the record is forgotten.
StopDeregister ==
  /\ stop = "deregister"
  /\ listed' = (listed /\ ~(nodeInfo /\ up))
  /\ stop' = IF nodeInfo THEN "forget" ELSE "done"
  /\ UNCHANGED <<flagVars, start, loop, quiet, peerVars, up, lan>>

StopForget ==
  /\ stop = "forget"
  /\ nodeInfo' = FALSE
  /\ stop' = "done"
  /\ UNCHANGED <<running, registered, notified, start, loop, quiet, peerVars, listed, up, lan>>

-----------------------------------------------------------------------------
(* The world: connections break, the coordinator comes, goes and forgets us  *)
(* (it restarts, or it has not heard from us for 60 seconds -- as long as    *)
(* the heartbeat interval).                                                  *)

ConnectionLost(q) ==
  /\ q \in conn
  /\ conn' = conn \ {q}
  /\ UNCHANGED <<flagVars, pcVars, todo, dial, peers, listed, up, lan>>

CoordinatorReachable ==
  /\ up' = ~up
  /\ UNCHANGED <<flagVars, pcVars, peerVars, listed, lan>>

CoordinatorForgets ==
  /\ listed
  /\ listed' = FALSE
  /\ UNCHANGED <<flagVars, pcVars, peerVars, up, lan>>

World == \/ CoordinatorReachable \/ CoordinatorForgets
         \/ \E q \in Peers : ConnectionLost(q)

-----------------------------------------------------------------------------
StartStep == Listen \/ StartSetInfo \/ StartRegister \/ StartMaintenance
StopStep  == StopNotify \/ StopDisconnect \/ StopClear \/ StopDeregister \/ StopForget

\* A handler, once called, runs to its end.
LoopStep ==
  \/ LoopBegins \/ Heartbeat \/ LoopSetInfo \/ LoopRegister
  \/ FindPeers \/ ConnectFails \/ Insert \/ HandlerDone
  \/ \E p \in Peers : PingPeer(p) \/ SkipPeer(p) \/ DialPeer(p) \/ Connect(p)

Next == \/ StartBackground \/ StartStep \/ StopMark \/ StopStep
        \/ LoopStep \/ LoopEnds \/ DiscoveryTick \/ HeartbeatTick \/ HealthTick
        \/ World

Spec == Init /\ [][Next]_vars

\* Tasks are scheduled; every await has a timeout.  The select chooses at
\* random among the branches that are ready, and an interval that has come due
\* stays ready: no timer is passed over for ever.
Fairness == /\ WF_vars(StartStep) /\ WF_vars(StopStep)
            /\ WF_vars(LoopStep) /\ WF_vars(LoopEnds)
            /\ SF_vars(DiscoveryTick) /\ SF_vars(HeartbeatTick) /\ SF_vars(HealthTick)
FairSpec == Spec /\ Fairness

-----------------------------------------------------------------------------
LoopStates == {"off", "spawned", "delay", "select", "heartbeat", "setInfo", "register",
               "health", "find", "discover", "connect", "insert", "ended"}

Entries == {Absent} \cup [state : {"Connected", "Disconnected"}, id : Peers]
Dials   == [to : Peers \cup {NoPeer}, answer : Peers \cup {NoPeer}]

FlagsOK ==
  /\ running \in BOOLEAN /\ registered \in BOOLEAN
  /\ nodeInfo \in BOOLEAN /\ notified \in BOOLEAN /\ quiet \in BOOLEAN
  /\ listed \in BOOLEAN /\ up \in BOOLEAN /\ lan \in BOOLEAN

\* Types, and the entries' shape: an entry that is present has a record.
TypeOK ==
  /\ FlagsOK
  /\ start \in {"none", "listen", "setInfo", "register", "maintain", "done", "failed"}
  /\ loop \in LoopStates
  /\ stop \in {"none", "notify", "disconnect", "clear", "deregister", "forget", "done"}
  /\ todo \subseteq Peers
  /\ dial \in Dials
  /\ peers \in [Peers -> Entries]
  /\ conn \subseteq Peers

\* stop, called with nothing in flight: when it returns the node is down, knows
\* no peer, holds no record to register again, and no handler will start.
QuietStopIsFinal ==
  quiet /\ stop = "done" =>
    /\ ~running /\ ~nodeInfo
    /\ \A p \in Peers : ~Known(p)
    /\ loop \in {"off", "spawned", "delay", "select", "ended"}

\* deregister and the end of the loop together: once such a stop has returned
\* nothing lists the node at the coordinator again.
QuietStopStaysUnlisted == [][quiet /\ stop = "done" /\ ~listed => ~listed']_vars

\* ... and a coordinator that was reachable has dropped it by then.
QuietStopUnlists == [][quiet /\ stop = "deregister" /\ stop' # stop /\ up => ~listed']_vars

\* shutdown: a loop that is busy, or that start has yet to spawn, misses the
\* notification and still ends -- provided the transport was listening already
\* when stop cleared the flag.
MaintenanceEnds ==
  ~running /\ start \in {"setInfo", "register", "maintain", "done"} ~> loop = "ended"

\* maintain_registration: whatever the coordinator did before, a node that
\* stays up is listed again and again once the coordinator stays reachable.
RecoversListing ==
  <>[](up /\ stop = "none" /\ start = "done") => []<>listed

-----------------------------------------------------------------------------
(* What the code's comments say and the code does not do *)

=============================================================================
