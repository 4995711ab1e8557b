---------------------------- MODULE Coordinator ----------------------------
(***************************************************************************)
(* The coordination server, crates/hivebear-coordinator/src/main.rs: the   *)
(* registry of live nodes, the per-node signalling queues, and the karma   *)
(* ledger fed by work receipts.                                            *)
(*                                                                         *)
(* The handlers run on a multi-threaded runtime over four DashMaps.  One   *)
(* map call is atomic; a handler that makes several is several steps here, *)
(* and `task[t]' says where the handler run by server task t stands.  A    *)
(* DashMap guard that lives across calls is a lock: the prune pass holds a *)
(* node's entry while it removes the queue, claim_karma holds the worker's *)
(* balance until it returns, matchmake and dashboard hold a node's entry   *)
(* while they read its balance.  Locks are taken per key, the finest       *)
(* sharding the map can have.                                              *)
(***************************************************************************)
EXTENDS Naturals, Sequences, FiniteSets

CONSTANTS
  Nodes,       \* node ids, as they occur in requests
  Tasks,       \* server tasks, each running one handler at a time
  Receipts,    \* the work receipts clients may submit, any number of times
  Worker,      \* receipt |-> worker_node_id
  Client,      \* receipt |-> client_node_id
  Tokens,      \* receipt |-> tokens_processed
  Key,         \* receipt |-> "client:nonce:timestamp", its anti-replay key
  HighTokens,  \* above this a claim needs a registered client (5000)
  MaxTokens,   \* above this a claim is refused (100 000)
  SignalCap,   \* signals queued per node (50)
  StaleTicks,  \* prune ticks of silence after which a node is stale (60s/15s)
  MaxSignals,  \* bound: node |-> signals accepted for it in a behaviour
  NoNode,      \* no node
  NoReceipt    \* no receipt

ASSUME CoordinatorAssumption ==
  /\ Worker \in [Receipts -> Nodes]
  /\ Client \in [Receipts -> Nodes]
  /\ Tokens \in [Receipts -> Nat]
  /\ Key \in [Receipts -> Receipts]
  /\ HighTokens \in Nat /\ MaxTokens \in Nat /\ MaxSignals \in [Nodes -> Nat]
  /\ SignalCap \in Nat \ {0} /\ StaleTicks \in Nat \ {0}
  /\ NoNode \notin Nodes /\ NoReceipt \notin Receipts

VARIABLES
  nodes,       \* ids in `nodes'
  age,         \* prune ticks since last_seen, up to StaleTicks; 0 if not registered
  signals,     \* node |-> its queue; a missing entry is the empty queue
  karma,       \* node |-> balance; a missing entry is 0
  processed,   \* keys in `processed_receipts'
  task,        \* task |-> the handler it runs and where it stands
  pruning,     \* the node whose entry the prune pass holds, or NoNode
  toVisit,     \* nodes the running prune pass has still to visit
  (* what the clients have seen, for the properties *)
  accepted,    \* node |-> number of signals accepted for it so far
  polled,      \* node |-> number of the last signal handed to it
  awards,      \* receipt |-> how many of its claims have been paid
  overlapped   \* keys claimed by two handlers at once

nodeVars  == <<nodes, age, pruning, toVisit>>
sigVars   == <<signals, accepted, polled>>
claimVars == <<karma, processed, awards, overlapped>>
vars == <<nodeVars, sigVars, claimVars, task>>

\* What a server task is doing: the next map call of its handler, and the node
\* or the receipt the handler was called with.
Idle          == [pc |-> "idle", node |-> NoNode, receipt |-> NoReceipt]
Claim(r, pc)  == [pc |-> pc, node |-> NoNode, receipt |-> r]
OnNode(n, pc) == [pc |-> pc, node |-> n, receipt |-> NoReceipt]

ClaimSteps == {"validate", "award", "record"}
NodeSteps  == {"dropSignals", "rank"}

Claiming(t) == task[t].pc \in ClaimSteps
Keys == {Key[r] : r \in Receipts}

\* Some handler iterating over the map holds the entry of n for reading.
RankLocks(n) == \E t \in Tasks : task[t].pc = "rank" /\ task[t].node = n

-----------------------------------------------------------------------------
(* Slips a change of the server could make.  None is part of the model: each *)
(* replaces the definition it is named after, to see that a property notices *)

\* A prune pass that collects the stale ids first and removes them unlocked.
WriteFreeUnlocked(n) == ~RankLocks(n)

\* Reads the queue and leaves it for the next poll.
PollSignalsPeek(n) ==
  /\ signals[n] # << >>
  /\ polled' = [polled EXCEPT ![n] = signals[n][Len(signals[n])]]
  /\ UNCHANGED <<signals, nodeVars, accepted, claimVars, task>>

\* The receipt is not recorded.
ClaimRecordForgets(t) ==
  /\ task[t].pc = "record"
  /\ task' = [task EXCEPT ![t] = Idle]
  /\ UNCHANGED <<nodeVars, sigVars, claimVars>>

\* Updates the worker's node entry while its balance is locked.
ClaimRecordTouchesNode(t) ==
  /\ task[t].pc = "record"
  /\ pruning # Worker[task[t].receipt] /\ ~RankLocks(Worker[task[t].receipt])
  /\ processed' = processed \cup {Key[task[t].receipt]}
  /\ task' = [task EXCEPT ![t] = Idle]
  /\ UNCHANGED <<nodeVars, sigVars, karma, awards, overlapped>>

-----------------------------------------------------------------------------
(* The guards that block other handlers, and the initial state *)

WriteFree(n) == pruning # n /\ ~RankLocks(n)
KarmaLocked(n) ==
  \E t \in Tasks : task[t].pc = "record" /\ Worker[task[t].receipt] = n

Init ==
  /\ nodes = {}
  /\ age = [n \in Nodes |-> 0]
  /\ signals = [n \in Nodes |-> << >>]
  /\ karma = [n \in Nodes |-> 0]
  /\ processed = {}
  /\ task = [t \in Tasks |-> Idle]
  /\ pruning = NoNode
  /\ toVisit = {}
  /\ accepted = [n \in Nodes |-> 0]
  /\ polled = [n \in Nodes |-> 0]
  /\ awards = [r \in Receipts |-> 0]
  /\ overlapped = {}

-----------------------------------------------------------------------------
(* Registry of live nodes *)

RegisterNode(n) ==
  /\ WriteFree(n)
  /\ nodes' = nodes \cup {n}
  /\ age' = [age EXCEPT ![n] = 0]
  /\ UNCHANGED <<pruning, toVisit, sigVars, claimVars, task>>

\* Updates the entry, or auto-registers a missing node.  The miss and the
\* insert are two map calls, but the insert does not depend on the miss.
HeartbeatNode(n) ==
  /\ WriteFree(n)
  /\ \/ n \in nodes /\ UNCHANGED nodes
     \/ n \notin nodes /\ nodes' = nodes \cup {n}
  /\ age' = [age EXCEPT ![n] = 0]
  /\ UNCHANGED <<pruning, toVisit, sigVars, claimVars, task>>

\* deregister_node removes the entry, then, in a second call, the queue.
DeregisterNode(t, n) ==
  /\ task[t] = Idle
  /\ WriteFree(n)
  /\ nodes' = nodes \ {n}
  /\ age' = [age EXCEPT ![n] = 0]
  /\ task' = [task EXCEPT ![t] = OnNode(n, "dropSignals")]
  /\ UNCHANGED <<pruning, toVisit, sigVars, claimVars>>

DropSignals(t) ==
  /\ task[t].pc = "dropSignals"
  /\ signals' = [signals EXCEPT ![task[t].node] = << >>]
  /\ task' = [task EXCEPT ![t] = Idle]
  /\ UNCHANGED <<nodeVars, accepted, polled, claimVars>>

\* matchmake and dashboard: while iterating, the entry of n is held for
\* reading until n's balance has been read.
RankPeer(t, n) ==
  /\ task[t] = Idle
  /\ n \in nodes /\ pruning # n
  /\ task' = [task EXCEPT ![t] = OnNode(n, "rank")]
  /\ UNCHANGED <<nodeVars, sigVars, claimVars>>

ReadKarma(t) ==
  /\ task[t].pc = "rank"
  /\ ~KarmaLocked(task[t].node)
  /\ task' = [task EXCEPT ![t] = Idle]
  /\ UNCHANGED <<nodeVars, sigVars, claimVars>>

-----------------------------------------------------------------------------
(* The prune task: every 15 seconds `nodes.retain' visits every entry.  For a  *)
(* stale one the closure removes the queue, with the entry still locked, and   *)
(* the entry goes when the closure has returned false.                         *)

PruneIdle == pruning = NoNode /\ toVisit = {}

\* Fifteen seconds pass and the prune task starts its pass: `now' is read
\* once, and a pass is taken to be shorter than a tick.
PruneTick ==
  /\ PruneIdle
  /\ age' = [n \in Nodes |-> IF n \in nodes /\ age[n] < StaleTicks THEN age[n] + 1 ELSE age[n]]
  /\ toVisit' = nodes
  /\ UNCHANGED <<nodes, pruning, sigVars, claimVars, task>>

PruneKeep(n) ==
  /\ pruning = NoNode /\ n \in toVisit
  /\ n \in nodes => WriteFree(n) /\ age[n] < StaleTicks
  /\ toVisit' = toVisit \ {n}
  /\ UNCHANGED <<nodes, age, pruning, sigVars, claimVars, task>>

PruneSignals(n) ==
  /\ pruning = NoNode /\ n \in toVisit
  /\ n \in nodes /\ WriteFree(n) /\ age[n] >= StaleTicks
  /\ pruning' = n
  /\ toVisit' = toVisit \ {n}
  /\ signals' = [signals EXCEPT ![n] = << >>]
  /\ UNCHANGED <<nodes, age, accepted, polled, claimVars, task>>

PruneDrop ==
  /\ pruning # NoNode
  /\ nodes' = nodes \ {pruning}
  /\ age' = [age EXCEPT ![pruning] = 0]
  /\ pruning' = NoNode
  /\ UNCHANGED <<toVisit, sigVars, claimVars, task>>

-----------------------------------------------------------------------------
(* Signalling *)

\* Under the entry lock: accept below the cap; TOO_MANY_REQUESTS, which
\* changes nothing, at it.  The target need not be registered.
SendSignal(n) ==
  /\ accepted[n] < MaxSignals[n]
  /\ Len(signals[n]) < SignalCap
  /\ accepted' = [accepted EXCEPT ![n] = @ + 1]
  /\ signals' = [signals EXCEPT ![n] = Append(@, accepted[n] + 1)]
  /\ UNCHANGED <<nodeVars, polled, claimVars, task>>

\* Removes the queue and returns it.
PollSignals(n) ==
  /\ signals[n] # << >>
  /\ polled' = [polled EXCEPT ![n] = signals[n][Len(signals[n])]]
  /\ signals' = [signals EXCEPT ![n] = << >>]
  /\ UNCHANGED <<nodeVars, accepted, claimVars, task>>

-----------------------------------------------------------------------------
(* claim_karma, in the order of its map calls *)

\* 1. contains_key on the anti-replay key; CONFLICT changes nothing.
ClaimCheck(t, r) ==
  /\ task[t] = Idle
  /\ Key[r] \notin processed
  /\ task' = [task EXCEPT ![t] = Claim(r, "validate")]
  /\ overlapped' = IF \E u \in Tasks : Claiming(u) /\ Key[task[u].receipt] = Key[r]
                   THEN overlapped \cup {Key[r]} ELSE overlapped
  /\ UNCHANGED <<nodeVars, sigVars, karma, processed, awards>>

\* 2. and 3. A claim above HighTokens needs a registered client, and every
\* claim a token count in 1..MaxTokens.
Acceptable(r) ==
  /\ Client[r] \in nodes \/ Tokens[r] <= HighTokens
  /\ Tokens[r] \in 1..MaxTokens

ClaimValidate(t) ==
  /\ task[t].pc = "validate"
  /\ LET r == task[t].receipt IN
       /\ pruning # Client[r]
       /\ task' = [task EXCEPT ![t] = IF Acceptable(r) THEN Claim(r, "award") ELSE Idle]
  /\ UNCHANGED <<nodeVars, sigVars, claimVars>>

\* 4. The worker's balance grows; its guard is held until the handler ends.
ClaimAward(t) ==
  /\ task[t].pc = "award"
  /\ LET r == task[t].receipt IN
       /\ ~KarmaLocked(Worker[r])
       /\ karma' = [karma EXCEPT ![Worker[r]] = @ + Tokens[r]]
       /\ awards' = [awards EXCEPT ![r] = @ + 1]
       /\ task' = [task EXCEPT ![t] = Claim(r, "record")]
  /\ UNCHANGED <<nodeVars, sigVars, processed, overlapped>>

ClaimRecord(t) ==
  /\ task[t].pc = "record"
  /\ processed' = processed \cup {Key[task[t].receipt]}
  /\ task' = [task EXCEPT ![t] = Idle]
  /\ UNCHANGED <<nodeVars, sigVars, karma, awards, overlapped>>

-----------------------------------------------------------------------------
Prune == \/ PruneDrop
         \/ \E n \in Nodes : PruneKeep(n) \/ PruneSignals(n)

\* The steps of a handler that has started: nothing but a lock stops them.
HandlerStep(t) == \/ DropSignals(t) \/ ReadKarma(t)
                  \/ ClaimValidate(t) \/ ClaimAward(t) \/ ClaimRecord(t)

Next ==
  \/ PruneTick \/ Prune
  \/ \E n \in Nodes : \/ RegisterNode(n) \/ HeartbeatNode(n)
                      \/ SendSignal(n) \/ PollSignals(n)
  \/ \E t \in Tasks : \/ HandlerStep(t)
                      \/ \E n \in Nodes : DeregisterNode(t, n) \/ RankPeer(t, n)
                      \/ \E r \in Receipts : ClaimCheck(t, r)

Spec == Init /\ [][Next]_vars

\* The timer fires, and started handlers run; requests may stop coming.  The
\* prune pass and the handlers contend for entry locks: a lock that is free
\* again and again is granted in the end, hence strong fairness.
Fairness == /\ WF_vars(PruneTick) /\ SF_vars(Prune)
            /\ \A t \in Tasks : SF_vars(HandlerStep(t))
FairSpec == Spec /\ Fairness

-----------------------------------------------------------------------------
TaskStates ==
  [pc : {"idle"} \cup NodeSteps \cup ClaimSteps,
   node : Nodes \cup {NoNode}, receipt : Receipts \cup {NoReceipt}]

\* A task knows the node or the receipt its handler is working on.
TaskWellFormed(t) ==
  /\ task[t].pc \in NodeSteps => task[t].node \in Nodes
  /\ Claiming(t) => task[t].receipt \in Receipts

\* Types of the coordinator's maps, handlers and history.
TypeOK ==
  /\ nodes \subseteq Nodes
  /\ age \in [Nodes -> 0..StaleTicks]
  /\ signals \in [Nodes -> Seq(Nat)]
  /\ karma \in [Nodes -> Nat]
  /\ processed \subseteq Keys
  /\ task \in [Tasks -> TaskStates]
  /\ \A t \in Tasks : TaskWellFormed(t)
  /\ pruning \in Nodes \cup {NoNode}
  /\ toVisit \subseteq Nodes
  /\ accepted \in [Nodes -> Nat]
  /\ polled \in [Nodes -> Nat]
  /\ awards \in [Receipts -> Nat]
  /\ overlapped \subseteq Keys

\* send_signal: "Cap the number of signals": no interleaving of senders,
\* polls, deregistrations and prunes lets a queue outgrow the cap.
SignalCapRespected == \A n \in Nodes : Len(signals[n]) <= SignalCap

\* The numbers in q grow and lie above lo, up to hi.
InOrder(q, lo, hi) ==
  /\ \A i \in 1..Len(q) : q[i] > lo /\ q[i] <= hi
  /\ \A i, j \in 1..Len(q) : i < j => q[i] < q[j]

\* send_signal, poll_signals: what a node is handed is in the order of acceptance
\* and never handed out twice, whatever was dropped between two polls.
SignalsInOrderOnce == \A n \in Nodes : InOrder(signals[n], polled[n], accepted[n])

\* Over all receipts with anti-replay key k, one claim at most has been paid.
AtMostOnePayment(k) ==
  \A r, q \in {r \in Receipts : Key[r] = k} :
    awards[r] <= 1 /\ (awards[r] > 0 /\ awards[q] > 0 => r = q)

\* claim_karma: a receipt whose claims never overlapped in time is paid at
\* most once, however often it is submitted.
PaidOnceUnlessOverlapped == \A k \in Keys \ overlapped : AtMostOnePayment(k)

\* claim_karma keeps the balance locked until the receipt is recorded, so what
\* matchmake and dashboard report never contains karma of an unrecorded claim.
ReportedKarmaIsRecorded ==
  [][\A t \in Tasks : task[t].pc = "rank" /\ task'[t] = Idle =>
       \A r \in Receipts :
         Worker[r] = task[t].node /\ awards[r] > 0 => Key[r] \in processed]_vars

\* The prune pass never drops a node that announced itself after it was found
\* stale: the entry stays locked from the test to the removal.
PruneSparesFresh == [][\A n \in nodes \ nodes' : pruning = n => age[n] >= StaleTicks]_vars

\* Every handler that has started returns: the guards it waits for are released.
HandlersReturn == \A t \in Tasks : []<>(task[t] = Idle)
=============================================================================
