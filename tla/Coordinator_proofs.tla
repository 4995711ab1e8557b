------------------------- MODULE Coordinator_proofs -------------------------
(***************************************************************************)
(* Proofs about the coordinator for every set of nodes, tasks and receipts *)
(* and every cap, below about the swarms and their router for every set of *)
(* peers, models and callers, and last about a call of a cloud model for   *)
(* every conversation, every reply and every cut of its stream.  Each      *)
(* safety property follows from an inductive invariant about the part of   *)
(* the state it speaks of.                                                 *)
(***************************************************************************)
EXTENDS Coordinator, Swarm, CloudStream, FiniteSetTheorems, SequenceTheorems,
        WellFoundedInduction, TLAPS

USE CoordinatorAssumption

\* What a handler puts in its task is a task state, and well formed.
LEMMA TaskStateForms ==
  /\ Idle \in TaskStates
  /\ \A n \in Nodes, s \in NodeSteps : OnNode(n, s) \in TaskStates
  /\ \A r \in Receipts, s \in ClaimSteps : Claim(r, s) \in TaskStates
  BY DEF Idle, OnNode, Claim, TaskStates, NodeSteps, ClaimSteps

\* A handler's step leaves every task well formed.
LEMMA TaskStep ==
  ASSUME TypeOK, NEW t \in Tasks,
         \/ task' = [task EXCEPT ![t] = Idle]
         \/ \E n \in Nodes, s \in NodeSteps : task' = [task EXCEPT ![t] = OnNode(n, s)]
         \/ \E r \in Receipts, s \in ClaimSteps : task' = [task EXCEPT ![t] = Claim(r, s)]
  PROVE  task' \in [Tasks -> TaskStates] /\ \A u \in Tasks : TaskWellFormed(u)'
<1>1. \E v \in TaskStates : task' = [task EXCEPT ![t] = v]
  BY TaskStateForms
<1>2. task \in [Tasks -> TaskStates] /\ task' \in [Tasks -> TaskStates]
  <2>1. task \in [Tasks -> TaskStates]
    BY DEF TypeOK
  <2>2. PICK v \in TaskStates : task' = [task EXCEPT ![t] = v]
    BY <1>1
  <2>3. task' \in [Tasks -> TaskStates]
    BY ONLY <2>1, <2>2, t \in Tasks
  <2>4. QED
    BY <2>1, <2>3
<1>3. ASSUME NEW u \in Tasks PROVE TaskWellFormed(u)'
  <2>1. CASE u # t
    <3>1. task'[u] = task[u]
      BY <2>1, <1>1, <1>2
    <3>2. QED
      BY <3>1 DEF TypeOK, TaskWellFormed, Claiming
  <2>2. CASE u = t /\ task' = [task EXCEPT ![t] = Idle]
    BY <1>2, <2>2 DEF TaskWellFormed, Claiming, Idle, NodeSteps, ClaimSteps
  <2>3. CASE u = t /\ \E n \in Nodes, s \in NodeSteps : task' = [task EXCEPT ![t] = OnNode(n, s)]
    BY <1>2, <2>3 DEF TaskWellFormed, Claiming, OnNode, NodeSteps, ClaimSteps
  <2>4. CASE u = t /\ \E r \in Receipts, s \in ClaimSteps : task' = [task EXCEPT ![t] = Claim(r, s)]
    BY <1>2, <2>4 DEF TaskWellFormed, Claiming, Claim, NodeSteps, ClaimSteps
  <2>5. QED
    BY <2>1, <2>2, <2>3, <2>4
<1>4. QED
  BY <1>2, <1>3

\* A step that leaves the tasks alone leaves them well formed.
LEMMA TasksKept ==
  ASSUME TypeOK, task' = task
  PROVE  task' \in [Tasks -> TaskStates] /\ \A u \in Tasks : TaskWellFormed(u)'
  BY DEF TypeOK, TaskWellFormed, Claiming

\* What a prune step or a registration leaves keeps its types, ...
LEMMA NodesTyped ==
  ASSUME TypeOK, nodes' \subseteq Nodes, age' \in [Nodes -> 0..StaleTicks],
         pruning' \in Nodes \cup {NoNode}, toVisit' \subseteq Nodes,
         UNCHANGED <<signals, accepted, polled, karma, processed, awards, overlapped, task>>
  PROVE  TypeOK'
<1>1. task' \in [Tasks -> TaskStates] /\ \A u \in Tasks : TaskWellFormed(u)'
  BY TasksKept
<1>2. /\ signals' \in [Nodes -> Seq(Nat)] /\ karma' \in [Nodes -> Nat] /\ processed' \subseteq Keys
      /\ accepted' \in [Nodes -> Nat] /\ polled' \in [Nodes -> Nat]
      /\ awards' \in [Receipts -> Nat] /\ overlapped' \subseteq Keys
  BY Zenon DEF TypeOK
<1>3. QED
  BY <1>1, <1>2, Zenon DEF TypeOK

\* ... and so does what is done to the queues of signals.
LEMMA QueuesTyped ==
  ASSUME TypeOK, signals' \in [Nodes -> Seq(Nat)], accepted' \in [Nodes -> Nat],
         polled' \in [Nodes -> Nat],
         UNCHANGED <<nodes, age, pruning, toVisit, karma, processed, awards, overlapped, task>>
  PROVE  TypeOK'
<1>1. task' \in [Tasks -> TaskStates] /\ \A u \in Tasks : TaskWellFormed(u)'
  BY TasksKept
<1>2. /\ nodes' \subseteq Nodes /\ age' \in [Nodes -> 0..StaleTicks]
      /\ karma' \in [Nodes -> Nat] /\ processed' \subseteq Keys
      /\ pruning' \in Nodes \cup {NoNode} /\ toVisit' \subseteq Nodes
      /\ awards' \in [Receipts -> Nat] /\ overlapped' \subseteq Keys
  BY Zenon DEF TypeOK
<1>3. QED
  BY <1>1, <1>2, Zenon DEF TypeOK

\* The coordinator's state keeps its types under every handler and prune step.
THEOREM TypeCorrect == Spec => []TypeOK
<1> USE DEF nodeVars, sigVars, claimVars
<1>1. Init => TypeOK
  <2> SUFFICES ASSUME Init PROVE TypeOK
    OBVIOUS
  <2>1. task \in [Tasks -> TaskStates] /\ \A t \in Tasks : TaskWellFormed(t)
    BY TaskStateForms DEF Init, TaskWellFormed, Claiming, Idle, NodeSteps, ClaimSteps
  <2>2. QED
    BY <2>1 DEF Init, TypeOK
<1>2. TypeOK /\ [Next]_vars => TypeOK'
  <2> SUFFICES ASSUME TypeOK, [Next]_vars PROVE TypeOK'
    OBVIOUS
  <2>1. CASE PruneTick
    <3>1. age' \in [Nodes -> 0..StaleTicks]
      BY <2>1 DEF PruneTick, TypeOK
    <3>2. nodes' \subseteq Nodes /\ toVisit' \subseteq Nodes /\ pruning' \in Nodes \cup {NoNode}
      BY <2>1 DEF PruneTick, TypeOK
    <3>3. UNCHANGED <<sigVars, claimVars, task>>
      BY <2>1 DEF PruneTick
    <3>4. QED
      BY <3>1, <3>2, <3>3, NodesTyped
  <2>2. CASE PruneDrop
    <3>1. age' \in [Nodes -> 0..StaleTicks]
      BY <2>2 DEF PruneDrop, TypeOK
    <3>2. nodes' \subseteq Nodes /\ toVisit' \subseteq Nodes /\ pruning' \in Nodes \cup {NoNode}
      BY <2>2 DEF PruneDrop, TypeOK
    <3>3. UNCHANGED <<sigVars, claimVars, task>>
      BY <2>2 DEF PruneDrop
    <3>4. QED
      BY <3>1, <3>2, <3>3, NodesTyped
  <2>3. ASSUME NEW n \in Nodes, PruneKeep(n) PROVE TypeOK'
    <3>1. /\ nodes' \subseteq Nodes /\ age' \in [Nodes -> 0..StaleTicks]
          /\ toVisit' \subseteq Nodes /\ pruning' \in Nodes \cup {NoNode}
      BY <2>3 DEF PruneKeep, TypeOK
    <3>2. UNCHANGED <<sigVars, claimVars, task>>
      BY <2>3 DEF PruneKeep
    <3>3. QED
      BY <3>1, <3>2, NodesTyped
  <2>13. ASSUME NEW n \in Nodes, PruneSignals(n) PROVE TypeOK'
    <3>1. signals' \in [Nodes -> Seq(Nat)]
      BY <2>13 DEF PruneSignals, TypeOK
    <3>2. pruning' \in Nodes \cup {NoNode} /\ toVisit' \subseteq Nodes
      BY <2>13 DEF PruneSignals, TypeOK
    <3>3. UNCHANGED <<nodes, age, accepted, polled, karma, processed, awards, overlapped, task>>
      BY <2>13 DEF PruneSignals
    <3>4. /\ nodes' \subseteq Nodes /\ age' \in [Nodes -> 0..StaleTicks]
          /\ accepted' \in [Nodes -> Nat] /\ polled' \in [Nodes -> Nat]
          /\ karma' \in [Nodes -> Nat] /\ processed' \subseteq Keys
          /\ awards' \in [Receipts -> Nat] /\ overlapped' \subseteq Keys
      BY <3>3, Zenon DEF TypeOK
    <3>5. task' \in [Tasks -> TaskStates] /\ \A u \in Tasks : TaskWellFormed(u)'
      BY <3>3, TasksKept
    <3>6. QED
      BY <3>1, <3>2, <3>4, <3>5, Zenon DEF TypeOK
  <2>4. ASSUME NEW n \in Nodes, RegisterNode(n) \/ HeartbeatNode(n) PROVE TypeOK'
    <3>1. nodes' \subseteq Nodes /\ age' = [age EXCEPT ![n] = 0]
      BY <2>4 DEF RegisterNode, HeartbeatNode, TypeOK
    <3>2. UNCHANGED <<pruning, toVisit, sigVars, claimVars, task>>
      BY <2>4 DEF RegisterNode, HeartbeatNode
    <3>3. age' \in [Nodes -> 0..StaleTicks] /\ toVisit' \subseteq Nodes /\ pruning' \in Nodes \cup {NoNode}
      BY <3>1, <3>2 DEF TypeOK
    <3>4. QED
      BY <3>1, <3>2, <3>3, NodesTyped
  <2>5. ASSUME NEW n \in Nodes, SendSignal(n) PROVE TypeOK'
    <3>1. accepted' \in [Nodes -> Nat]
      BY <2>5 DEF SendSignal, TypeOK
    <3>2. signals' \in [Nodes -> Seq(Nat)]
      <4>1. signals[n] \in Seq(Nat) /\ accepted[n] + 1 \in Nat
        BY DEF TypeOK
      <4>2. PICK q : q = Append(signals[n], accepted[n] + 1)
        OBVIOUS
      <4>3. q \in Seq(Nat)
        BY ONLY <4>1, <4>2
      <4>4. signals' = [signals EXCEPT ![n] = q]
        BY <2>5, <4>2, Zenon DEF SendSignal
      <4>5. QED
        BY <4>3, <4>4 DEF TypeOK
    <3>3. UNCHANGED <<nodeVars, polled, claimVars, task>>
      BY <2>5 DEF SendSignal
    <3>4. polled' \in [Nodes -> Nat]
      BY <3>3 DEF TypeOK
    <3>5. QED
      BY <3>1, <3>2, <3>3, <3>4, QueuesTyped
  <2>6. ASSUME NEW n \in Nodes, PollSignals(n) PROVE TypeOK'
    <3>1. signals[n][Len(signals[n])] \in Nat
      BY <2>6 DEF PollSignals, TypeOK
    <3>2. UNCHANGED <<nodeVars, accepted, claimVars, task>>
      BY <2>6 DEF PollSignals
    <3>3. polled' \in [Nodes -> Nat]
      BY <2>6, <3>1 DEF PollSignals, TypeOK
    <3>4. signals' \in [Nodes -> Seq(Nat)]
      BY <2>6 DEF PollSignals, TypeOK
    <3>5. accepted' \in [Nodes -> Nat]
      BY <3>2 DEF TypeOK
    <3>6. QED
      BY <3>2, <3>3, <3>4, <3>5, QueuesTyped
  <2>7. ASSUME NEW t \in Tasks, NEW n \in Nodes, DeregisterNode(t, n) \/ RankPeer(t, n)
        PROVE TypeOK'
    <3>1. \E s \in NodeSteps : task' = [task EXCEPT ![t] = OnNode(n, s)]
      BY <2>7 DEF DeregisterNode, RankPeer, NodeSteps
    <3>2. task' \in [Tasks -> TaskStates] /\ \A u \in Tasks : TaskWellFormed(u)'
      BY <3>1, TaskStep
    <3>3. nodes' \subseteq nodes /\ (age' = age \/ age' = [age EXCEPT ![n] = 0])
      BY <2>7 DEF DeregisterNode, RankPeer
    <3>4. UNCHANGED <<pruning, toVisit, sigVars, claimVars>>
      BY <2>7 DEF DeregisterNode, RankPeer
    <3>5. nodes' \subseteq Nodes /\ age' \in [Nodes -> 0..StaleTicks]
      <4>1. CASE age' = age
        BY <3>3, <4>1 DEF TypeOK
      <4>2. CASE age' = [age EXCEPT ![n] = 0]
        BY <3>3, <4>2 DEF TypeOK
      <4>3. QED
        BY <3>3, <4>1, <4>2
    <3>6. QED
      BY <3>2, <3>4, <3>5 DEF TypeOK
  <2>8. ASSUME NEW t \in Tasks, DropSignals(t) \/ ReadKarma(t) PROVE TypeOK'
    <3>1. task' \in [Tasks -> TaskStates] /\ \A u \in Tasks : TaskWellFormed(u)'
      BY <2>8, TaskStep DEF DropSignals, ReadKarma
    <3>2. signals' = signals \/ \E n \in Nodes : signals' = [signals EXCEPT ![n] = << >>]
      BY <2>8 DEF DropSignals, ReadKarma, TypeOK, TaskWellFormed, NodeSteps
    <3>3. UNCHANGED <<nodeVars, accepted, polled, claimVars>>
      BY <2>8 DEF DropSignals, ReadKarma
    <3>4. signals' \in [Nodes -> Seq(Nat)]
      <4>1. CASE signals' = signals
        BY <4>1 DEF TypeOK
      <4>2. CASE \E n \in Nodes : signals' = [signals EXCEPT ![n] = << >>]
        BY <4>2 DEF TypeOK
      <4>3. QED
        BY <3>2, <4>1, <4>2
    <3>5. QED
      BY <3>1, <3>3, <3>4 DEF TypeOK
  <2>9. ASSUME NEW t \in Tasks, NEW r \in Receipts, ClaimCheck(t, r) PROVE TypeOK'
    <3>1. Key[r] \in Keys
      BY DEF Keys
    <3>2. \E s \in ClaimSteps : task' = [task EXCEPT ![t] = Claim(r, s)]
      BY <2>9 DEF ClaimCheck, ClaimSteps
    <3>3. QED
      BY <2>9, <3>1, <3>2, TaskStep DEF ClaimCheck, TypeOK
  <2>10. ASSUME NEW t \in Tasks,
                ClaimValidate(t) \/ ClaimAward(t) \/ ClaimRecord(t)
         PROVE TypeOK'
    <3>1. task[t].receipt \in Receipts /\ Key[task[t].receipt] \in Keys
      BY <2>10 DEF ClaimValidate, ClaimAward, ClaimRecord, TypeOK, TaskWellFormed,
                   Claiming, ClaimSteps, Keys
    <3>2. \/ task' = [task EXCEPT ![t] = Idle]
          \/ \E r \in Receipts, s \in ClaimSteps : task' = [task EXCEPT ![t] = Claim(r, s)]
      BY <2>10, <3>1 DEF ClaimValidate, ClaimAward, ClaimRecord, ClaimSteps
    <3>3. task' \in [Tasks -> TaskStates] /\ \A u \in Tasks : TaskWellFormed(u)'
      BY <3>2, TaskStep
    <3>4. karma' \in [Nodes -> Nat] /\ awards' \in [Receipts -> Nat]
      <4>1. CASE UNCHANGED <<karma, awards>>
        BY <4>1 DEF TypeOK
      <4>2. CASE ClaimAward(t)
        <5> DEFINE r == task[t].receipt
        <5>1. r \in Receipts /\ Worker[r] \in Nodes /\ Tokens[r] \in Nat
          BY <3>1
        <5>2. /\ karma' = [karma EXCEPT ![Worker[r]] = @ + Tokens[r]]
              /\ awards' = [awards EXCEPT ![r] = @ + 1]
          BY <4>2 DEF ClaimAward
        <5>3. karma \in [Nodes -> Nat] /\ awards \in [Receipts -> Nat]
          BY DEF TypeOK
        <5>4. karma' \in [Nodes -> Nat]
          <6>1. karma[Worker[r]] + Tokens[r] \in Nat
            BY ONLY <5>1, <5>3
          <6>2. \E v \in Nat : karma' = [karma EXCEPT ![Worker[r]] = v]
            BY ONLY <5>2, <6>1
          <6>3. QED
            BY ONLY <6>2, <5>1, <5>3
        <5>6. awards' \in [Receipts -> Nat]
          <6>1. awards[r] + 1 \in Nat
            BY ONLY <5>1, <5>3
          <6>2. \E v \in Nat : awards' = [awards EXCEPT ![r] = v]
            BY ONLY <5>2, <6>1
          <6>3. QED
            BY ONLY <6>2, <5>1, <5>3
        <5>7. QED
          BY <5>4, <5>6
      <4>3. QED
        BY <2>10, <4>1, <4>2 DEF ClaimValidate, ClaimRecord
    <3>7. processed' \subseteq Keys
      BY <2>10, <3>1 DEF ClaimValidate, ClaimAward, ClaimRecord, TypeOK
    <3>5. UNCHANGED <<nodeVars, sigVars, overlapped>>
      BY <2>10 DEF ClaimValidate, ClaimAward, ClaimRecord
    <3>6. QED
      BY <3>3, <3>4, <3>5, <3>7 DEF TypeOK
  <2>11. CASE UNCHANGED vars
    BY <2>11 DEF vars, TypeOK, TaskWellFormed, Claiming
  <2>12. QED
    BY <2>1, <2>2, <2>3, <2>13, <2>4, <2>5, <2>6, <2>7, <2>8, <2>9, <2>10, <2>11
    DEF Next, Prune, HandlerStep
<1>3. QED
  BY <1>1, <1>2, PTL DEF Spec

-----------------------------------------------------------------------------
(* The signalling queues.  Acceptance numbers grow, a poll hands out the whole *)
(* queue: what is queued lies between the last poll and the last acceptance.   *)

SignalInv ==
  \A n \in Nodes : /\ Len(signals[n]) <= SignalCap
                   /\ InOrder(signals[n], polled[n], accepted[n])
                   /\ polled[n] <= accepted[n]

\* The empty queue is in order, and stays so with the next acceptance appended.
LEMMA InOrderEmpty == \A lo, hi \in Nat : InOrder(<< >>, lo, hi)
  BY DEF InOrder

LEMMA InOrderAppend ==
  ASSUME NEW q \in Seq(Nat), NEW lo \in Nat, NEW hi \in Nat, InOrder(q, lo, hi), lo <= hi
  PROVE  InOrder(Append(q, hi + 1), lo, hi + 1) /\ Len(Append(q, hi + 1)) = Len(q) + 1
<1> DEFINE a == Append(q, hi + 1)
<1>1. /\ Len(q) \in Nat /\ Len(a) = Len(q) + 1
      /\ \A i \in 1..Len(q) : a[i] = q[i] /\ q[i] \in Nat
      /\ a[Len(q) + 1] = hi + 1
  OBVIOUS
<1> HIDE DEF a
<1>2. \A i \in 1..Len(q) : q[i] > lo /\ q[i] <= hi
  BY DEF InOrder
<1>3. \A i, j \in 1..Len(q) : i < j => q[i] < q[j]
  BY DEF InOrder
<1>4. ASSUME NEW i \in 1..Len(a) PROVE a[i] > lo /\ a[i] <= hi + 1
  <2>1. CASE i \in 1..Len(q)
    <3>1. a[i] = q[i] /\ q[i] \in Nat /\ q[i] > lo /\ q[i] <= hi
      BY <1>1, <1>2, <2>1
    <3>2. QED
      BY <3>1
  <2>2. CASE i = Len(q) + 1
    BY <1>1, <2>2
  <2>3. QED
    BY <1>1, <2>1, <2>2
<1>5. ASSUME NEW i \in 1..Len(a), NEW j \in 1..Len(a), i < j PROVE a[i] < a[j]
  <2>1. i \in 1..Len(q)
    BY <1>1, <1>5
  <2>2. CASE j \in 1..Len(q)
    BY <1>1, <1>3, <1>5, <2>1, <2>2
  <2>3. CASE j = Len(q) + 1
    <3>1. a[i] = q[i] /\ q[i] \in Nat /\ q[i] <= hi /\ a[j] = hi + 1
      BY <1>1, <1>2, <2>1, <2>3
    <3>2. QED
      BY <3>1
  <2>4. QED
    BY <1>1, <2>2, <2>3
<1>6. InOrder(a, lo, hi + 1)
  BY <1>4, <1>5 DEF InOrder
<1>7. QED
  BY <1>1, <1>6 DEF a

LEMMA SignalInvariant == Spec => []SignalInv
<1>1. Init => SignalInv
  BY InOrderEmpty DEF Init, SignalInv
<1>2. TypeOK /\ SignalInv /\ [Next]_vars => SignalInv'
  <2> SUFFICES ASSUME TypeOK, SignalInv, [Next]_vars PROVE SignalInv'
    OBVIOUS
  <2>1. CASE UNCHANGED sigVars
    BY <2>1 DEF sigVars, SignalInv
  <2>2. ASSUME NEW n \in Nodes, signals' = [signals EXCEPT ![n] = << >>],
               UNCHANGED <<accepted, polled>>
        PROVE  SignalInv'
    BY <2>2, InOrderEmpty DEF TypeOK, SignalInv
  <2>3. ASSUME NEW n \in Nodes, SendSignal(n) PROVE SignalInv'
    <3>1. /\ signals[n] \in Seq(Nat) /\ Len(signals[n]) < SignalCap /\ Len(signals[n]) \in Nat
          /\ accepted[n] \in Nat /\ polled[n] \in Nat /\ polled[n] <= accepted[n]
          /\ InOrder(signals[n], polled[n], accepted[n])
      BY <2>3 DEF SendSignal, TypeOK, SignalInv
    <3>2. /\ signals'[n] = Append(signals[n], accepted[n] + 1)
          /\ accepted'[n] = accepted[n] + 1 /\ polled'[n] = polled[n]
      BY <2>3 DEF SendSignal, TypeOK
    <3>3. /\ InOrder(signals'[n], polled'[n], accepted'[n])
          /\ Len(signals'[n]) <= SignalCap
          /\ polled'[n] <= accepted'[n]
      BY <3>1, <3>2, InOrderAppend
    <3>4. \A m \in Nodes \ {n} :
            signals'[m] = signals[m] /\ accepted'[m] = accepted[m] /\ polled'[m] = polled[m]
      BY <2>3 DEF SendSignal, TypeOK
    <3>5. QED
      BY <3>3, <3>4 DEF SignalInv
  <2>4. ASSUME NEW n \in Nodes, PollSignals(n) PROVE SignalInv'
    <3>1. /\ signals[n] \in Seq(Nat) /\ Len(signals[n]) \in 1..Len(signals[n])
          /\ signals'[n] = << >> /\ accepted'[n] = accepted[n] /\ accepted[n] \in Nat
          /\ polled'[n] = signals[n][Len(signals[n])] /\ polled'[n] \in Nat
      BY <2>4 DEF PollSignals, TypeOK
    <3>2. polled'[n] <= accepted'[n]
      BY <3>1 DEF SignalInv, InOrder
    <3>3. Len(signals'[n]) <= SignalCap /\ InOrder(signals'[n], polled'[n], accepted'[n])
      BY <3>1, InOrderEmpty
    <3>4. \A m \in Nodes \ {n} :
            signals'[m] = signals[m] /\ accepted'[m] = accepted[m] /\ polled'[m] = polled[m]
      BY <2>4 DEF PollSignals, TypeOK
    <3>5. QED
      BY <3>2, <3>3, <3>4 DEF SignalInv
  <2>5. ASSUME NEW n \in Nodes, PruneSignals(n) PROVE SignalInv'
    BY <2>5, <2>2 DEF PruneSignals
  <2>6. ASSUME NEW t \in Tasks, DropSignals(t) PROVE SignalInv'
    BY <2>6, <2>2 DEF DropSignals, TypeOK, TaskWellFormed, NodeSteps
  <2>7. QED
    BY <2>1, <2>3, <2>4, <2>5, <2>6
    DEF Next, Prune, HandlerStep, vars, PruneTick, PruneDrop, PruneKeep, RegisterNode,
        HeartbeatNode, DeregisterNode, RankPeer, ReadKarma, ClaimCheck, ClaimValidate,
        ClaimAward, ClaimRecord
<1>3. QED
  BY <1>1, <1>2, TypeCorrect, PTL DEF Spec

\* send_signal and the queues: never more than SignalCap signals wait for a node.
THEOREM SignalCapHolds == Spec => []SignalCapRespected
<1>1. SignalInv => SignalCapRespected
  BY DEF SignalInv, SignalCapRespected
<1>2. QED
  BY <1>1, SignalInvariant, PTL

\* send_signal, poll_signals: signals are handed out in order and at most once.
THEOREM SignalsOrdered == Spec => []SignalsInOrderOnce
<1>1. SignalInv => SignalsInOrderOnce
  BY DEF SignalInv, SignalsInOrderOnce
<1>2. QED
  BY <1>1, SignalInvariant, PTL

-----------------------------------------------------------------------------
(* The karma ledger.  While claims with the same key have never overlapped, at *)
(* most one task is claiming that key, and until it pays nothing has been paid *)
(* for it; what has been paid is recorded or its handler still holds the       *)
(* worker's balance.                                                           *)

Claims(t, k) == Claiming(t) /\ Key[task[t].receipt] = k
Unpaid(k) == \A r \in Receipts : Key[r] = k => awards[r] = 0

SoleClaim(k) == \A t, u \in Tasks : Claims(t, k) /\ Claims(u, k) => t = u
UnpaidUntilAward(k) ==
  \A t \in Tasks : Claims(t, k) /\ task[t].pc # "record" => Unpaid(k)
PaidIsRecorded ==
  \A r \in Receipts :
    awards[r] > 0 => \/ Key[r] \in processed
                     \/ \E t \in Tasks : task[t].pc = "record" /\ task[t].receipt = r

LedgerInv ==
  /\ PaidIsRecorded
  /\ \A k \in Keys \ overlapped : SoleClaim(k) /\ UnpaidUntilAward(k) /\ AtMostOnePayment(k)

LEMMA LedgerInvariant == Spec => []LedgerInv
<1> USE DEF LedgerInv
<1>1. Init => LedgerInv
  BY DEF Init, PaidIsRecorded, SoleClaim, UnpaidUntilAward, AtMostOnePayment, Claims,
         Claiming, ClaimSteps, Idle
<1>2. TypeOK /\ LedgerInv /\ [Next]_vars => LedgerInv'
  <2> SUFFICES ASSUME TypeOK, LedgerInv, [Next]_vars PROVE LedgerInv'
    OBVIOUS
  <2>1. CASE UNCHANGED <<claimVars, task>>
    BY <2>1 DEF claimVars, PaidIsRecorded, SoleClaim, UnpaidUntilAward, AtMostOnePayment,
                Claims, Claiming, Unpaid
  <2>2. ASSUME NEW t \in Tasks, ~Claiming(t), ~Claiming(t)', UNCHANGED claimVars,
               \A u \in Tasks \ {t} : task'[u] = task[u]
        PROVE  LedgerInv'
    <3>1. \A u \in Tasks, k \in Keys :
            /\ Claims(u, k)' <=> Claims(u, k)
            /\ Claims(u, k) => task'[u] = task[u]
      BY <2>2 DEF Claims, Claiming
    <3>2. PaidIsRecorded'
      BY <2>2 DEF claimVars, PaidIsRecorded, Claiming, ClaimSteps
    <3>3. ASSUME NEW k \in Keys \ overlapped
          PROVE  SoleClaim(k)' /\ UnpaidUntilAward(k)' /\ AtMostOnePayment(k)'
      BY <2>2, <3>1 DEF claimVars, SoleClaim, UnpaidUntilAward, AtMostOnePayment, Unpaid
    <3>4. QED
      BY <2>2, <3>2, <3>3 DEF claimVars
  <2>3. ASSUME NEW t \in Tasks, NEW r \in Receipts, ClaimCheck(t, r) PROVE LedgerInv'
    <3>1. /\ task[t].pc = "idle" /\ ~Claiming(t)
          /\ task'[t].pc = "validate" /\ task'[t].receipt = r
          /\ \A u \in Tasks \ {t} : task'[u] = task[u]
          /\ Key[r] \notin processed /\ UNCHANGED <<karma, processed, awards>>
      BY <2>3 DEF ClaimCheck, Idle, Claim, Claiming, ClaimSteps, TypeOK
    <3>2. overlapped \subseteq overlapped'
      BY <2>3 DEF ClaimCheck
    <3>3. PaidIsRecorded'
      BY <3>1 DEF PaidIsRecorded
    <3>4. ASSUME NEW k \in Keys \ overlapped', k # Key[r]
          PROVE  SoleClaim(k)' /\ UnpaidUntilAward(k)' /\ AtMostOnePayment(k)'
      <4>1. \A u \in Tasks : /\ Claims(u, k)' <=> Claims(u, k)
                             /\ Claims(u, k) => task'[u] = task[u]
        BY <3>1, <3>4 DEF Claims, Claiming, ClaimSteps
      <4>2. QED
        BY <3>1, <3>2, <4>1 DEF SoleClaim, UnpaidUntilAward, AtMostOnePayment, Unpaid
    <3>5. ASSUME Key[r] \notin overlapped'
          PROVE  SoleClaim(Key[r])' /\ UnpaidUntilAward(Key[r])' /\ AtMostOnePayment(Key[r])'
      <4>1. \A u \in Tasks : ~Claims(u, Key[r])
        BY <2>3, <3>5 DEF ClaimCheck, Claims
      <4>2. \A u \in Tasks : Claims(u, Key[r])' => u = t
        BY <3>1, <4>1 DEF Claims, Claiming
      <4>3. Unpaid(Key[r])
        <5>1. ASSUME NEW q \in Receipts, Key[q] = Key[r] PROVE ~(awards[q] > 0)
          BY <3>1, <4>1, <5>1 DEF PaidIsRecorded, Claims, Claiming, ClaimSteps
        <5>2. \A q \in Receipts : awards[q] \in Nat
          BY DEF TypeOK
        <5>3. QED
          BY <5>1, <5>2 DEF Unpaid
      <4>4. QED
        BY <3>1, <4>2, <4>3 DEF SoleClaim, UnpaidUntilAward, AtMostOnePayment, Unpaid
    <3>6. QED
      BY <3>3, <3>4, <3>5
  <2>4. ASSUME NEW t \in Tasks, ClaimValidate(t) PROVE LedgerInv'
    <3> DEFINE r == task[t].receipt
    <3>1. /\ task[t].pc = "validate"
          /\ task'[t] = Claim(r, "award") \/ task'[t] = Idle
          /\ \A u \in Tasks \ {t} : task'[u] = task[u]
          /\ UNCHANGED claimVars
      BY <2>4 DEF ClaimValidate, TypeOK
    <3>2. \A k \in Keys : Claims(t, k)' => Claims(t, k)
      BY <3>1 DEF Claims, Claiming, ClaimSteps, Claim, Idle
    <3>3. \A u \in Tasks, k \in Keys : Claims(u, k)' => Claims(u, k)
      BY <3>1, <3>2 DEF Claims, Claiming
    <3>4. PaidIsRecorded'
      BY <3>1 DEF PaidIsRecorded, claimVars
    <3>5. ASSUME NEW k \in Keys \ overlapped
          PROVE  SoleClaim(k)' /\ UnpaidUntilAward(k)' /\ AtMostOnePayment(k)'
      <4>1. \A u \in Tasks : Claims(u, k)' /\ task'[u].pc # "record" =>
                             Claims(u, k) /\ task[u].pc # "record"
        BY <3>1, <3>3
      <4>2. QED
        BY <3>1, <3>3, <4>1 DEF claimVars, SoleClaim, UnpaidUntilAward, AtMostOnePayment, Unpaid
    <3>6. QED
      BY <3>1, <3>4, <3>5 DEF claimVars
  <2>5. ASSUME NEW t \in Tasks, ClaimAward(t) PROVE LedgerInv'
    <3>0. PICK r \in Receipts : r = task[t].receipt
      BY <2>5 DEF ClaimAward, TypeOK, TaskWellFormed, Claiming, ClaimSteps
    <3>1. Key[r] \in Keys /\ Claims(t, Key[r]) /\ task[t].pc = "award"
      BY <2>5, <3>0 DEF ClaimAward, Claiming, ClaimSteps, Claims, Keys
    <3>2. /\ task'[t].pc = "record" /\ task'[t].receipt = r
          /\ \A u \in Tasks \ {t} : task'[u] = task[u]
          /\ awards'[r] = awards[r] + 1
          /\ \A q \in Receipts \ {r} : awards'[q] = awards[q]
          /\ UNCHANGED <<processed, overlapped>>
      BY <2>5, <3>0, <3>1 DEF ClaimAward, Claim, TypeOK
    <3>3. \A u \in Tasks, k \in Keys : Claims(u, k)' <=> Claims(u, k)
      BY <3>1, <3>2 DEF Claims, Claiming, ClaimSteps
    <3>4. PaidIsRecorded'
      <4> SUFFICES ASSUME NEW q \in Receipts, awards'[q] > 0
                   PROVE  \/ Key[q] \in processed'
                          \/ \E u \in Tasks : task'[u].pc = "record" /\ task'[u].receipt = q
        BY DEF PaidIsRecorded
      <4>1. CASE q = r
        BY <3>2, <4>1
      <4>2. CASE q # r
        BY <3>1, <3>2, <4>2 DEF PaidIsRecorded
      <4>3. QED
        BY <4>1, <4>2
    <3>5. ASSUME NEW k \in Keys \ overlapped, k # Key[r]
          PROVE  SoleClaim(k)' /\ UnpaidUntilAward(k)' /\ AtMostOnePayment(k)'
      <4>1. \A q \in Receipts : Key[q] = k => awards'[q] = awards[q]
        BY <3>2, <3>5
      <4>2. \A u \in Tasks : Claims(u, k) => task'[u] = task[u]
        BY <3>1, <3>2, <3>5 DEF Claims
      <4>3. QED
        BY <3>3, <4>1, <4>2 DEF SoleClaim, UnpaidUntilAward, AtMostOnePayment, Unpaid
    <3>6. ASSUME Key[r] \notin overlapped
          PROVE  SoleClaim(Key[r])' /\ UnpaidUntilAward(Key[r])' /\ AtMostOnePayment(Key[r])'
      <4>1. Unpaid(Key[r])
        BY <3>1, <3>6 DEF UnpaidUntilAward
      <4>2. \A u \in Tasks : Claims(u, Key[r])' => u = t
        <5>1. SoleClaim(Key[r])
          BY <3>1, <3>6
        <5>2. QED
          BY <3>1, <3>3, <5>1 DEF SoleClaim
      <4>3. UnpaidUntilAward(Key[r])' /\ SoleClaim(Key[r])'
        BY <3>2, <4>2 DEF UnpaidUntilAward, SoleClaim
      <4>4. AtMostOnePayment(Key[r])'
        <5>1. awards[r] = 0 /\ awards'[r] = 1
          BY <3>1, <3>2, <4>1 DEF Unpaid
        <5>2. \A q \in Receipts \ {r} : Key[q] = Key[r] => awards'[q] = 0
          BY <3>2, <4>1 DEF Unpaid
        <5>3. QED
          <6> SUFFICES ASSUME NEW p \in Receipts, Key[p] = Key[r],
                              NEW q \in Receipts, Key[q] = Key[r]
                       PROVE  awards'[p] <= 1 /\ (awards'[p] > 0 /\ awards'[q] > 0 => p = q)
            BY DEF AtMostOnePayment
          <6>1. QED
            BY <5>1, <5>2
      <4>5. QED
        BY <4>3, <4>4
    <3>7. QED
      BY <3>2, <3>4, <3>5, <3>6
  <2>6. ASSUME NEW t \in Tasks, ClaimRecord(t) PROVE LedgerInv'
    <3> DEFINE r == task[t].receipt
    <3>1. /\ task[t].pc = "record" /\ ~Claiming(t)'
          /\ \A u \in Tasks \ {t} : task'[u] = task[u]
          /\ processed' = processed \cup {Key[r]} /\ UNCHANGED <<karma, awards, overlapped>>
      BY <2>6 DEF ClaimRecord, TypeOK, Claiming, ClaimSteps, Idle
    <3>2. \A u \in Tasks, k \in Keys : Claims(u, k)' => Claims(u, k) /\ task'[u] = task[u]
      BY <3>1 DEF Claims, Claiming
    <3>3. PaidIsRecorded'
      BY <3>1 DEF PaidIsRecorded
    <3>4. ASSUME NEW k \in Keys \ overlapped
          PROVE  SoleClaim(k)' /\ UnpaidUntilAward(k)' /\ AtMostOnePayment(k)'
      BY <3>1, <3>2 DEF SoleClaim, UnpaidUntilAward, AtMostOnePayment, Unpaid
    <3>5. QED
      BY <3>1, <3>3, <3>4
  <2>7. ASSUME NEW t \in Tasks, NEW n \in Nodes, DeregisterNode(t, n) \/ RankPeer(t, n)
        PROVE  LedgerInv'
    <3>1. \/ task' = [task EXCEPT ![t] = OnNode(n, "dropSignals")]
          \/ task' = [task EXCEPT ![t] = OnNode(n, "rank")]
      BY <2>7 DEF DeregisterNode, RankPeer
    <3>2. task[t] = Idle /\ UNCHANGED claimVars
      BY <2>7 DEF DeregisterNode, RankPeer
    <3>3. ~Claiming(t) /\ ~Claiming(t)' /\ \A u \in Tasks \ {t} : task'[u] = task[u]
      BY <3>1, <3>2 DEF TypeOK, Claiming, ClaimSteps, Idle, OnNode
    <3>4. QED
      BY <2>2, <3>2, <3>3
  <2>8. ASSUME NEW t \in Tasks, DropSignals(t) \/ ReadKarma(t) PROVE LedgerInv'
    <3>1. /\ task[t].pc \in NodeSteps /\ UNCHANGED claimVars
          /\ task' = [task EXCEPT ![t] = Idle]
      BY <2>8 DEF DropSignals, ReadKarma, NodeSteps
    <3>2. ~Claiming(t) /\ ~Claiming(t)' /\ \A u \in Tasks \ {t} : task'[u] = task[u]
      BY <3>1 DEF TypeOK, Claiming, ClaimSteps, NodeSteps, Idle
    <3>3. QED
      BY <2>2, <3>1, <3>2
  <2>9. QED
    BY <2>1, <2>3, <2>4, <2>5, <2>6, <2>7, <2>8
    DEF Next, Prune, HandlerStep, vars, PruneTick, PruneDrop, PruneKeep, PruneSignals,
        RegisterNode, HeartbeatNode, SendSignal, PollSignals
<1>3. QED
  BY <1>1, <1>2, TypeCorrect, PTL DEF Spec

\* claim_karma: a receipt whose claims never ran at the same time is paid once.
THEOREM PaidOnceWithoutOverlap == Spec => []PaidOnceUnlessOverlapped
<1>1. LedgerInv => PaidOnceUnlessOverlapped
  BY DEF LedgerInv, PaidOnceUnlessOverlapped
<1>2. QED
  BY <1>1, LedgerInvariant, PTL

\* matchmake, dashboard: the karma a reader sees comes from recorded claims only.
THEOREM ReportedKarma == Spec => ReportedKarmaIsRecorded
<1>1. TypeOK /\ LedgerInv /\ [Next]_vars =>
        [\A t \in Tasks : task[t].pc = "rank" /\ task'[t] = Idle =>
           \A r \in Receipts :
             Worker[r] = task[t].node /\ awards[r] > 0 => Key[r] \in processed]_vars
  <2> SUFFICES ASSUME TypeOK, LedgerInv, [Next]_vars, ~UNCHANGED vars,
                      NEW t \in Tasks, task[t].pc = "rank", task'[t] = Idle,
                      NEW r \in Receipts, Worker[r] = task[t].node, awards[r] > 0
               PROVE  Key[r] \in processed
    OBVIOUS
  <2>1. task[t].pc # "idle" /\ task'[t] # task[t]
    BY DEF Idle
  <2>2. ~UNCHANGED task
    BY <2>1
  <2>4. PICK u \in Tasks : \/ HandlerStep(u)
                           \/ \E n \in Nodes : DeregisterNode(u, n) \/ RankPeer(u, n)
                           \/ \E q \in Receipts : ClaimCheck(u, q)
    BY <2>2 DEF Next, Prune, PruneTick, PruneDrop, PruneKeep, PruneSignals,
       RegisterNode, HeartbeatNode, SendSignal, PollSignals
  <2>5. \E v : task' = [task EXCEPT ![u] = v]
    BY <2>4 DEF HandlerStep, DeregisterNode, RankPeer, DropSignals, ReadKarma,
       ClaimCheck, ClaimValidate, ClaimAward, ClaimRecord
  <2>6. u = t
    BY <2>1, <2>5 DEF TypeOK
  <2>7. ReadKarma(t)
    BY <2>1, <2>4, <2>6 DEF HandlerStep, DeregisterNode, RankPeer, DropSignals, ReadKarma,
       ClaimCheck, ClaimValidate, ClaimAward, ClaimRecord
  <2>8. QED
    BY <2>7 DEF ReadKarma, KarmaLocked, LedgerInv, PaidIsRecorded
<1>2. QED
  BY <1>1, TypeCorrect, LedgerInvariant, PTL DEF Spec, ReportedKarmaIsRecorded

-----------------------------------------------------------------------------
\* The entry the prune pass holds stays registered and stale until it is dropped.
PruneInv == pruning # NoNode => pruning \in nodes /\ age[pruning] >= StaleTicks

LEMMA PruneInvariant == Spec => []PruneInv
<1>1. Init => PruneInv
  BY DEF Init, PruneInv
<1>2. TypeOK /\ PruneInv /\ [Next]_vars => PruneInv'
  <2> SUFFICES ASSUME TypeOK, PruneInv, [Next]_vars PROVE PruneInv'
    OBVIOUS
  <2>1. CASE UNCHANGED nodeVars
    BY <2>1 DEF nodeVars, PruneInv
  <2>2. CASE PruneTick
    BY <2>2 DEF PruneTick, PruneIdle, PruneInv
  <2>3. CASE PruneDrop
    BY <2>3 DEF PruneDrop, PruneInv
  <2>4. ASSUME NEW n \in Nodes, PruneKeep(n) \/ PruneSignals(n) PROVE PruneInv'
    BY <2>4 DEF PruneKeep, PruneSignals, PruneInv
  <2>5. ASSUME NEW n \in Nodes, pruning # n, UNCHANGED pruning,
               nodes \ {n} \subseteq nodes', age' = [age EXCEPT ![n] = 0]
        PROVE  PruneInv'
    BY <2>5 DEF PruneInv, TypeOK
  <2>6. ASSUME NEW n \in Nodes, RegisterNode(n) PROVE PruneInv'
    BY <2>5, <2>6 DEF RegisterNode, WriteFree
  <2>7. ASSUME NEW n \in Nodes, HeartbeatNode(n) PROVE PruneInv'
    BY <2>5, <2>7 DEF HeartbeatNode, WriteFree
  <2>8. ASSUME NEW t \in Tasks, NEW n \in Nodes, DeregisterNode(t, n) PROVE PruneInv'
    BY <2>5, <2>8 DEF DeregisterNode, WriteFree
  <2>9. QED
    BY <2>1, <2>2, <2>3, <2>4, <2>6, <2>7, <2>8
    DEF Next, Prune, HandlerStep, vars, RankPeer, SendSignal, PollSignals,
        DropSignals, ReadKarma, ClaimCheck, ClaimValidate, ClaimAward, ClaimRecord
<1>3. QED
  BY <1>1, <1>2, TypeCorrect, PTL DEF Spec

\* The prune pass drops no node that announced itself since it was found stale.
THEOREM PruneSafe == Spec => PruneSparesFresh
<1>1. TypeOK /\ PruneInv /\ [Next]_vars =>
        [\A n \in nodes \ nodes' : pruning = n => age[n] >= StaleTicks]_vars
  BY DEF PruneInv, TypeOK
<1>2. QED
  BY <1>1, TypeCorrect, PruneInvariant, PTL DEF Spec, PruneSparesFresh

-----------------------------------------------------------------------------
(***************************************************************************)
(* Proofs about the swarms of any set of peers, any instances and any      *)
(* callers.  The first lemmas put well-founded induction and recursion     *)
(* into terms of sets and functions, for lemmas about recursive functions. *)
(***************************************************************************)
HIDE CoordinatorAssumption

LEMMA LeastNat ==
  ASSUME NEW T, T \subseteq Nat, T # {}
  PROVE  \E x \in T : \A y \in T : x <= y
<1>1. \E x \in T : \A y \in T : <<y, x>> \notin OpToRel(<, Nat)
  BY NatLessThanWellFounded, WFMin, Zenon
<1>2. PICK x \in T : \A y \in T : <<y, x>> \notin OpToRel(<, Nat)
  BY <1>1
<1>3. \A y \in T : ~(y < x)
  BY <1>2 DEF OpToRel
<1> QED BY <1>3

LEMMA InductionOnSet ==
  ASSUME NEW T, 0 \in T, \A n \in Nat : n \in T => n + 1 \in T
  PROVE  \A n \in Nat : n \in T
<1> DEFINE Others == Nat \ T
<1>1. SUFFICES ASSUME Others # {} PROVE FALSE
  OBVIOUS
<1>2. PICK x \in Others : \A y \in Others : x <= y
  <2> HIDE DEF Others
  <2>1. Others \subseteq Nat BY DEF Others
  <2> QED BY <2>1, <1>1, LeastNat
<1>3. x # 0 /\ x \in Nat OBVIOUS
<1>4. x - 1 \in Nat /\ x - 1 \notin Others BY <1>2, <1>3
<1>5. x - 1 \in T BY <1>4
<1>6. (x - 1) + 1 \in T BY <1>4, <1>5
<1> QED BY <1>6, <1>3

\* A function defined by recursion on 0..N exists when its steps are functions.
Recurs(f, N, a, step) == f[0] = a /\ \A n \in 1..N : f[n] = step[n][f[n - 1]]
LEMMA Recursion ==
  ASSUME NEW N \in Nat, NEW A, NEW a \in A, NEW step \in [1..N -> [A -> A]]
  PROVE  \E f \in [0..N -> A] : Recurs(f, N, a, step)
<1> DEFINE Upto(k, f) == /\ f \in [0..k -> A]
                         /\ f[0] = a
                         /\ \A n \in 1..k : f[n] = step[n][f[n - 1]]
           T == {k \in Nat : k <= N => \E f : Upto(k, f)}
<1>1. 0 \in T
  <2>1. Upto(0, [n \in 0..0 |-> a]) OBVIOUS
  <2> QED BY <2>1
<1>2. ASSUME NEW k \in Nat, k \in T PROVE k + 1 \in T
  <2>1. SUFFICES ASSUME k + 1 <= N PROVE \E f : Upto(k + 1, f)
    OBVIOUS
  <2>2. PICK f : Upto(k, f) BY <1>2, <2>1
  <2> DEFINE v == step[k + 1][f[k]]
             g == [n \in 0..(k + 1) |-> IF n = k + 1 THEN v ELSE f[n]]
  <2>3. v \in A
    <3>1. f[k] \in A BY <2>2
    <3>2. k + 1 \in 1..N BY <2>1
    <3>3. step[k + 1] \in [A -> A] BY <3>2
    <3> QED BY <3>1, <3>3
  <2> HIDE DEF v
  <2>4. g \in [0..(k + 1) -> A] BY <2>2, <2>3
  <2>5. g[0] = a BY <2>2
  <2>6. ASSUME NEW n \in 1..(k + 1) PROVE g[n] = step[n][g[n - 1]]
    <3>1. g[n - 1] = f[n - 1] OBVIOUS
    <3>2. CASE n = k + 1
      <4>1. n - 1 = k /\ g[n] = v BY <3>2
      <4> QED BY <4>1, <3>1, <3>2 DEF v
    <3>3. CASE n \in 1..k BY <3>1, <3>3, <2>2
    <3> QED BY <3>2, <3>3
  <2>7. Upto(k + 1, g) BY <2>4, <2>5, <2>6
  <2> QED BY <2>7
<1>3. N \in T
  <2> HIDE DEF T
  <2> QED BY <1>1, <1>2, InductionOnSet
<1>4. PICK f : Upto(N, f) BY <1>3
<1> QED BY <1>4 DEF Recurs

-----------------------------------------------------------------------------
(* The router's entries                                                        *)

EntriesOf(q) == {q[i] : i \in DOMAIN q}

LEMMA SequenceOfEntries ==
  ASSUME NEW S, NEW q \in Seq(S)
  PROVE  q \in Seq(EntriesOf(q)) /\ EntriesOf(q) \subseteq S
BY DEF EntriesOf

LEMMA AppendEntry ==
  ASSUME NEW q, q \in Seq(EntriesOf(q)), NEW e
  PROVE  /\ Append(q, e) \in Seq(EntriesOf(Append(q, e)))
         /\ EntriesOf(Append(q, e)) \subseteq EntriesOf(q) \cup {e}
<1> DEFINE S == EntriesOf(q) \cup {e}
<1>1. q \in Seq(S)
  <2>1. \A i \in 1..Len(q) : q[i] \in S BY DEF EntriesOf
  <2> QED BY <2>1
<1>2. Append(q, e) \in Seq(S) BY <1>1
<1> QED BY <1>2, SequenceOfEntries

LEMMA WithoutEntries ==
  ASSUME NEW S, NEW q \in Seq(S), NEW s
  PROVE  Without(q, s) \in Seq({e \in S : e.id # s})
<1> DEFINE R == Seq({e \in S : e.id # s})
           N == Len(q)
           Rule(g) == [n \in 0..N |-> IF n = 0 THEN <<>>
                         ELSE IF q[n].id = s THEN g[n - 1] ELSE Append(g[n - 1], q[n])]
           kept == CHOOSE g : g = Rule(g)
           step == [n \in 1..N |-> [r \in R |-> IF q[n].id = s THEN r ELSE Append(r, q[n])]]
<1>1. \A n \in 1..N : q[n] \in S OBVIOUS
<1>2. step \in [1..N -> [R -> R]]
  <2>1. ASSUME NEW r \in R, NEW n \in 1..N, q[n].id # s PROVE Append(r, q[n]) \in R
    <3>1. q[n] \in {e \in S : e.id # s} BY <2>1, <1>1
    <3> QED BY <3>1
  <2> HIDE DEF R
  <2> QED BY <2>1
<1>3. PICK f \in [0..N -> R] : Recurs(f, N, <<>>, step)
  <2> DEFINE a == <<>>
  <2>1. a \in R OBVIOUS
  <2>2. N \in Nat OBVIOUS
  <2> HIDE DEF R, step, N, a
  <2>3. \E f \in [0..N -> R] : Recurs(f, N, a, step)
    BY <2>1, <2>2, <1>2, Recursion
  <2> QED BY <2>3 DEF a
<1>4. f = Rule(f)
  <2> HIDE DEF R
  <2>1. ASSUME NEW n \in 1..N
        PROVE step[n][f[n - 1]] = IF q[n].id = s THEN f[n - 1] ELSE Append(f[n - 1], q[n])
    <3>1. n - 1 \in 0..N OBVIOUS
    <3>2. f[n - 1] \in R BY <3>1
    <3> QED BY <3>2
  <2> HIDE DEF step, N
  <2>2. \A n \in 0..N : n = 0 \/ n \in 1..N BY DEF N
  <2>3. \A n \in 0..N : f[n] = IF n = 0 THEN <<>>
                     ELSE IF q[n].id = s THEN f[n - 1] ELSE Append(f[n - 1], q[n])
    BY <1>3, <2>1, <2>2 DEF Recurs
  <2>4. f = [n \in 0..N |-> f[n]] BY <1>3
  <2> QED BY <2>3, <2>4
<1>5. kept = Rule(kept)
  <2> HIDE DEF Rule
  <2> QED BY <1>4
<1> DEFINE T == {n \in Nat : n <= N => kept[n] \in R}
<1>6. N \in T
  <2>1. 0 \in T
    <3>1. 0 \in 0..N OBVIOUS
    <3>2. kept[0] = <<>>
      <4> HIDE DEF kept
      <4> QED BY <1>5, <3>1
    <3> HIDE DEF kept
    <3>3. kept[0] \in R BY <3>2
    <3> QED BY <3>3
  <2>2. ASSUME NEW n \in Nat, n \in T PROVE n + 1 \in T
    <3>1. SUFFICES ASSUME n + 1 <= N PROVE kept[n + 1] \in R
      OBVIOUS
    <3>2. n + 1 \in 0..N /\ n + 1 # 0 /\ (n + 1) - 1 = n BY <3>1
    <3>3. kept[n] \in R BY <2>2, <3>1
    <3>4. kept[n + 1] = IF q[n + 1].id = s THEN kept[n] ELSE Append(kept[n], q[n + 1])
      <4> HIDE DEF kept
      <4> QED BY <1>5, <3>2
    <3>5. q[n + 1] \in S BY <3>1
    <3> HIDE DEF kept
    <3>6. CASE q[n + 1].id = s BY <3>6, <3>3, <3>4
    <3>7. CASE q[n + 1].id # s
      <4>1. q[n + 1] \in {e \in S : e.id # s} BY <3>7, <3>5
      <4> QED BY <4>1, <3>7, <3>3, <3>4
    <3> QED BY <3>6, <3>7
  <2> HIDE DEF T
  <2>3. \A n \in Nat : n \in T BY <2>1, <2>2, InductionOnSet
  <2> QED BY <2>3
<1>7. kept[N] \in R BY <1>6
<1>8. Without(q, s) = kept[N] BY DEF Without
<1> QED BY <1>7, <1>8

-----------------------------------------------------------------------------
(* The router's invariant                                                      *)

Chosen(s) == CallersOn(s, "chosen")
Running(s) == CallersOn(s, "running")

SwarmTypeOK ==
  /\ load \in [Swarms -> 0..CountModulus]
  /\ caller \in [Callers -> {NoRequest} \cup [at : {"chosen", "running"}, swarm : Swarms]]
  /\ DOMAIN listed = Models
  /\ \A m \in Models : listed[m] \in Seq(EntriesOf(listed[m]))

\* An entry of the router has a counter.
EntriesHaveLoad ==
  \A m \in Models : \A e \in EntriesOf(listed[m]) : e.id \in Swarms /\ load[e.id] # NoLoad

\* Callers of a swarm without a counter are recorded as recounted.
NobodyUncounted ==
  \A s \in Swarms \ recounted : load[s] = NoLoad => Chosen(s) = {} /\ Running(s) = {}

\* One caller at most is between its choice and its count.
LoadCounts ==
  \A s \in Swarms \ (crowded \cup recounted) : load[s] # NoLoad =>
    /\ load[s] = Cardinality(Running(s))
    /\ Cardinality(Chosen(s)) <= 1
    /\ load[s] + Cardinality(Chosen(s)) <= MaxRequests

SwarmInv == SwarmTypeOK /\ EntriesHaveLoad /\ NobodyUncounted /\ LoadCounts

\* fetch_sub of one, as the addition of the greatest number.
LEMMA WrapsDown ==
  ASSUME NEW n \in Nat, NEW k \in 1..n - 1
  PROVE  (k + (n - 1)) % n = k - 1
<1>1. k + (n - 1) = (k - 1) + n OBVIOUS
<1>2. ((k - 1) + n) % n = k - 1 OBVIOUS
<1> QED BY <1>1, <1>2

LEMMA CallersCounted ==
  ASSUME NEW s, NEW at
  PROVE  /\ IsFiniteSet(CallersOn(s, at))
         /\ Cardinality(CallersOn(s, at)) \in Nat
         /\ Cardinality(CallersOn(s, at)) < CountModulus
<1>1. CallersOn(s, at) \subseteq Callers BY DEF CallersOn
<1>2. IsFiniteSet(Callers) /\ Cardinality(Callers) < CountModulus /\ CountModulus \in Nat
  BY SwarmAssumption, FS_CardinalityType
<1>3. IsFiniteSet(CallersOn(s, at)) /\ Cardinality(CallersOn(s, at)) <= Cardinality(Callers)
  BY <1>1, <1>2, FS_Subset
<1>4. Cardinality(CallersOn(s, at)) \in Nat /\ Cardinality(Callers) \in Nat
  BY <1>2, <1>3, FS_CardinalityType
<1> QED BY <1>2, <1>3, <1>4

\* select_swarm's pick is an entry that may be picked.
LEMMA SelectedIsOpen ==
  ASSUME SwarmInv, NEW m \in Models, Open(m) # {}
  PROVE  Selected(m) \in Open(m)
<1> DEFINE q == listed[m]
           L(i) == LoadOf(q[i].id)
           ready == {i \in Open(m) : q[i].status = "ready"}
           Best(i) == \A j \in Open(m) : /\ ~Better(q[j], q[i])
                                         /\ j < i => Better(q[i], q[j])
<1>1. \A i \in Open(m) : i \in Nat /\ L(i) \in Nat
  <2>1. ASSUME NEW i \in Open(m) PROVE i \in Nat /\ L(i) \in Nat
    <3>1. i \in DOMAIN q /\ q \in Seq(EntriesOf(q))
      BY DEF Open, SwarmInv, SwarmTypeOK
    <3>2. i \in Nat BY <3>1
    <3>3. q[i] \in EntriesOf(q) BY <3>1 DEF EntriesOf
    <3>4. q[i].id \in Swarms BY <3>3 DEF SwarmInv, EntriesHaveLoad
    <3>5. load[q[i].id] \in Nat
      BY <3>4, SwarmAssumption DEF SwarmInv, SwarmTypeOK
    <3> QED BY <3>2, <3>5 DEF LoadOf
  <2> QED BY <2>1
<1>2. \E i \in Open(m) : Best(i)
  <2> HIDE DEF L, q
  <2>1. CASE ready # {}
    <3> DEFINE loads == {L(i) : i \in ready}
    <3>1. PICK low \in loads : \A x \in loads : low <= x
      <4>1. loads \subseteq Nat /\ loads # {} BY <1>1, <2>1
      <4> HIDE DEF loads
      <4> QED BY <4>1, LeastNat
    <3> DEFINE lightest == {i \in ready : L(i) = low}
    <3>2. PICK i \in lightest : \A j \in lightest : i <= j
      <4>1. lightest \subseteq Nat /\ lightest # {} BY <1>1, <3>1
      <4> HIDE DEF lightest
      <4> QED BY <4>1, LeastNat
    <3>3. i \in Open(m) /\ q[i].status = "ready" /\ L(i) = low /\ low \in Nat BY <3>2, <1>1
    <3>4. ASSUME NEW j \in Open(m)
          PROVE ~Better(q[j], q[i]) /\ (j < i => Better(q[i], q[j]))
      <4>1. L(j) \in Nat /\ j \in Nat /\ i \in Nat BY <1>1, <3>3
      <4>2. CASE q[j].status = "ready"
        <5>1. low <= L(j) BY <3>1, <4>2
        <5>2. L(j) = low => i <= j BY <3>2, <4>2
        <5>3. Better(q[j], q[i]) <=> L(j) < L(i) BY <3>3, <4>2 DEF Better, L
        <5>4. Better(q[i], q[j]) <=> L(i) < L(j) BY <3>3, <4>2 DEF Better, L
        <5> QED BY <5>1, <5>2, <5>3, <5>4, <4>1, <3>3
      <4>3. CASE q[j].status # "ready" BY <4>3, <3>3 DEF Better
      <4> QED BY <4>2, <4>3
    <3> QED BY <3>3, <3>4
  <2>2. CASE ready = {}
    <3>1. PICK i \in Open(m) : \A j \in Open(m) : i <= j
      <4>1. Open(m) \subseteq Nat BY <1>1
      <4> QED BY <4>1, LeastNat
    <3>2. \A j \in Open(m) : q[j].status # "ready" /\ j \in Nat BY <2>2, <1>1
    <3>3. Best(i) BY <3>1, <3>2 DEF Better
    <3> QED BY <3>3
  <2> QED BY <2>1, <2>2
<1>3. Selected(m) = CHOOSE i \in Open(m) : Best(i) BY DEF Selected
<1> HIDE DEF Best
<1> QED BY <1>2, <1>3

-----------------------------------------------------------------------------
(* The steps                                                                   *)

\* A change of the definitions leaves the router alone.
LEMMA RouterFrame ==
  ASSUME SwarmInv, DOMAIN swarm' = DOMAIN swarm,
         UNCHANGED <<listed, load, caller, crowded, recounted>>
  PROVE  SwarmInv'
<1>1. UNCHANGED <<listed, load, caller, crowded, recounted>> OBVIOUS
<1>2. Swarms' = Swarms BY DEF Swarms
<1>3. \A m \in Models : EntriesOf(listed[m])' = EntriesOf(listed[m]) BY <1>1 DEF EntriesOf
<1>4. \A s : Chosen(s)' = Chosen(s) /\ Running(s)' = Running(s)
  BY <1>1 DEF Chosen, Running, CallersOn
<1>5. SwarmTypeOK' BY <1>1, <1>2, <1>3 DEF SwarmInv, SwarmTypeOK
<1>6. EntriesHaveLoad' BY <1>1, <1>2, <1>3 DEF SwarmInv, EntriesHaveLoad
<1>7. NobodyUncounted' BY <1>1, <1>2, <1>4 DEF SwarmInv, NobodyUncounted
<1>8. LoadCounts' BY <1>1, <1>2, <1>4 DEF SwarmInv, LoadCounts
<1> QED BY <1>5, <1>6, <1>7, <1>8 DEF SwarmInv

LEMMA MembersStep ==
  ASSUME SwarmInv, DOMAIN swarm' = DOMAIN swarm, UNCHANGED routerVars
  PROVE  SwarmInv'
BY RouterFrame DEF routerVars

LEMMA RegisterStep ==
  ASSUME SwarmInv, NEW s \in Swarms, Register(s)
  PROVE  SwarmInv'
<1> DEFINE mm == swarm[s].model
           new == [id |-> s, status |-> swarm[s].status]
<1>1. Swarms' = Swarms BY DEF Register, memberVars, Swarms
<1>2. \A t : Chosen(t)' = Chosen(t) /\ Running(t)' = Running(t)
  BY DEF Register, Chosen, Running, CallersOn
<1>3. /\ load' = [load EXCEPT ![s] = IF @ = NoLoad THEN 0 ELSE @]
      /\ load \in [Swarms -> 0..CountModulus] /\ CountModulus \in Nat
      /\ CountModulus > 0
  <2>1. CountModulus > 0 BY SwarmAssumption, FS_CardinalityType
  <2> QED BY <2>1, SwarmAssumption DEF Register, SwarmInv, SwarmTypeOK
<1>4. /\ load' \in [Swarms -> 0..CountModulus]
      /\ load'[s] # NoLoad
      /\ \A t \in Swarms : load[t] # NoLoad => load'[t] = load[t]
      /\ \A t \in Swarms : t # s => load'[t] = load[t]
      /\ load[s] = NoLoad => load'[s] = 0
  BY <1>3 DEF NoLoad
<1>5. \A m \in Models : listed'[m] = IF m = mm THEN Append(listed[m], new) ELSE listed[m]
  BY DEF Register, SwarmInv, SwarmTypeOK
<1>6. \A m \in Models : /\ listed'[m] \in Seq(EntriesOf(listed[m])')
                        /\ EntriesOf(listed[m])' \subseteq EntriesOf(listed[m]) \cup {new}
  <2> SUFFICES ASSUME NEW m \in Models
               PROVE  /\ listed'[m] \in Seq(EntriesOf(listed[m])')
                      /\ EntriesOf(listed[m])' \subseteq EntriesOf(listed[m]) \cup {new}
    OBVIOUS
  <2>1. listed[m] \in Seq(EntriesOf(listed[m])) BY DEF SwarmInv, SwarmTypeOK
  <2>2. EntriesOf(listed[m])' = EntriesOf(listed'[m]) BY DEF EntriesOf
  <2> DEFINE q == listed[m]
             e == new
  <2> HIDE DEF q, e
  <2>3. /\ Append(q, e) \in Seq(EntriesOf(Append(q, e)))
        /\ EntriesOf(Append(q, e)) \subseteq EntriesOf(q) \cup {e}
    BY <2>1, AppendEntry DEF q
  <2> QED BY <2>1, <2>2, <2>3, <1>5 DEF q, e
<1>7. SwarmTypeOK'
  <2>1. UNCHANGED caller BY DEF Register
  <2>2. DOMAIN listed' = Models BY DEF Register, SwarmInv, SwarmTypeOK
  <2>3. caller' \in [Callers -> {NoRequest} \cup [at : {"chosen", "running"}, swarm : Swarms]]
    BY <2>1 DEF SwarmInv, SwarmTypeOK
  <2> QED BY <1>1, <1>4, <1>6, <2>2, <2>3 DEF SwarmTypeOK
<1>8. EntriesHaveLoad'
  <2>1. ASSUME NEW m \in Models, NEW e \in EntriesOf(listed[m])'
        PROVE  e.id \in Swarms /\ load'[e.id] # NoLoad
    <3>1. CASE e = new BY <3>1, <1>4
    <3>2. CASE e \in EntriesOf(listed[m])
      <4>1. e.id \in Swarms /\ load[e.id] # NoLoad BY <3>2 DEF SwarmInv, EntriesHaveLoad
      <4> QED BY <4>1, <1>4
    <3> QED BY <2>1, <1>6, <3>1, <3>2
  <2> QED BY <2>1, <1>1 DEF EntriesHaveLoad, NoLoad
<1>9. NobodyUncounted'
  <2>1. recounted' = recounted BY DEF Register
  <2> QED BY <2>1, <1>1, <1>2, <1>4 DEF SwarmInv, NobodyUncounted, NoLoad
<1>10. LoadCounts'
  <2>1. crowded' = crowded /\ recounted' = recounted BY DEF Register
  <2>2. ASSUME NEW t \in Swarms \ (crowded \cup recounted), load'[t] # NoLoad
        PROVE  /\ load'[t] = Cardinality(Running(t))
               /\ Cardinality(Chosen(t)) <= 1
               /\ load'[t] + Cardinality(Chosen(t)) <= MaxRequests
    <3>1. CASE load[t] # NoLoad BY <2>2, <3>1, <1>4 DEF SwarmInv, LoadCounts
    <3>2. CASE load[t] = NoLoad
      <4>1. t = s /\ load'[t] = 0 BY <2>2, <3>2, <1>4
      <4>2. Running(t) = {} /\ Chosen(t) = {}
        BY <2>2, <3>2 DEF SwarmInv, NobodyUncounted
      <4>3. Cardinality(Running(t)) = 0 /\ Cardinality(Chosen(t)) = 0
        BY <4>2, FS_EmptySet
      <4> QED BY <4>1, <4>3, SwarmAssumption
    <3> QED BY <3>1, <3>2
  <2> QED BY <2>1, <2>2, <1>1, <1>2 DEF LoadCounts, NoLoad
<1> QED BY <1>7, <1>8, <1>9, <1>10 DEF SwarmInv

LEMMA UnregisterStep ==
  ASSUME SwarmInv, NEW s \in Swarms, Unregister(s)
  PROVE  SwarmInv'
<1>1. Swarms' = Swarms BY DEF Unregister, memberVars, Swarms
<1>2. \A t : Chosen(t)' = Chosen(t) /\ Running(t)' = Running(t)
  BY DEF Unregister, Chosen, Running, CallersOn
<1>3. /\ load' \in [Swarms -> 0..CountModulus]
      /\ load'[s] = NoLoad
      /\ \A t \in Swarms : t # s => load'[t] = load[t]
  BY SwarmAssumption DEF Unregister, SwarmInv, SwarmTypeOK, NoLoad
<1>4. \A m \in Models : /\ listed'[m] \in Seq(EntriesOf(listed[m])')
                        /\ EntriesOf(listed[m])' \subseteq {e \in EntriesOf(listed[m]) : e.id # s}
  <2> SUFFICES ASSUME NEW m \in Models
               PROVE  /\ listed'[m] \in Seq(EntriesOf(listed[m])')
                      /\ EntriesOf(listed[m])' \subseteq {e \in EntriesOf(listed[m]) : e.id # s}
    OBVIOUS
  <2>1. listed[m] \in Seq(EntriesOf(listed[m])) BY DEF SwarmInv, SwarmTypeOK
  <2>2. EntriesOf(listed[m])' = EntriesOf(listed'[m]) BY DEF EntriesOf
  <2>3. listed'[m] = Without(listed[m], s) BY DEF Unregister
  <2> DEFINE S == EntriesOf(listed[m])
             q == listed[m]
             r == Without(q, s)
  <2> HIDE DEF S, q, r
  <2>4. r \in Seq({e \in S : e.id # s}) BY <2>1, WithoutEntries DEF q, S, r
  <2>5. r \in Seq(EntriesOf(r)) /\ EntriesOf(r) \subseteq {e \in S : e.id # s}
    BY <2>4, SequenceOfEntries
  <2> QED BY <2>2, <2>3, <2>5 DEF q, S, r
<1>5. SwarmTypeOK'
  <2>1. UNCHANGED caller BY DEF Unregister
  <2>2. DOMAIN listed' = Models BY DEF Unregister
  <2>3. caller' \in [Callers -> {NoRequest} \cup [at : {"chosen", "running"}, swarm : Swarms]]
    BY <2>1 DEF SwarmInv, SwarmTypeOK
  <2> QED BY <1>1, <1>3, <1>4, <2>2, <2>3 DEF SwarmTypeOK
<1>6. EntriesHaveLoad'
  <2>1. ASSUME NEW m \in Models, NEW e \in EntriesOf(listed[m])'
        PROVE  e.id \in Swarms /\ load'[e.id] # NoLoad
    <3>1. e \in EntriesOf(listed[m]) /\ e.id # s BY <2>1, <1>4
    <3>2. e.id \in Swarms /\ load[e.id] # NoLoad BY <3>1 DEF SwarmInv, EntriesHaveLoad
    <3> QED BY <3>1, <3>2, <1>3
  <2> QED BY <2>1, <1>1 DEF EntriesHaveLoad, NoLoad
<1>7. recounted \subseteq recounted' /\ crowded' = crowded BY DEF Unregister
<1>8. NobodyUncounted'
  <2>1. ASSUME NEW t \in Swarms \ recounted', load'[t] = NoLoad
        PROVE  Chosen(t) = {} /\ Running(t) = {}
    <3>1. CASE t = s BY <2>1, <3>1 DEF Unregister, Chosen, Running
    <3>2. CASE t # s
      <4>1. load[t] = NoLoad /\ t \notin recounted BY <2>1, <3>2, <1>3, <1>7
      <4> QED BY <2>1, <4>1 DEF SwarmInv, NobodyUncounted
    <3> QED BY <3>1, <3>2
  <2> QED BY <2>1, <1>1, <1>2 DEF NobodyUncounted, NoLoad
<1>9. LoadCounts'
  <2>1. ASSUME NEW t \in Swarms \ (crowded \cup recounted'), load'[t] # NoLoad
        PROVE  /\ load'[t] = Cardinality(Running(t))
               /\ Cardinality(Chosen(t)) <= 1
               /\ load'[t] + Cardinality(Chosen(t)) <= MaxRequests
    <3>1. t # s /\ load'[t] = load[t] /\ t \notin recounted BY <2>1, <1>3, <1>7
    <3> QED BY <2>1, <3>1 DEF SwarmInv, LoadCounts
  <2> QED BY <2>1, <1>1, <1>2, <1>7 DEF LoadCounts, NoLoad
<1> QED BY <1>5, <1>6, <1>8, <1>9 DEF SwarmInv

\* The caller of a step is on the swarm s0 afterwards, before, or both.
LEMMA CallerMoves ==
  ASSUME NEW c \in Callers, \A d \in Callers \ {c} : caller'[d] = caller[d], NEW s, NEW at
  PROVE  /\ caller'[c] = [at |-> at, swarm |-> s] => CallersOn(s, at)' = CallersOn(s, at) \cup {c}
         /\ caller'[c] # [at |-> at, swarm |-> s] => CallersOn(s, at)' = CallersOn(s, at) \ {c}
<1>1. CallersOn(s, at)' = {d \in Callers : caller'[d] = [at |-> at, swarm |-> s]}
  BY DEF CallersOn
<1> QED BY <1>1 DEF CallersOn

LEMMA SelectStep ==
  ASSUME SwarmInv, NEW c \in Callers, NEW p, NEW m \in Models, Select(c, p, m)
  PROVE  SwarmInv'
<1>0. PICK s : s = listed[m][Selected(m)].id OBVIOUS
<1> DEFINE x == [at |-> "chosen", swarm |-> s]
<1>1. Selected(m) \in Open(m) BY SelectedIsOpen DEF Select
<1>2. s \in Swarms /\ load[s] # NoLoad /\ HasRoom(s)
  <2>1. Selected(m) \in DOMAIN listed[m] /\ HasRoom(s) BY <1>0, <1>1 DEF Open
  <2>2. listed[m][Selected(m)] \in EntriesOf(listed[m]) BY <2>1 DEF EntriesOf
  <2> QED BY <1>0, <2>1, <2>2 DEF SwarmInv, EntriesHaveLoad
<1>3. /\ caller' = [caller EXCEPT ![c] = x]
      /\ crowded' = IF Chosen(s) = {} THEN crowded ELSE crowded \cup {s}
      /\ UNCHANGED <<listed, load, recounted>> /\ Swarms' = Swarms
  BY <1>0 DEF Select, Chosen, memberVars, Swarms
<1>4. /\ x # NoRequest /\ caller[c] = NoRequest
      /\ x \in {NoRequest} \cup [at : {"chosen", "running"}, swarm : Swarms]
  BY <1>2 DEF NoRequest, Select
<1>5. DOMAIN caller = Callers BY DEF SwarmInv, SwarmTypeOK
<1>6. \A t : c \notin Chosen(t) /\ c \notin Running(t)
  BY <1>4 DEF Chosen, Running, CallersOn, NoRequest
<1>7. /\ \A t : Running(t)' = Running(t)
      /\ \A t : t # s => Chosen(t)' = Chosen(t)
      /\ Chosen(s)' = Chosen(s) \cup {c}
  <2>0. caller'[c] = x /\ \A d \in Callers \ {c} : caller'[d] = caller[d] BY <1>3, <1>5
  <2>1. ASSUME NEW t PROVE CallersOn(t, "running")' = CallersOn(t, "running") \ {c}
    <3>1. caller'[c] # [at |-> "running", swarm |-> t] BY <2>0
    <3> QED BY <3>1, <2>0, CallerMoves
  <2>2. ASSUME NEW t
        PROVE  CallersOn(t, "chosen")' = IF t = s THEN CallersOn(t, "chosen") \cup {c}
                                         ELSE CallersOn(t, "chosen") \ {c}
    <3>1. caller'[c] = [at |-> "chosen", swarm |-> t] <=> t = s BY <2>0
    <3> QED BY <3>1, <2>0, CallerMoves
  <2> QED BY <2>1, <2>2, <1>6 DEF Chosen, Running
<1>8. SwarmTypeOK'
  <2>1. \A n \in Models : EntriesOf(listed[n])' = EntriesOf(listed[n]) BY <1>3 DEF EntriesOf
  <2> HIDE DEF x
  <2>2. caller' \in [Callers -> {NoRequest} \cup [at : {"chosen", "running"}, swarm : Swarms]]
    BY <1>3, <1>4 DEF SwarmInv, SwarmTypeOK
  <2> QED BY <1>3, <2>1, <2>2 DEF SwarmInv, SwarmTypeOK
<1>9. EntriesHaveLoad'
  <2>1. \A n \in Models : EntriesOf(listed[n])' = EntriesOf(listed[n]) BY <1>3 DEF EntriesOf
  <2> QED BY <1>3, <2>1 DEF SwarmInv, EntriesHaveLoad
<1>10. NobodyUncounted'
  <2>1. \A t \in Swarms \ recounted : load[t] = NoLoad => t # s BY <1>2
  <2> QED BY <1>3, <1>7, <2>1 DEF SwarmInv, NobodyUncounted
<1>11. LoadCounts'
  <2>1. ASSUME NEW t \in Swarms \ (crowded' \cup recounted), load[t] # NoLoad
        PROVE  /\ load[t] = Cardinality(Running(t)')
               /\ Cardinality(Chosen(t)') <= 1
               /\ load[t] + Cardinality(Chosen(t)') <= MaxRequests
    <3>1. t \notin crowded BY <2>1, <1>3
    <3>2. CASE t # s BY <3>1, <3>2, <2>1, <1>7 DEF SwarmInv, LoadCounts
    <3>3. CASE t = s
      <4>1. Chosen(s) = {} BY <2>1, <3>3, <1>3
      <4>2. Cardinality(Chosen(s)') = 1
        <5>1. Chosen(s)' = {c} BY <4>1, <1>7
        <5> QED BY <5>1, FS_Singleton
      <4>3. load[s] < MaxRequests /\ load[s] \in Nat
        BY <1>2, SwarmAssumption DEF HasRoom, LoadOf, SwarmInv, SwarmTypeOK
      <4>4. load[s] = Cardinality(Running(s))
        BY <3>1, <3>3, <2>1 DEF SwarmInv, LoadCounts
      <4>5. Running(s)' = Running(s) BY <1>7
      <4> QED BY <3>3, <4>2, <4>3, <4>4, <4>5, SwarmAssumption
    <3> QED BY <3>2, <3>3
  <2> QED BY <2>1, <1>3 DEF LoadCounts, NoLoad
<1> QED BY <1>8, <1>9, <1>10, <1>11 DEF SwarmInv

\* What both counting steps leave as it was.
LEMMA CountFrame ==
  ASSUME SwarmInv, NEW c \in Callers, NEW x \in {NoRequest} \cup [at : {"chosen", "running"}, swarm : Swarms],
         caller' = [caller EXCEPT ![c] = x], NEW s0 \in Swarms, NEW n \in Nat, Count(s0, n),
         UNCHANGED <<memberVars, listed>>
  PROVE  /\ SwarmTypeOK' /\ EntriesHaveLoad' /\ Swarms' = Swarms
         /\ \A t \in Swarms : t # s0 => load'[t] = load[t]
         /\ \A t \in Swarms : load[t] = NoLoad <=> load'[t] = NoLoad
         /\ load[s0] # NoLoad => load'[s0] = (load[s0] + n) % CountModulus
<1>1. Swarms' = Swarms BY DEF memberVars, Swarms
<1>2. CountModulus \in Nat /\ CountModulus > 0 BY SwarmAssumption, FS_CardinalityType
<1>3. load \in [Swarms -> 0..CountModulus] BY DEF SwarmInv, SwarmTypeOK
<1>4. load' = [load EXCEPT ![s0] = IF load[s0] = NoLoad THEN NoLoad
                                   ELSE (load[s0] + n) % CountModulus]
  BY DEF Count
<1>5. (load[s0] + n) % CountModulus \in 0..CountModulus - 1 BY <1>2, <1>3
<1> DEFINE v == (load[s0] + n) % CountModulus
<1> HIDE DEF v
<1>6. v \in 0..CountModulus - 1 BY <1>5 DEF v
<1>7. load' = [load EXCEPT ![s0] = IF load[s0] = NoLoad THEN NoLoad ELSE v] BY <1>4 DEF v
<1>8. /\ load' \in [Swarms -> 0..CountModulus]
      /\ \A t \in Swarms : t # s0 => load'[t] = load[t]
      /\ \A t \in Swarms : load[t] = NoLoad <=> load'[t] = NoLoad
      /\ load[s0] # NoLoad => load'[s0] = v
  BY <1>2, <1>3, <1>6, <1>7 DEF NoLoad
<1>9. \A m \in Models : EntriesOf(listed[m])' = EntriesOf(listed[m]) BY DEF EntriesOf
<1>10. SwarmTypeOK'
  <2>1. caller' \in [Callers -> {NoRequest} \cup [at : {"chosen", "running"}, swarm : Swarms]]
    BY DEF SwarmInv, SwarmTypeOK
  <2> QED BY <2>1, <1>1, <1>8, <1>9 DEF SwarmInv, SwarmTypeOK
<1>11. EntriesHaveLoad'
  <2>1. \A m \in Models : \A e \in EntriesOf(listed[m]) : e.id \in Swarms /\ load'[e.id] # NoLoad
    BY <1>8 DEF SwarmInv, EntriesHaveLoad
  <2> QED BY <2>1, <1>1, <1>9 DEF EntriesHaveLoad, NoLoad
<1> QED BY <1>1, <1>8, <1>10, <1>11 DEF v

LEMMA StartedStep ==
  ASSUME SwarmInv, NEW c \in Callers, RequestStarted(c)
  PROVE  SwarmInv'
<1>0. PICK s : s = caller[c].swarm OBVIOUS
<1> DEFINE x == [at |-> "running", swarm |-> s]
<1>1. s \in Swarms /\ caller[c] = [at |-> "chosen", swarm |-> s] /\ DOMAIN caller = Callers
  <2>1. caller[c] \in {NoRequest} \cup [at : {"chosen", "running"}, swarm : Swarms]
    BY DEF SwarmInv, SwarmTypeOK
  <2>2. caller[c].at = "chosen" BY DEF RequestStarted
  <2> QED BY <1>0, <2>1, <2>2 DEF NoRequest, SwarmInv, SwarmTypeOK
<1>2. /\ caller' = [caller EXCEPT ![c] = x] /\ Count(s, 1)
      /\ UNCHANGED <<memberVars, listed, crowded, recounted>>
  <2>1. /\ caller' = [caller EXCEPT ![c].at = "running"] /\ Count(s, 1)
        /\ UNCHANGED <<memberVars, listed, crowded, recounted>>
    BY <1>0 DEF RequestStarted
  <2>2. [caller[c] EXCEPT !.at = "running"] = x BY <1>1
  <2>3. caller' = [caller EXCEPT ![c] = [caller[c] EXCEPT !.at = "running"]] BY <2>1
  <2> QED BY <2>1, <2>2, <2>3
<1>3. /\ SwarmTypeOK' /\ EntriesHaveLoad' /\ Swarms' = Swarms
      /\ \A t \in Swarms : t # s => load'[t] = load[t]
      /\ \A t \in Swarms : load[t] = NoLoad <=> load'[t] = NoLoad
      /\ load[s] # NoLoad => load'[s] = (load[s] + 1) % CountModulus
  <2>1. x \in {NoRequest} \cup [at : {"chosen", "running"}, swarm : Swarms] BY <1>1
  <2> HIDE DEF x
  <2> QED BY <2>1, <1>1, <1>2, CountFrame
<1>4. c \in Chosen(s) /\ c \notin Running(s)
  BY <1>1 DEF Chosen, Running, CallersOn
<1>5. \A t : t # s => c \notin Chosen(t) /\ c \notin Running(t)
  BY <1>1 DEF Chosen, Running, CallersOn
<1>6. \A t : /\ Chosen(t)' = Chosen(t) \ {c}
             /\ Running(t)' = IF t = s THEN Running(t) \cup {c} ELSE Running(t) \ {c}
  <2> SUFFICES ASSUME NEW t
               PROVE  /\ CallersOn(t, "chosen")' = CallersOn(t, "chosen") \ {c}
                      /\ CallersOn(t, "running")' = IF t = s THEN CallersOn(t, "running") \cup {c}
                                                    ELSE CallersOn(t, "running") \ {c}
    BY DEF Chosen, Running
  <2>0. caller'[c] = x /\ \A d \in Callers \ {c} : caller'[d] = caller[d] BY <1>1, <1>2
  <2>1. caller'[c] # [at |-> "chosen", swarm |-> t] BY <2>0
  <2>2. caller'[c] = [at |-> "running", swarm |-> t] <=> t = s BY <2>0
  <2>3. CallersOn(t, "chosen")' = CallersOn(t, "chosen") \ {c} BY <2>0, <2>1, CallerMoves
  <2> QED BY <2>0, <2>2, <2>3, CallerMoves
<1>7. NobodyUncounted'
  <2>1. \A t \in Swarms \ recounted : load[t] = NoLoad => t # s
    BY <1>4 DEF SwarmInv, NobodyUncounted
  <2> QED BY <2>1, <1>2, <1>3, <1>5, <1>6 DEF SwarmInv, NobodyUncounted, NoLoad
<1>8. LoadCounts'
  <2>1. ASSUME NEW t \in Swarms \ (crowded \cup recounted), load'[t] # NoLoad
        PROVE  /\ load'[t] = Cardinality(Running(t)')
               /\ Cardinality(Chosen(t)') <= 1
               /\ load'[t] + Cardinality(Chosen(t)') <= MaxRequests
    <3>1. /\ load[t] # NoLoad /\ load[t] = Cardinality(Running(t))
          /\ Cardinality(Chosen(t)) <= 1
          /\ load[t] + Cardinality(Chosen(t)) <= MaxRequests
      BY <2>1, <1>3 DEF SwarmInv, LoadCounts
    <3>2. CASE t # s
      <4>1. Chosen(t)' = Chosen(t) /\ Running(t)' = Running(t) BY <3>2, <1>5, <1>6
      <4> QED BY <4>1, <3>1, <3>2, <1>3
    <3>3. CASE t = s
      <4>1. Cardinality(Running(s)') = Cardinality(Running(s)) + 1
        BY <1>4, <1>6, CallersCounted, FS_AddElement DEF Running
      <4>2. Cardinality(Chosen(s)') = Cardinality(Chosen(s)) - 1
        BY <1>4, <1>6, CallersCounted, FS_RemoveElement DEF Chosen
      <4>3. Cardinality(Running(s)') < CountModulus
        <5>1. Running(s)' \subseteq Callers BY <1>6 DEF Running, CallersOn
        <5> QED BY <5>1, SwarmAssumption, FS_Subset, FS_CardinalityType
      <4>4. Cardinality(Running(s)) \in Nat /\ Cardinality(Chosen(s)) \in Nat
        BY CallersCounted DEF Running, Chosen
      <4>5. (load[s] + 1) % CountModulus = load[s] + 1
        BY <3>1, <3>3, <4>1, <4>3, <4>4, SwarmAssumption
      <4>6. load'[s] = load[s] + 1 BY <4>5, <1>3, <3>1, <3>3
      <4> QED BY <3>1, <3>3, <4>1, <4>2, <4>4, <4>6, SwarmAssumption
    <3> QED BY <3>2, <3>3
  <2> QED BY <2>1, <1>2, <1>3 DEF LoadCounts, NoLoad
<1> QED BY <1>3, <1>7, <1>8 DEF SwarmInv

LEMMA FinishedStep ==
  ASSUME SwarmInv, NEW c \in Callers, RequestFinished(c)
  PROVE  SwarmInv'
<1>0. PICK s : s = caller[c].swarm OBVIOUS
<1>1. s \in Swarms /\ caller[c] = [at |-> "running", swarm |-> s] /\ DOMAIN caller = Callers
  <2>1. caller[c] \in {NoRequest} \cup [at : {"chosen", "running"}, swarm : Swarms]
    BY DEF SwarmInv, SwarmTypeOK
  <2>2. caller[c].at = "running" BY DEF RequestFinished
  <2> QED BY <1>0, <2>1, <2>2 DEF NoRequest, SwarmInv, SwarmTypeOK
<1>2. /\ caller' = [caller EXCEPT ![c] = NoRequest] /\ Count(s, CountModulus - 1)
      /\ UNCHANGED <<memberVars, listed, crowded, recounted>>
  BY <1>0 DEF RequestFinished
<1>3. /\ SwarmTypeOK' /\ EntriesHaveLoad' /\ Swarms' = Swarms
      /\ \A t \in Swarms : t # s => load'[t] = load[t]
      /\ \A t \in Swarms : load[t] = NoLoad <=> load'[t] = NoLoad
      /\ load[s] # NoLoad => load'[s] = (load[s] + (CountModulus - 1)) % CountModulus
  <2>1. CountModulus - 1 \in Nat BY SwarmAssumption, FS_CardinalityType
  <2> QED BY <2>1, <1>1, <1>2, CountFrame
<1>4. c \in Running(s) /\ c \notin Chosen(s)
  BY <1>1 DEF Chosen, Running, CallersOn
<1>5. \A t : t # s => c \notin Chosen(t) /\ c \notin Running(t)
  BY <1>1 DEF Chosen, Running, CallersOn
<1>6. ASSUME NEW t
      PROVE  Chosen(t)' = Chosen(t) \ {c} /\ Running(t)' = Running(t) \ {c}
  <2>0. \A d \in Callers \ {c} : caller'[d] = caller[d] BY <1>2
  <2>1. \A at \in {"chosen", "running"} : caller'[c] # [at |-> at, swarm |-> t]
    BY <1>1, <1>2 DEF NoRequest
  <2>2. ASSUME NEW at \in {"chosen", "running"} PROVE CallersOn(t, at)' = CallersOn(t, at) \ {c}
    <3>1. caller'[c] # [at |-> at, swarm |-> t] BY <2>1
    <3> QED BY <2>0, <3>1, CallerMoves
  <2> QED BY <2>2 DEF Chosen, Running
<1>7. NobodyUncounted'
  <2>1. \A t \in Swarms \ recounted : load[t] = NoLoad => t # s
    BY <1>4 DEF SwarmInv, NobodyUncounted
  <2> QED BY <2>1, <1>2, <1>3, <1>5, <1>6 DEF SwarmInv, NobodyUncounted, NoLoad
<1>8. LoadCounts'
  <2>1. ASSUME NEW t \in Swarms \ (crowded \cup recounted), load'[t] # NoLoad
        PROVE  /\ load'[t] = Cardinality(Running(t)')
               /\ Cardinality(Chosen(t)') <= 1
               /\ load'[t] + Cardinality(Chosen(t)') <= MaxRequests
    <3>1. /\ load[t] # NoLoad /\ load[t] = Cardinality(Running(t))
          /\ Cardinality(Chosen(t)) <= 1
          /\ load[t] + Cardinality(Chosen(t)) <= MaxRequests
      BY <2>1, <1>3 DEF SwarmInv, LoadCounts
    <3>2. CASE t # s
      <4>1. Chosen(t)' = Chosen(t) /\ Running(t)' = Running(t) BY <3>2, <1>5, <1>6
      <4> QED BY <4>1, <3>1, <3>2, <1>3
    <3>3. CASE t = s
      <4>1. Cardinality(Running(s)') = Cardinality(Running(s)) - 1
        BY <1>4, <1>6, CallersCounted, FS_RemoveElement DEF Running
      <4>2. Cardinality(Chosen(s)') = Cardinality(Chosen(s))
        BY <1>4, <1>6 DEF Chosen
      <4>3. Cardinality(Running(s)) < CountModulus /\ Cardinality(Running(s)) # 0
        <5>1. Running(s) # {} BY <1>4
        <5> QED BY <5>1, CallersCounted, FS_EmptySet DEF Running
      <4>4. Cardinality(Running(s)) \in Nat /\ Cardinality(Chosen(s)) \in Nat
        BY CallersCounted DEF Running, Chosen
      <4>5. (load[s] + (CountModulus - 1)) % CountModulus = load[s] - 1
        BY <3>1, <3>3, <4>3, <4>4, SwarmAssumption, WrapsDown
      <4>6. load'[s] = load[s] - 1 BY <4>5, <1>3, <3>1, <3>3
      <4> QED BY <3>1, <3>3, <4>1, <4>2, <4>4, <4>6, SwarmAssumption
    <3> QED BY <3>2, <3>3
  <2> QED BY <2>1, <1>2, <1>3 DEF LoadCounts, NoLoad
<1> QED BY <1>3, <1>7, <1>8 DEF SwarmInv

\* No caller, no entry, no counter.
LEMMA SwarmInvInit == SwarmInit => SwarmInv
<1> SUFFICES ASSUME SwarmInit PROVE SwarmInv
  OBVIOUS
<1>1. CountModulus \in Nat BY SwarmAssumption
<1>2. /\ load = [s \in Swarms |-> NoLoad] /\ caller = [c \in Callers |-> NoRequest]
      /\ listed = [m \in Models |-> <<>>]
  BY DEF SwarmInit
<1>3. \A m \in Models : EntriesOf(listed[m]) = {} BY <1>2 DEF EntriesOf
<1>4. SwarmTypeOK
  <2>1. load \in [Swarms -> 0..CountModulus] BY <1>1, <1>2 DEF NoLoad
  <2>2. \A m \in Models : listed[m] \in Seq(EntriesOf(listed[m])) BY <1>2
  <2> QED BY <1>2, <2>1, <2>2 DEF SwarmTypeOK
<1>5. EntriesHaveLoad BY <1>3 DEF EntriesHaveLoad
<1>6. NobodyUncounted
  BY <1>2 DEF NobodyUncounted, Chosen, Running, CallersOn, NoRequest
<1>7. LoadCounts BY <1>2 DEF LoadCounts
<1> QED BY <1>4, <1>5, <1>6, <1>7 DEF SwarmInv

LEMMA SwarmInvNext == SwarmInv /\ [SwarmNext]_swarmVars => SwarmInv'
<1> SUFFICES ASSUME SwarmInv, [SwarmNext]_swarmVars PROVE SwarmInv'
  OBVIOUS
<1>1. ASSUME NEW s \in Swarms, NEW sw, Change(s, sw) PROVE SwarmInv'
  BY <1>1, MembersStep DEF Change
<1>2. ASSUME NEW s \in Swarms, NEW p \in Peers, Depart(s, p) PROVE SwarmInv'
  BY <1>1, <1>2 DEF Depart
<1>3. ASSUME NEW s \in Swarms, NEW p \in Peers, NEW role, Join(s, p, role) PROVE SwarmInv'
  BY <1>1, <1>3 DEF Join
<1>4. ASSUME NEW s \in Swarms, NEW status, SetStatus(s, status) PROVE SwarmInv'
  BY <1>4, MembersStep DEF SetStatus
<1>5. ASSUME NEW p, SetContributing(p) PROVE SwarmInv'
  <2>1. UNCHANGED <<memberVars, listed, load, caller, crowded, recounted>>
    BY <1>5 DEF SetContributing
  <2> QED BY <2>1, RouterFrame DEF memberVars
<1>6. CASE UNCHANGED swarmVars
  BY <1>6, MembersStep DEF swarmVars, memberVars
<1> QED BY <1>2, <1>3, <1>4, <1>5, <1>6, RegisterStep, UnregisterStep, SelectStep, StartedStep,
           FinishedStep DEF SwarmNext

\* Whatever is registered, unregistered and routed, a counter that was not
\* dropped under a request counts the requests that run, and admits at most
\* max_requests_per_swarm where two callers have not chosen at once (router.rs).
THEOREM SwarmCountsRequests == SwarmSpec => []CountedRequests
<1>1. SwarmInv => CountedRequests
  <2> SUFFICES ASSUME SwarmInv, NEW s \in Swarms \ (crowded \cup recounted), load[s] # NoLoad
               PROVE  load[s] = Cardinality(CallersOn(s, "running")) /\ load[s] <= MaxRequests
    BY DEF CountedRequests
  <2>1. /\ load[s] = Cardinality(Running(s))
        /\ load[s] + Cardinality(Chosen(s)) <= MaxRequests
    BY DEF SwarmInv, LoadCounts
  <2>2. Cardinality(Running(s)) \in Nat /\ Cardinality(Chosen(s)) \in Nat
    BY CallersCounted DEF Running, Chosen
  <2> QED BY <2>1, <2>2, SwarmAssumption DEF Running
<1> QED BY <1>1, SwarmInvInit, SwarmInvNext, PTL DEF SwarmSpec

-----------------------------------------------------------------------------
(* How layers are shared out                                                   *)

StrictOrder(S, before) ==
  /\ \A x \in S : <<x, x>> \notin before
  /\ \A x, y, z \in S : <<x, y>> \in before /\ <<y, z>> \in before => <<x, z>> \in before
  /\ \A x, y \in S : x # y => <<x, y>> \in before \/ <<y, x>> \in before

\* q lists the elements of S, each once.
ListsOnce(q, S) ==
  /\ q \in [1..Cardinality(S) -> S]
  /\ \A x \in S : \E k \in 1..Cardinality(S) : q[k] = x
  /\ \A j, k \in 1..Cardinality(S) : q[j] = q[k] => j = k

\* The numbers of elements before each are those from 0 to n - 1, each once.
LEMMA OrderedLists ==
  ASSUME NEW S, IsFiniteSet(S), NEW before, StrictOrder(S, before)
  PROVE  /\ ListsOnce(OrderedBy(S, before), S)
         /\ \A j, k \in 1..Cardinality(S) :
              j < k => <<OrderedBy(S, before)[j], OrderedBy(S, before)[k]>> \in before
<1> DEFINE Before(x) == {y \in S : <<y, x>> \in before}
           n == Cardinality(S)
           place == [x \in S |-> Cardinality(Before(x))]
<1>1. n \in Nat BY FS_CardinalityType
<1>2. ASSUME NEW x \in S
      PROVE  IsFiniteSet(Before(x)) /\ place[x] \in 0..n - 1
  <2>1. Before(x) \subseteq S /\ Before(x) # S BY DEF StrictOrder
  <2>2. place[x] = Cardinality(Before(x)) OBVIOUS
  <2> HIDE DEF Before, place
  <2>3. IsFiniteSet(Before(x)) /\ Cardinality(Before(x)) <= n /\ Cardinality(Before(x)) # n
    BY <2>1, FS_Subset
  <2>4. Cardinality(Before(x)) \in Nat BY <2>3, FS_CardinalityType
  <2> QED BY <2>2, <2>3, <2>4, <1>1
<1>3. ASSUME NEW x \in S, NEW y \in S, <<x, y>> \in before
      PROVE  place[x] < place[y]
  <2>1. Before(x) \subseteq Before(y) /\ x \in Before(y) /\ x \notin Before(x)
    BY <1>3 DEF StrictOrder
  <2>2. place[x] = Cardinality(Before(x)) /\ place[y] = Cardinality(Before(y)) OBVIOUS
  <2>3. IsFiniteSet(Before(y)) BY <1>2
  <2> HIDE DEF Before, place
  <2>5. place[x] \in Nat /\ place[y] \in Nat BY <1>2, <1>1
  <2>4. Cardinality(Before(x)) <= Cardinality(Before(y))
        /\ Cardinality(Before(x)) # Cardinality(Before(y))
    BY <2>1, <2>3, FS_Subset
  <2> QED BY <2>2, <2>5, <2>4
<1>4. \A x, y \in S : place[x] = place[y] => x = y
  <2> HIDE DEF place
  <2>1. SUFFICES ASSUME NEW x \in S, NEW y \in S, place[x] = place[y], x # y PROVE FALSE
    OBVIOUS
  <2>2. place[x] < place[y] \/ place[y] < place[x] BY <2>1, <1>3 DEF StrictOrder
  <2>3. \A z \in S : place[z] \in Nat
    <3>1. ASSUME NEW z \in S PROVE place[z] \in Nat
      <4>1. place[z] \in 0..n - 1 BY <1>2
      <4> QED BY <4>1, <1>1
    <3> QED BY <3>1
  <2> QED BY <2>1, <2>2, <2>3
<1>5. \A k \in 0..n - 1 : \E x \in S : place[x] = k
  <2>1. place \in [S -> 0..n - 1] BY <1>2
  <2> HIDE DEF place
  <2>2. place \in Injection(S, 0..n - 1) BY <2>1, <1>4 DEF Injection, IsInjective
  <2>3. IsFiniteSet(0..n - 1) /\ Cardinality(0..n - 1) = n
    <3>1. n - 1 \in Int /\ (0 > n - 1 => n = 0) BY <1>1
    <3>2. IsFiniteSet(0..n - 1)
          /\ Cardinality(0..n - 1) = IF 0 > n - 1 THEN 0 ELSE (n - 1) - 0 + 1
      BY <3>1, FS_Interval
    <3> QED BY <3>1, <3>2, <1>1
  <2>4. place \in Surjection(S, 0..n - 1) BY <2>2, <2>3, FS_Injection
  <2> QED BY <2>4 DEF Surjection
<1> DEFINE q == OrderedBy(S, before)
<1>6. /\ q = [k \in 1..n |-> q[k]]
      /\ \A k \in 1..n : q[k] = CHOOSE x \in S : place[x] = k - 1
  <2>1. \A k : \A x \in S : Cardinality({y \in S : <<y, x>> \in before}) = k - 1 <=> place[x] = k - 1
    OBVIOUS
  <2> HIDE DEF place
  <2>2. ASSUME NEW k
        PROVE (CHOOSE x \in S : Cardinality({y \in S : <<y, x>> \in before}) = k - 1)
                 = CHOOSE x \in S : place[x] = k - 1
    BY <2>1, Zenon
  <2> DEFINE at(k) == CHOOSE x \in S : Cardinality({y \in S : <<y, x>> \in before}) = k - 1
  <2>3. q = [k \in 1..n |-> at(k)] BY Zenon DEF OrderedBy
  <2> HIDE DEF q, at, n
  <2>4. \A k \in 1..n : q[k] = at(k) BY ONLY <2>3
  <2>5. q = [k \in 1..n |-> q[k]] BY ONLY <2>3
  <2>6. \A k \in 1..n : q[k] = CHOOSE x \in S : place[x] = k - 1
    BY <2>2, <2>4, Zenon DEF at
  <2> QED BY <2>5, <2>6
<1>7. ASSUME NEW k \in 1..n PROVE q[k] \in S /\ place[q[k]] = k - 1
  <2>1. k - 1 \in 0..n - 1 BY <1>1
  <2>2. q[k] = CHOOSE x \in S : place[x] = k - 1 BY <1>6
  <2> HIDE DEF place, q
  <2>3. PICK x \in S : place[x] = k - 1 BY <2>1, <1>5
  <2> QED BY <2>2, <2>3
<1>8. q \in [1..n -> S]
  <2>1. \A k \in 1..n : q[k] \in S BY <1>7
  <2> HIDE DEF place
  <2> QED BY <1>6, <2>1
<1> HIDE DEF place, q
<1>9. ASSUME NEW x \in S PROVE \E k \in 1..n : q[k] = x
  <2> DEFINE k == place[x] + 1
  <2>0. place[x] \in 0..n - 1 BY <1>2
  <2>1. k \in 1..n /\ k - 1 = place[x] BY <2>0, <1>1
  <2> HIDE DEF k
  <2>2. q[k] \in S /\ place[q[k]] = place[x] BY <2>1, <1>7
  <2>3. q[k] = x BY <2>2, <1>4
  <2> QED BY <2>1, <2>3
<1>10. ASSUME NEW j \in 1..n, NEW k \in 1..n, q[j] = q[k] PROVE j = k
  <2>1. j - 1 = k - 1 BY <1>7, <1>10
  <2> QED BY <2>1
<1>11. ASSUME NEW j \in 1..n, NEW k \in 1..n, j < k PROVE <<q[j], q[k]>> \in before
  <2>1. q[j] \in S /\ q[k] \in S /\ place[q[j]] = j - 1 /\ place[q[k]] = k - 1 BY <1>7
  <2>2. j \in Nat /\ k \in Nat BY <1>1
  <2>3. q[j] # q[k] BY <2>1, <2>2, <1>11
  <2>4. ~(place[q[k]] < place[q[j]]) BY <2>1, <2>2, <1>11
  <2> QED BY <2>1, <2>3, <2>4, <1>3 DEF StrictOrder
<1> QED BY <1>8, <1>9, <1>10, <1>11 DEF ListsOnce, q

LEMMA AscendingLists ==
  ASSUME NEW S \in SUBSET Nat, IsFiniteSet(S)
  PROVE  ListsOnce(Ascending(S), S)
<1> DEFINE before == {e \in S \X S : e[1] < e[2]}
<1>1. StrictOrder(S, before)
  <2>1. \A x, y \in S : <<x, y>> \in before <=> x < y OBVIOUS
  <2>2. \A x \in S : x \in Nat OBVIOUS
  <2> HIDE DEF before
  <2> QED BY <2>1, <2>2 DEF StrictOrder
<1>2. Ascending(S) = OrderedBy(S, before) BY DEF Ascending
<1> HIDE DEF before
<1> QED BY <1>1, <1>2, OrderedLists

\* A run of numbers, in order.
LEMMA IntervalAscends ==
  ASSUME NEW a \in Nat, NEW b \in Nat, a <= b
  PROVE  Ascending(a + 1..b) = [k \in 1..b - a |-> a + k]
<1> DEFINE S == a + 1..b
           before == {e \in S \X S : e[1] < e[2]}
           Before(x) == {y \in S : <<y, x>> \in before}
<1>1. Cardinality(S) = b - a
  <2>1. a + 1 \in Int /\ b \in Int OBVIOUS
  <2>2. Cardinality(S) = IF a + 1 > b THEN 0 ELSE b - (a + 1) + 1 BY <2>1, FS_Interval
  <2> QED BY <2>2
<1>2. ASSUME NEW x \in S PROVE Cardinality(Before(x)) = x - (a + 1)
  <2>1. Before(x) = a + 1..x - 1 OBVIOUS
  <2>2. a + 1 \in Int /\ x - 1 \in Int OBVIOUS
  <2>3. Cardinality(a + 1..x - 1) = IF a + 1 > x - 1 THEN 0 ELSE (x - 1) - (a + 1) + 1
    BY <2>2, FS_Interval
  <2>4. x \in Nat /\ a + 1 <= x OBVIOUS
  <2> HIDE DEF Before
  <2> QED BY <2>1, <2>3, <2>4
<1>3. ASSUME NEW k \in 1..b - a
      PROVE  (CHOOSE x \in S : Cardinality(Before(x)) = k - 1) = a + k
  <2>1. a + k \in S /\ Cardinality(Before(a + k)) = k - 1
    <3>1. a + k \in S OBVIOUS
    <3>2. Cardinality(Before(a + k)) = (a + k) - (a + 1) BY <3>1, <1>2
    <3> QED BY <3>1, <3>2
  <2>2. \A x \in S : Cardinality(Before(x)) = k - 1 => x = a + k
    <3>1. SUFFICES ASSUME NEW x \in S, Cardinality(Before(x)) = k - 1 PROVE x = a + k OBVIOUS
    <3>2. x - (a + 1) = k - 1 BY <3>1, <1>2
    <3> QED BY <3>2
  <2> HIDE DEF S, before, Before
  <2> QED BY <2>1, <2>2
<1>4. OrderedBy(S, before) = [k \in 1..Cardinality(S) |-> CHOOSE x \in S : Cardinality(Before(x)) = k - 1]
  BY DEF OrderedBy
<1>5. Ascending(S) = OrderedBy(S, before) BY DEF Ascending
<1> HIDE DEF before, Before
<1> QED BY <1>1, <1>3, <1>4, <1>5

LEMMA RankedLists ==
  ASSUME NEW peers \in SUBSET Nat, IsFiniteSet(peers), NEW c, NEW rep,
         \A p \in peers : c[p] \in Nat /\ rep[p] \in Nat
  PROVE  ListsOnce(Ranked(peers, c, rep), peers)
<1> DEFINE before == {e \in peers \X peers : Stronger(c, rep, e[1], e[2])}
<1>1. StrictOrder(peers, before)
  <2>1. \A p, q \in peers : <<p, q>> \in before <=> Stronger(c, rep, p, q) OBVIOUS
  <2>2. \A p \in peers : p \in Nat OBVIOUS
  <2> HIDE DEF before
  <2>3. \A p, q, r \in peers : Stronger(c, rep, p, q) /\ Stronger(c, rep, q, r)
                                 => Stronger(c, rep, p, r)
    BY <2>2 DEF Stronger
  <2>4. \A p, q \in peers : p # q => Stronger(c, rep, p, q) \/ Stronger(c, rep, q, p)
    BY <2>2 DEF Stronger
  <2>5. \A p \in peers : ~Stronger(c, rep, p, p)
    BY <2>2 DEF Stronger
  <2> QED BY <2>1, <2>3, <2>4, <2>5 DEF StrictOrder
<1>2. Ranked(peers, c, rep) = OrderedBy(peers, before) BY DEF Ranked
<1> HIDE DEF before
<1> QED BY <1>1, <1>2, OrderedLists

\* Two functions that satisfy one recursion are one.
FunctionOn(f, S) == f = [x \in S |-> f[x]]
LEMMA SameRecursion ==
  ASSUME NEW N \in Nat, NEW f, NEW g,
         FunctionOn(f, 0..N), FunctionOn(g, 0..N), f[0] = g[0],
         \A n \in 1..N : f[n - 1] = g[n - 1] => f[n] = g[n]
  PROVE  f = g
<1> DEFINE T == {n \in Nat : n <= N => f[n] = g[n]}
<1>1. \A n \in Nat : n \in T
  <2>1. 0 \in T OBVIOUS
  <2>2. ASSUME NEW n \in Nat, n \in T PROVE n + 1 \in T
    <3>1. SUFFICES ASSUME n + 1 <= N PROVE f[n + 1] = g[n + 1]
      OBVIOUS
    <3>2. n + 1 \in 1..N /\ (n + 1) - 1 = n BY <3>1
    <3>3. f[n] = g[n] BY <2>2, <3>1
    <3> QED BY <3>2, <3>3
  <2> HIDE DEF T
  <2> QED BY <2>1, <2>2, InductionOnSet
<1>2. \A n \in 0..N : f[n] = g[n] BY <1>1
<1> QED BY <1>2 DEF FunctionOn

\* The sums of the first capacities, up to all of them.
Sums(f, caps) ==
  /\ f \in [0..Len(caps) -> Nat]
  /\ f[0] = 0
  /\ \A n \in 1..Len(caps) : f[n] = f[n - 1] + caps[n]
  /\ f[Len(caps)] = Total(caps)

LEMMA TotalIsSum ==
  ASSUME NEW caps \in Seq(Nat)
  PROVE  \E f : Sums(f, caps)
<1> DEFINE N == Len(caps)
           Rule(g) == [n \in 0..N |-> IF n = 0 THEN 0 ELSE g[n - 1] + caps[n]]
           sum == CHOOSE g : g = Rule(g)
           step == [n \in 1..N |-> [r \in Nat |-> r + caps[n]]]
<1>1. N \in Nat /\ \A n \in 1..N : caps[n] \in Nat OBVIOUS
<1>2. step \in [1..N -> [Nat -> Nat]]
  <2> HIDE DEF N
  <2> QED BY <1>1
<1>3. PICK f \in [0..N -> Nat] : Recurs(f, N, 0, step)
  <2> HIDE DEF step, N
  <2> QED BY <1>1, <1>2, Recursion
<1>4. \A n \in 1..N : f[n - 1] \in Nat /\ f[n] = f[n - 1] + caps[n]
  <2>1. ASSUME NEW n \in 1..N PROVE f[n - 1] \in Nat /\ f[n] = f[n - 1] + caps[n]
    <3>1. f[n - 1] \in Nat
      <4>1. n - 1 \in 0..N
        <5> HIDE DEF N
        <5> QED BY <1>1
      <4> QED BY ONLY <4>1, f \in [0..N -> Nat]
    <3>2. step[n][f[n - 1]] = f[n - 1] + caps[n] BY <3>1
    <3> HIDE DEF step, N
    <3> QED BY <3>1, <3>2, <1>3 DEF Recurs
  <2> QED BY <2>1
<1>5. f[0] = 0 BY <1>3 DEF Recurs
<1>6. f = Rule(f)
  <2> HIDE DEF step, N
  <2>1. \A n \in 0..N : n = 0 \/ n \in 1..N BY <1>1
  <2>2. f = [n \in 0..N |-> f[n]] BY <1>3
  <2> QED BY <1>4, <1>5, <2>1, <2>2
<1>7. sum = Rule(sum)
  <2> HIDE DEF Rule
  <2> QED BY <1>6
<1>8. f = sum
  <2> HIDE DEF step, N, sum
  <2>1. f = [n \in 0..N |-> f[n]] BY <1>3
  <2>4. FunctionOn(f, 0..N) BY <2>1 DEF FunctionOn
  <2>5. FunctionOn(sum, 0..N)
    <3>1. sum = [n \in 0..N |-> sum[n]] BY <1>7
    <3> QED BY <3>1 DEF FunctionOn
  <2>2. sum[0] = 0 BY <1>7, <1>1
  <2>3. ASSUME NEW n \in 1..N, f[n - 1] = sum[n - 1] PROVE f[n] = sum[n]
    <3>1. n \in 0..N /\ n # 0 BY <1>1
    <3>2. sum[n] = sum[n - 1] + caps[n] BY <1>7, <3>1
    <3> QED BY <3>2, <2>3, <1>4
  <2>6. \A n \in 1..N : f[n - 1] = sum[n - 1] => f[n] = sum[n] BY <2>3
  <2> QED BY <1>1, <1>5, <2>2, <2>4, <2>5, <2>6, SameRecursion
<1>9. Total(caps) = f[N] BY <1>8 DEF Total
<1> HIDE DEF step, N
<1> QED BY <1>3, <1>4, <1>5, <1>9 DEF Sums, N

LEMMA TotalIsPositive ==
  ASSUME NEW caps \in Seq(Nat \ {0})
  PROVE  Total(caps) \in Nat /\ (caps # <<>> => Total(caps) # 0)
<1> DEFINE N == Len(caps)
<1>1. caps \in Seq(Nat) /\ N \in Nat /\ (caps # <<>> => N # 0)
      /\ \A n \in 1..N : caps[n] \in Nat \ {0}
  OBVIOUS
<1>2. PICK f : Sums(f, caps) BY <1>1, TotalIsSum
<1> HIDE DEF N
<1>3. Total(caps) = f[N] /\ f \in [0..N -> Nat] /\ \A n \in 1..N : f[n] = f[n - 1] + caps[n]
  BY <1>2 DEF Sums, N
<1>4. f[N] \in Nat BY <1>1, <1>3
<1>5. ASSUME N # 0 PROVE f[N] # 0
  <2>1. N \in 1..N /\ N - 1 \in 0..N BY <1>1, <1>5
  <2>2. f[N] = f[N - 1] + caps[N] /\ f[N - 1] \in Nat /\ caps[N] \in Nat \ {0}
    BY <2>1, <1>1, <1>3
  <2> QED BY <2>2
<1> QED BY <1>1, <1>3, <1>4, <1>5

LEMMA ProportionIsNat ==
  ASSUME NEW c \in Nat, NEW total \in Nat \ {0}, NEW layers \in Nat
  PROVE  Proportion(c, total, layers) \in Nat
<1> DEFINE a == 2 * c * layers + total
           b == 2 * total
<1>1. a \in Nat
  <2>1. 2 * c \in Nat OBVIOUS
  <2>2. (2 * c) * layers \in Nat BY <2>1
  <2> QED BY <2>2
<1>2. b \in Nat \ {0} OBVIOUS
<1>3. Proportion(c, total, layers) = a \div b BY DEF Proportion
<1> HIDE DEF a, b
<1> QED BY <1>1, <1>2, <1>3

\* The cursor goes from the first layer to the last over n members.
Hands(cursor, n, layers) ==
  /\ cursor \in [0..n -> 0..layers]
  /\ cursor[0] = 0
  /\ n > 0 => cursor[n] = layers

\* What the i-th member is to get: its proportion, or the least.
Due(caps, layers, least, i) == Largest(Proportion(caps[i], Total(caps), layers), least)

LEMMA HandedIs ==
  ASSUME NEW caps \in Seq(Nat \ {0}), NEW layers \in Nat \ {0}, NEW least \in Nat \ {0}
  PROVE  /\ Hands(Handed(caps, layers, least), Len(caps), layers)
         /\ caps # <<>> => Handed(caps, layers, least)[1] > 0
         /\ \A i \in 1..Len(caps) : i # Len(caps) =>
              Handed(caps, layers, least)[i]
                = Handed(caps, layers, least)[i - 1]
                  + Smallest(Due(caps, layers, least, i),
                             layers - Handed(caps, layers, least)[i - 1])
<1> DEFINE N == Len(caps)
           total == Total(caps)
           More(i, r) == r + Smallest(Largest(Proportion(caps[i], total, layers), least), layers - r)
           Rule(g) == [i \in 0..N |-> IF i = 0 THEN 0 ELSE IF i = N THEN layers
                         ELSE g[i - 1] + Smallest(Largest(Proportion(caps[i], total, layers), least),
                                                  layers - g[i - 1])]
           cursor == CHOOSE g : g = Rule(g)
           A == 0..layers
           step == [i \in 1..N |-> [r \in A |-> IF i = N THEN layers ELSE More(i, r)]]
<1>1. N \in Nat /\ \A n \in 1..N : caps[n] \in Nat \ {0} OBVIOUS
<1>2. ASSUME NEW i \in 1..N, NEW r \in A PROVE More(i, r) \in A /\ (r = 0 => More(i, r) > 0)
  <2>1. caps # <<>> OBVIOUS
  <2>2. total \in Nat \ {0} BY <2>1, TotalIsPositive
  <2>3. caps[i] \in Nat BY <1>1
  <2>4. PICK p \in Nat : p = Proportion(caps[i], total, layers)
    <3> HIDE DEF total
    <3> QED BY <2>2, <2>3, ProportionIsNat
  <2>5. More(i, r) = r + Smallest(Largest(p, least), layers - r) BY <2>4
  <2> HIDE DEF More
  <2> QED BY <2>5 DEF Smallest, Largest
<1>3. step \in [1..N -> [A -> A]]
  <2>1. layers \in A OBVIOUS
  <2> HIDE DEF N, More, A
  <2> QED BY <1>2, <2>1
<1>4. PICK f \in [0..N -> A] : Recurs(f, N, 0, step)
  <2>1. 0 \in A OBVIOUS
  <2> HIDE DEF step, N, A
  <2> QED BY <1>1, <1>3, <2>1, Recursion
<1>5. ASSUME NEW i \in 1..N
      PROVE  f[i - 1] \in A /\ f[i] = IF i = N THEN layers ELSE More(i, f[i - 1])
  <2>1. f[i - 1] \in A
    <3> HIDE DEF A
    <3> QED OBVIOUS
  <2> HIDE DEF More, A
  <2>2. step[i][f[i - 1]] = IF i = N THEN layers ELSE More(i, f[i - 1]) BY <2>1
  <2> HIDE DEF step, N
  <2> QED BY <2>1, <2>2, <1>4 DEF Recurs
<1>6. f[0] = 0 BY <1>4 DEF Recurs
<1>7. f = Rule(f)
  <2>1. \A i \in 0..N : i = 0 \/ i \in 1..N OBVIOUS
  <2>2. f = [n \in 0..N |-> f[n]] BY <1>4
  <2>3. \A i \in 1..N : i # 0 /\ f[i] = IF i = N THEN layers
                         ELSE f[i - 1] + Smallest(Largest(Proportion(caps[i], total, layers), least),
                                                  layers - f[i - 1])
    <3> HIDE DEF step, N, A
    <3> QED BY <1>5, <1>1
  <2> HIDE DEF step, N, A, total, More
  <2>4. \A i \in 0..N : f[i] = IF i = 0 THEN 0 ELSE IF i = N THEN layers
                         ELSE f[i - 1] + Smallest(Largest(Proportion(caps[i], total, layers), least),
                                                  layers - f[i - 1])
    BY <1>6, <2>1, <2>3
  <2> QED BY <2>2, <2>4
<1>8. cursor = Rule(cursor)
  <2> HIDE DEF Rule
  <2> QED BY <1>7
<1>9. f = cursor
  <2> HIDE DEF step, N, cursor, A, total
  <2>1. f = [n \in 0..N |-> f[n]] BY <1>4
  <2>4. FunctionOn(f, 0..N) BY <2>1 DEF FunctionOn
  <2>5. FunctionOn(cursor, 0..N)
    <3>1. cursor = [n \in 0..N |-> cursor[n]] BY <1>8
    <3> QED BY <3>1 DEF FunctionOn
  <2>2. cursor[0] = 0 BY <1>8, <1>1
  <2>3. ASSUME NEW n \in 1..N, f[n - 1] = cursor[n - 1] PROVE f[n] = cursor[n]
    <3>1. n \in 0..N /\ n # 0 BY <1>1
    <3>2. cursor[n] = IF n = N THEN layers ELSE More(n, cursor[n - 1]) BY <1>8, <3>1
    <3> HIDE DEF More
    <3> QED BY <3>2, <2>3, <1>5
  <2>6. \A n \in 1..N : f[n - 1] = cursor[n - 1] => f[n] = cursor[n] BY <2>3
  <2> QED BY <1>1, <1>6, <2>2, <2>4, <2>5, <2>6, SameRecursion
<1>10. Handed(caps, layers, least) = f BY <1>9 DEF Handed
<1>11. ASSUME N > 0 PROVE f[N] = layers /\ f[1] > 0
  <2>1. N \in 1..N /\ 1 \in 1..N BY <1>11, <1>1
  <2> HIDE DEF More, N, step
  <2>2. f[1] = IF 1 = N THEN layers ELSE More(1, f[0]) BY <1>5, <2>1
  <2>3. f[0] \in A BY <1>6
  <2>4. More(1, f[0]) > 0 BY <1>2, <1>6, <2>1, <2>3
  <2> QED BY <2>1, <2>2, <2>4, <1>5
<1>12. caps # <<>> => N > 0 OBVIOUS
<1>13. \A i \in 1..N : i # N =>
         f[i] = f[i - 1] + Smallest(Due(caps, layers, least, i), layers - f[i - 1])
  <2> HIDE DEF N, step, A
  <2> QED BY <1>5 DEF Due
<1> HIDE DEF N, step
<1>14. Hands(f, N, layers) /\ (caps # <<>> => f[1] > 0)
  BY <1>4, <1>6, <1>11, <1>12 DEF Hands
<1> QED BY <1>10, <1>13, <1>14 DEF N

LEMMA HandedHands ==
  ASSUME NEW caps \in Seq(Nat \ {0}), NEW layers \in Nat \ {0}, NEW least \in Nat \ {0}
  PROVE  /\ Hands(Handed(caps, layers, least), Len(caps), layers)
         /\ caps # <<>> => Handed(caps, layers, least)[1] > 0
BY HandedIs

\* Every layer is in the range of a member.
LEMMA HandsCover ==
  ASSUME NEW n \in Nat \ {0}, NEW layers \in Nat, NEW cursor, Hands(cursor, n, layers),
         NEW l \in 0..layers - 1
  PROVE  \E k \in 1..n : cursor[k - 1] <= l /\ l < cursor[k]
<1> DEFINE T == {k \in 0..n : l < cursor[k]}
<1>1. n \in T /\ 0 \notin T /\ T \subseteq Nat BY DEF Hands
<1>2. PICK k \in T : \A j \in T : k <= j
  <2> HIDE DEF T
  <2> QED BY <1>1, LeastNat
<1>3. k \in 1..n /\ l < cursor[k] BY <1>1
<1>4. k - 1 \in 0..n /\ k - 1 \notin T BY <1>2, <1>3
<1>5. cursor[k - 1] \in Nat BY <1>4 DEF Hands
<1> QED BY <1>3, <1>4, <1>5

-----------------------------------------------------------------------------
(* How swarms are formed                                                       *)

Distinct(q) == \A i, j \in DOMAIN q : q[i] = q[j] => i = j

\* The candidates are places in the order, each taken once.
LEMMA CandidatesDistinct ==
  ASSUME NEW P, NEW order \in Seq(P), NEW i \in 1..Len(order), NEW assigned, NEW close
  PROVE  /\ Candidates(order, i, assigned, close) \in Seq(1..Len(order))
         /\ Candidates(order, i, assigned, close) # <<>>
         /\ Distinct(Candidates(order, i, assigned, close))
<1> DEFINE N == Len(order)
           A == Seq(1..N)
           Skip(j, r) == \/ j = i \/ j \in assigned
                         \/ Len(r) >= MaxDepth
                         \/ \E k \in DOMAIN r : {order[j], order[r[k]]} \notin close
           Rule(g) == [j \in 0..N |->
              IF j = 0 THEN <<i>>
              ELSE IF \/ j = i \/ j \in assigned
                      \/ Len(g[j - 1]) >= MaxDepth
                      \/ \E k \in DOMAIN g[j - 1] :
                           {order[j], order[g[j - 1][k]]} \notin close
                   THEN g[j - 1]
                   ELSE Append(g[j - 1], j)]
           found == CHOOSE g : g = Rule(g)
           step == [j \in 1..N |-> [r \in A |-> IF Skip(j, r) THEN r ELSE Append(r, j)]]
           a == <<i>>
<1>1. N \in Nat /\ a \in A OBVIOUS
<1>2. step \in [1..N -> [A -> A]]
  <2>1. ASSUME NEW j \in 1..N, NEW r \in A PROVE Append(r, j) \in A
    OBVIOUS
  <2> HIDE DEF A, Skip, N
  <2> QED BY <2>1
<1>3. PICK f \in [0..N -> A] : Recurs(f, N, a, step)
  <2> HIDE DEF step, N, A, a
  <2> QED BY <1>1, <1>2, Recursion
<1>4. ASSUME NEW j \in 1..N
      PROVE  f[j - 1] \in A /\ f[j] = IF Skip(j, f[j - 1]) THEN f[j - 1] ELSE Append(f[j - 1], j)
  <2>1. f[j - 1] \in A
    <3> HIDE DEF A
    <3> QED BY <1>1
  <2> HIDE DEF A, Skip
  <2>2. step[j][f[j - 1]] = IF Skip(j, f[j - 1]) THEN f[j - 1] ELSE Append(f[j - 1], j) BY <2>1
  <2> HIDE DEF step, N
  <2> QED BY <2>1, <2>2, <1>3 DEF Recurs
<1>5. f[0] = a BY <1>3 DEF Recurs
<1>6. f = Rule(f)
  <2>1. \A j \in 0..N : j = 0 \/ j \in 1..N BY <1>1
  <2>2. f = [j \in 0..N |-> f[j]] BY <1>3
  <2>3. \A j \in 0..N : f[j] = IF j = 0 THEN <<i>>
              ELSE IF Skip(j, f[j - 1]) THEN f[j - 1] ELSE Append(f[j - 1], j)
    <3> HIDE DEF step, N, A, Skip
    <3>1. \A j \in 1..N : j # 0 BY <1>1
    <3> QED BY <1>4, <1>5, <2>1, <3>1
  <2> HIDE DEF step, N, A
  <2> QED BY <2>2, <2>3
<1>7. found = Rule(found)
  <2> HIDE DEF Rule
  <2> QED BY <1>6
<1>8. f = found
  <2>1. FunctionOn(f, 0..N)
    <3> HIDE DEF A, N
    <3> QED BY <1>3 DEF FunctionOn
  <2>2. FunctionOn(found, 0..N) /\ found[0] = a
    <3> HIDE DEF found, N
    <3>1. found = [j \in 0..N |-> found[j]] BY <1>7
    <3>2. 0 \in 0..N BY <1>1
    <3> QED BY <1>7, <3>1, <3>2 DEF FunctionOn
  <2>3. ASSUME NEW j \in 1..N, f[j - 1] = found[j - 1] PROVE f[j] = found[j]
    <3>1. j \in 0..N /\ j # 0 BY <1>1
    <3> HIDE DEF found, N, A, step
    <3>2. found[j] = IF Skip(j, found[j - 1]) THEN found[j - 1] ELSE Append(found[j - 1], j)
      BY <1>7, <3>1
    <3> HIDE DEF Skip
    <3> QED BY <3>2, <2>3, <1>4
  <2> HIDE DEF step, N, found, A
  <2>4. \A j \in 1..N : f[j - 1] = found[j - 1] => f[j] = found[j] BY <2>3
  <2> QED BY <1>1, <1>5, <2>1, <2>2, <2>4, SameRecursion
<1>9. Candidates(order, i, assigned, close) = f[N] BY <1>8 DEF Candidates
<1> DEFINE Good(r, j) == /\ r # <<>>
                         /\ \A k \in 1..Len(r) : r[k] = i \/ r[k] <= j
                         /\ \A k, l \in 1..Len(r) : r[k] = r[l] => k = l
           T == {j \in Nat : j <= N => Good(f[j], j)}
<1>10. N \in T
  <2>1. 0 \in T
    <3>1. Good(a, 0) OBVIOUS
    <3> HIDE DEF Good, a, N
    <3>2. Good(f[0], 0) BY <3>1, <1>5
    <3> QED BY <3>2
  <2>2. ASSUME NEW j \in Nat, j \in T PROVE j + 1 \in T
    <3>1. SUFFICES ASSUME j + 1 <= N PROVE Good(f[j + 1], j + 1)
      OBVIOUS
    <3>2. j + 1 \in 1..N /\ (j + 1) - 1 = j /\ j <= N BY <3>1, <1>1
    <3>3. Good(f[j], j) BY <2>2, <3>2
    <3>4. PICK r \in A : r = f[j]
      <4> HIDE DEF A, N, step
      <4> QED BY <1>4, <3>2
    <3>5. f[j + 1] = IF Skip(j + 1, r) THEN r ELSE Append(r, j + 1)
      <4> HIDE DEF A, N, step, Skip
      <4> QED BY <1>4, <3>2, <3>4
    <3>6. \A k \in 1..Len(r) : r[k] \in Nat BY <3>4
    <3>7. CASE Skip(j + 1, r)
      <4>1. f[j + 1] = r
        <5> HIDE DEF Skip
        <5> QED BY <3>5, <3>7
      <4> HIDE DEF Skip, step, N
      <4> QED BY <4>1, <3>3, <3>4, <3>6
    <3>8. CASE ~Skip(j + 1, r)
      <4>1. j + 1 # i BY <3>8
      <4> HIDE DEF Skip
      <4>2. f[j + 1] = Append(r, j + 1) BY <3>5, <3>8
      <4> DEFINE s == Append(r, j + 1)
      <4>3. Len(s) = Len(r) + 1 /\ s[Len(s)] = j + 1 /\ \A k \in 1..Len(r) : s[k] = r[k] BY <3>4
      <4>4. Len(r) \in Nat BY <3>4
      <4> HIDE DEF s, step, N, A
      <4>5. \A k \in 1..Len(r) : r[k] = i \/ r[k] <= j BY <3>3, <3>4
      <4>6. \A k, l \in 1..Len(r) : r[k] = r[l] => k = l BY <3>3, <3>4
      <4>7. \A k \in 1..Len(s) : k \in 1..Len(r) \/ k = Len(s) BY <4>3, <4>4
      <4>8. \A k \in 1..Len(s) : s[k] = i \/ s[k] <= j + 1
        BY <4>3, <4>5, <4>7, <3>6
      <4>9. \A k \in 1..Len(r) : s[k] # j + 1 BY <4>1, <4>3, <4>5, <3>6
      <4>10. \A k, l \in 1..Len(s) : s[k] = s[l] => k = l
        BY <4>3, <4>6, <4>7, <4>9
      <4>11. s # <<>> BY <4>3, <4>4
      <4> QED BY <4>2, <4>8, <4>10, <4>11 DEF s
    <3> QED BY <3>7, <3>8
  <2> HIDE DEF T
  <2>3. \A j \in Nat : j \in T BY <2>1, <2>2, InductionOnSet
  <2> QED BY <2>3, <1>1
<1>11. Good(f[N], N) BY <1>10, <1>1
<1>12. f[N] \in A
  <2> HIDE DEF A, N
  <2> QED BY <1>1
<1>13. Distinct(f[N])
  <2>1. DOMAIN f[N] = 1..Len(f[N]) BY <1>12
  <2> HIDE DEF N, step, A
  <2> QED BY <2>1, <1>11 DEF Distinct
<1> QED BY <1>9, <1>11, <1>12, <1>13

MemberSet == [peer : Peers, role : Roles, cap : Nat \ {0}, from : Nat, to : Nat]
SwarmSet == [model : Models, members : Seq(MemberSet), status : Statuses]

DistinctPeers(members) ==
  \A i, j \in DOMAIN members : members[i].peer = members[j].peer => i = j
NoStandby(members) == \A i \in DOMAIN members : members[i].role # "standby"
\* One member leads, and none that stands by comes before it.
LedFirst(members) ==
  \E i \in DOMAIN members :
    /\ members[i].role = "leader"
    /\ \A j \in DOMAIN members : /\ members[j].role = "leader" => j = i
                                 /\ j < i => members[j].role # "standby"
AllLayers(members, layers) ==
  \A l \in 0..layers - 1 :
    \E i \in DOMAIN members : /\ IsActive(members[i])
                              /\ members[i].from <= l /\ l < members[i].to

\* What a scheduler's stages are: the peers are those given, each at most once,
\* the first of them has layers, and every layer is in a stage.
LEMMA StagesShare ==
  ASSUME NEW P, NEW ranked \in Seq(P), ranked # <<>>, Distinct(ranked), NEW c,
         \A p \in P : c[p] \in Nat \ {0},
         NEW layers \in Nat \ {0}, NEW least \in Nat \ {0}
  PROVE  /\ Stages(ranked, c, layers, least) \in Seq([peer : P, from : Nat, to : Nat])
         /\ DistinctPeers(Stages(ranked, c, layers, least))
         /\ \E k \in DOMAIN Stages(ranked, c, layers, least) :
              Stages(ranked, c, layers, least)[k].peer = ranked[1]
         /\ \A l \in 0..layers - 1 : \E k \in DOMAIN Stages(ranked, c, layers, least) :
              /\ Stages(ranked, c, layers, least)[k].from <= l
              /\ l < Stages(ranked, c, layers, least)[k].to
<1> DEFINE caps == [i \in DOMAIN ranked |-> c[ranked[i]]]
           n == Len(ranked)
           cursor == Handed(caps, layers, least)
           S == {i \in DOMAIN ranked : cursor[i] > cursor[i - 1]}
           served == Ascending(S)
           stages == Stages(ranked, c, layers, least)
<1>1. n \in Nat \ {0} /\ DOMAIN ranked = 1..n /\ \A i \in 1..n : ranked[i] \in P
  OBVIOUS
<1>2. caps \in Seq(Nat \ {0}) /\ Len(caps) = n /\ caps # <<>>
  <2>1. \A i \in 1..n : caps[i] \in Nat \ {0} BY <1>1
  <2>2. caps \in [1..n -> Nat \ {0}] BY <1>1, <2>1
  <2> HIDE DEF caps, n
  <2>3. caps \in Seq(Nat \ {0}) /\ Len(caps) = n BY <1>1, <2>2
  <2> QED BY <2>3, <1>1
<1>3. Hands(cursor, n, layers) /\ cursor[1] > 0
  <2> HIDE DEF caps, n
  <2> QED BY <1>2, HandedHands
<1>4. \A i \in 0..n : cursor[i] \in Nat
  <2> HIDE DEF cursor, n
  <2> QED BY <1>3 DEF Hands
<1>5. S \in SUBSET Nat /\ IsFiniteSet(S) /\ S \subseteq 1..n
  <2>1. S \subseteq 1..n BY <1>1
  <2>2. IsFiniteSet(1..n)
    <3>1. 1 \in Int /\ n \in Int BY <1>1
    <3> HIDE DEF n
    <3> QED BY <3>1, FS_Interval
  <2>3. S \in SUBSET Nat BY <2>1, <1>1
  <2> HIDE DEF S, n
  <2>4. IsFiniteSet(S) BY <2>1, <2>2, FS_Subset
  <2> QED BY <2>1, <2>3, <2>4
<1>6. ListsOnce(served, S) /\ Cardinality(S) \in Nat
  <2> HIDE DEF S
  <2> QED BY <1>5, AscendingLists, FS_CardinalityType
<1> DEFINE m == Cardinality(S)
<1>7. /\ \A k \in 1..m : served[k] \in S
      /\ \A i \in S : \E k \in 1..m : served[k] = i
      /\ \A j, k \in 1..m : served[j] = served[k] => j = k
      /\ DOMAIN served = 1..m
  <2> HIDE DEF served, S
  <2> QED BY <1>6 DEF ListsOnce
<1>8. stages = [k \in 1..m |-> [peer |-> ranked[served[k]],
                                from |-> cursor[served[k] - 1], to |-> cursor[served[k]]]]
  BY <1>7 DEF Stages
<1>9. \A k \in 1..m : /\ served[k] \in 1..n
                      /\ stages[k].peer = ranked[served[k]]
                      /\ stages[k].from = cursor[served[k] - 1]
                      /\ stages[k].to = cursor[served[k]]
  <2> HIDE DEF stages, served, cursor, S, n
  <2> QED BY <1>5, <1>7, <1>8
<1>10. stages \in Seq([peer : P, from : Nat, to : Nat])
  <2> HIDE DEF served, cursor, S, n, stages
  <2>1. ASSUME NEW k \in 1..m
        PROVE  [peer |-> ranked[served[k]], from |-> cursor[served[k] - 1],
                to |-> cursor[served[k]]] \in [peer : P, from : Nat, to : Nat]
    <3>1. served[k] \in 1..n /\ served[k] \in 0..n /\ served[k] - 1 \in 0..n
      BY <1>9, <1>1
    <3>2. ranked[served[k]] \in P BY <3>1, <1>1
    <3>3. cursor[served[k]] \in Nat /\ cursor[served[k] - 1] \in Nat BY <3>1, <1>4
    <3> QED BY <3>2, <3>3
  <2>2. stages \in [1..m -> [peer : P, from : Nat, to : Nat]] BY <2>1, <1>8
  <2> DEFINE X == [peer : P, from : Nat, to : Nat]
  <2>4. stages \in [1..m -> X] BY <2>2
  <2> HIDE DEF m, X
  <2>3. m \in Nat BY <1>6 DEF m
  <2>5. stages \in Seq(X) BY <2>3, <2>4
  <2> QED BY <2>5 DEF X
<1>11. DOMAIN stages = 1..m
  <2> HIDE DEF served, cursor, m
  <2> QED BY <1>8
<1> HIDE DEF stages, served, cursor, S, m, n, caps
<1>12. DistinctPeers(stages)
  <2>1. \A j, k \in 1..m : ranked[served[j]] = ranked[served[k]] => served[j] = served[k]
    BY <1>1, <1>9 DEF Distinct
  <2> QED BY <2>1, <1>7, <1>9, <1>11 DEF DistinctPeers
<1>13. \A i \in 1..n : cursor[i] > cursor[i - 1] => \E k \in 1..m : served[k] = i
  BY <1>7, <1>1 DEF S
<1>14. \E k \in DOMAIN stages : stages[k].peer = ranked[1]
  <2>1. 1 \in 1..n /\ cursor[1 - 1] = 0 BY <1>1, <1>3 DEF Hands
  <2>2. PICK k \in 1..m : served[k] = 1 BY <2>1, <1>3, <1>13
  <2> QED BY <2>2, <1>9, <1>11
<1>15. ASSUME NEW l \in 0..layers - 1
       PROVE  \E k \in DOMAIN stages : stages[k].from <= l /\ l < stages[k].to
  <2>1. PICK i \in 1..n : cursor[i - 1] <= l /\ l < cursor[i]
    BY <1>1, <1>3, HandsCover
  <2>2. cursor[i] > cursor[i - 1]
    <3>1. i \in 0..n /\ i - 1 \in 0..n BY <1>1
    <3>2. cursor[i] \in Nat /\ cursor[i - 1] \in Nat BY <3>1, <1>4
    <3> QED BY <2>1, <3>2
  <2>3. PICK k \in 1..m : served[k] = i BY <2>2, <1>13
  <2> QED BY <2>1, <2>3, <1>9, <1>11
<1> QED BY <1>10, <1>12, <1>14, <1>15 DEF stages

LEMMA FormMembersSound ==
  ASSUME NEW strongest \in Seq(Peers), strongest # <<>>, Distinct(strongest), NEW c,
         \A p \in Peers : c[p] \in Nat \ {0}, NEW layers \in Nat \ {0}
  PROVE  /\ FormMembers(strongest, c, layers) \in Seq(MemberSet)
         /\ DistinctPeers(FormMembers(strongest, c, layers))
         /\ LedFirst(FormMembers(strongest, c, layers))
         /\ AllLayers(FormMembers(strongest, c, layers), layers)
<1> DEFINE stages == Stages(strongest, c, layers, Least)
           members == FormMembers(strongest, c, layers)
           X == [peer : Peers, from : Nat, to : Nat]
           n == Len(stages)
<1>1. /\ stages \in Seq(X)
      /\ DistinctPeers(stages)
      /\ \E k \in DOMAIN stages : stages[k].peer = strongest[1]
      /\ \A l \in 0..layers - 1 : \E k \in DOMAIN stages :
           stages[k].from <= l /\ l < stages[k].to
  <2>1. Least \in Nat \ {0} BY FormationAssumption
  <2> QED BY <2>1, StagesShare
<1>2. members = [k \in DOMAIN stages |->
         Member(stages[k].peer, IF stages[k].peer = strongest[1] THEN "leader" ELSE "worker",
                c[stages[k].peer], stages[k].from, stages[k].to)]
  BY DEF FormMembers
<1> HIDE DEF stages, members
<1>3. n \in Nat /\ DOMAIN stages = 1..n /\ DOMAIN members = 1..n
  <2>1. n \in Nat /\ DOMAIN stages = 1..n BY <1>1
  <2> QED BY <2>1, <1>2
<1>4. ASSUME NEW k \in 1..n
      PROVE  /\ stages[k] \in X
             /\ members[k] = Member(stages[k].peer,
                  IF stages[k].peer = strongest[1] THEN "leader" ELSE "worker",
                  c[stages[k].peer], stages[k].from, stages[k].to)
  <2>1. stages[k] \in X
    <3> HIDE DEF X
    <3> QED BY <1>1
  <2> HIDE DEF X, n
  <2> QED BY <2>1, <1>2, <1>3
<1>5. ASSUME NEW k \in 1..n
      PROVE  /\ members[k] \in MemberSet
             /\ members[k].peer = stages[k].peer
             /\ members[k].role = IF stages[k].peer = strongest[1] THEN "leader" ELSE "worker"
             /\ members[k].from = stages[k].from /\ members[k].to = stages[k].to
  <2>1. PICK s \in X : s = stages[k] BY <1>4
  <2>2. PICK role \in {"leader", "worker"} :
          role = IF stages[k].peer = strongest[1] THEN "leader" ELSE "worker"
    OBVIOUS
  <2>3. PICK cp \in Nat \ {0} : cp = c[s.peer] OBVIOUS
  <2>4. members[k] = Member(s.peer, role, cp, s.from, s.to)
    BY <1>4, <2>1, <2>2, <2>3
  <2>5. s.peer \in Peers /\ s.from \in Nat /\ s.to \in Nat OBVIOUS
  <2>6. role \in Roles BY <2>2 DEF Roles
  <2> HIDE DEF X, n
  <2>7. members[k] \in MemberSet BY <2>4, <2>5, <2>6 DEF Member, MemberSet
  <2>8. /\ members[k].peer = s.peer /\ members[k].role = role
        /\ members[k].from = s.from /\ members[k].to = s.to
    BY <2>4 DEF Member
  <2> QED BY <2>1, <2>2, <2>7, <2>8
<1> HIDE DEF X, n
<1>6. members \in Seq(MemberSet)
  <2>1. members = [k \in 1..n |-> members[k]] BY <1>2, <1>3
  <2>2. members \in [1..n -> MemberSet] BY <2>1, <1>5
  <2> QED BY <2>2, <1>3
<1>7. DistinctPeers(members) BY <1>1, <1>3, <1>5 DEF DistinctPeers
<1>8. LedFirst(members)
  <2>1. PICK k \in 1..n : stages[k].peer = strongest[1] BY <1>1, <1>3
  <2>2. members[k].role = "leader" BY <2>1, <1>5
  <2>3. ASSUME NEW j \in 1..n
        PROVE members[j].role # "standby" /\ (members[j].role = "leader" => j = k)
    <3>1. \A i, h \in 1..n : stages[i].peer = stages[h].peer => i = h
      BY <1>1, <1>3 DEF DistinctPeers
    <3>2. members[j].role = IF stages[j].peer = strongest[1] THEN "leader" ELSE "worker"
      BY <1>5
    <3> QED BY <2>1, <3>1, <3>2
  <2> QED BY <2>2, <2>3, <1>3 DEF LedFirst
<1>9. AllLayers(members, layers)
  <2>1. ASSUME NEW l \in 0..layers - 1
        PROVE \E k \in 1..n : IsActive(members[k]) /\ members[k].from <= l /\ l < members[k].to
    <3>1. PICK k \in 1..n : stages[k].from <= l /\ l < stages[k].to BY <1>1, <1>3
    <3> QED BY <3>1, <1>5 DEF IsActive
  <2> QED BY <2>1, <1>3 DEF AllLayers
<1> QED BY <1>6, <1>7, <1>8, <1>9 DEF members

LEMMA ByCapacityLists ==
  ASSUME NEW members \in Seq(Peers), members # <<>>, Distinct(members), NEW c,
         \A p \in Peers : c[p] \in Nat \ {0}
  PROVE  /\ ByCapacity(members, c) \in Seq(Peers)
         /\ ByCapacity(members, c) # <<>>
         /\ Distinct(ByCapacity(members, c))
<1> DEFINE places == DOMAIN members
           before == {e \in places \X places :
                         \/ c[members[e[1]]] > c[members[e[2]]]
                         \/ c[members[e[1]]] = c[members[e[2]]] /\ e[1] < e[2]}
           order == OrderedBy(places, before)
           strongest == ByCapacity(members, c)
           n == Len(members)
<1>1. n \in Nat \ {0} /\ places = 1..n /\ \A i \in 1..n : members[i] \in Peers
  OBVIOUS
<1>2. IsFiniteSet(places) /\ Cardinality(places) = n
  <2> HIDE DEF n, places
  <2>1. 1 \in Int /\ n \in Int /\ n >= 1 BY <1>1
  <2>2. IsFiniteSet(1..n) /\ Cardinality(1..n) = IF 1 > n THEN 0 ELSE n - 1 + 1
    BY <2>1, FS_Interval
  <2> QED BY <2>1, <2>2, <1>1
<1>3. StrictOrder(places, before)
  <2> DEFINE v(i) == c[members[i]]
  <2>1. \A i \in places : i \in Nat /\ v(i) \in Nat BY <1>1
  <2>2. \A i, j \in places : <<i, j>> \in before <=> v(i) > v(j) \/ (v(i) = v(j) /\ i < j)
    OBVIOUS
  <2> HIDE DEF v, before, places
  <2>3. \A i \in places : <<i, i>> \notin before BY <2>1, <2>2
  <2>4. \A i, j, k \in places : <<i, j>> \in before /\ <<j, k>> \in before => <<i, k>> \in before
    BY <2>1, <2>2
  <2>5. \A i, j \in places : i # j => <<i, j>> \in before \/ <<j, i>> \in before
    BY <2>1, <2>2
  <2> QED BY <2>3, <2>4, <2>5 DEF StrictOrder
<1>4. ListsOnce(order, places)
  <2> HIDE DEF before, places
  <2> QED BY <1>2, <1>3, OrderedLists
<1>5. strongest = [k \in DOMAIN order |-> members[order[k]]] BY DEF ByCapacity
<1> HIDE DEF strongest, order, before, places, n
<1>6. DOMAIN order = 1..n /\ \A k \in 1..n : order[k] \in 1..n
  BY <1>1, <1>2, <1>4 DEF ListsOnce
<1>7. \A k \in 1..n : strongest[k] = members[order[k]] BY <1>5, <1>6
<1>8. strongest \in [1..n -> Peers]
  <2>1. \A k \in 1..n : members[order[k]] \in Peers BY <1>1, <1>6
  <2> QED BY <2>1, <1>5, <1>6
<1>9. \A j, k \in 1..n : strongest[j] = strongest[k] => j = k
  <2>1. \A i, j \in 1..n : members[i] = members[j] => i = j BY <1>1 DEF Distinct, places
  <2>2. \A j, k \in 1..n : order[j] = order[k] => j = k BY <1>2, <1>4 DEF ListsOnce
  <2> QED BY <2>1, <2>2, <1>6, <1>7
<1>10. strongest \in Seq(Peers) /\ Len(strongest) = n /\ DOMAIN strongest = 1..n
  BY <1>1, <1>8
<1>11. strongest # <<>> BY <1>1, <1>10
<1>12. Distinct(strongest) BY <1>9, <1>10 DEF Distinct
<1> QED BY <1>10, <1>11, <1>12 DEF strongest

LEMMA BestModelIsModel ==
  ASSUME NEW capacity PROVE BestModel(capacity) \in Models \cup {NoModel}
<1> DEFINE fits == {m \in Models : 100 * Sizes[m] <= 85 * capacity}
           best == {m \in fits : \A k \in fits : Sizes[k] <= Sizes[m]}
           N == Len(Sizes)
<1>1. N \in Nat /\ Models = 1..N /\ \A m \in Models : Sizes[m] \in Nat
  BY FormationAssumption DEF Models
<1>2. ASSUME NEW T, T \subseteq Nat, T # {}, NEW b \in Nat, \A x \in T : x <= b
      PROVE  \E x \in T : \A y \in T : y <= x
  <2> DEFINE Others == {b - x : x \in T}
  <2>1. Others \subseteq Nat /\ Others # {}
    <3>1. \A x \in T : b - x \in Nat BY <1>2
    <3> QED BY <3>1, <1>2
  <2>2. PICK u \in Others : \A w \in Others : u <= w
    <3> HIDE DEF Others
    <3> QED BY <2>1, LeastNat
  <2>3. PICK x \in T : u = b - x BY <2>2
  <2>4. \A y \in T : b - x <= b - y BY <2>2, <2>3
  <2>5. \A y \in T : y \in Nat /\ b - x <= b - y => y <= x BY <1>2
  <2> QED BY <1>2, <2>3, <2>4, <2>5
<1>3. ASSUME fits # {} PROVE Max(best) \in best
  <2> HIDE DEF fits
  <2>1. fits \subseteq Models BY DEF fits
  <2>2. \E m \in fits : \A k \in fits : Sizes[k] <= Sizes[m]
    <3> DEFINE T == {Sizes[m] : m \in fits}
    <3>1. T \subseteq Nat /\ T # {} BY <1>1, <1>3, <2>1
    <3>2. \E b \in Nat : \A x \in T : x <= b
      <4> DEFINE V == {b \in Nat : b <= N => \E x \in Nat : \A m \in fits : m <= b => Sizes[m] <= x}
      <4>1. 0 \in V
        <5>1. \A m \in fits : ~(m <= 0) BY <1>1, <2>1
        <5> QED BY <5>1
      <4>2. ASSUME NEW b \in Nat, b \in V PROVE b + 1 \in V
        <5>1. SUFFICES ASSUME b + 1 <= N
              PROVE \E x \in Nat : \A m \in fits : m <= b + 1 => Sizes[m] <= x
          OBVIOUS
        <5>2. b + 1 \in Models /\ b <= N BY <5>1, <1>1
        <5>3. PICK x \in Nat : \A m \in fits : m <= b => Sizes[m] <= x BY <4>2, <5>2
        <5>4. PICK s \in Nat : s = Sizes[b + 1] BY <5>2, <1>1
        <5>5. \A m \in fits : m \in Nat /\ Sizes[m] \in Nat BY <1>1, <2>1
        <5>6. \A m \in fits : m <= b + 1 => m <= b \/ m = b + 1 BY <5>5
        <5>7. \A m \in fits : m <= b + 1 => Sizes[m] <= x + s BY <5>3, <5>4, <5>5, <5>6
        <5> QED BY <5>7
      <4>3. N \in V
        <5> HIDE DEF V
        <5>1. \A b \in Nat : b \in V BY <4>1, <4>2, InductionOnSet
        <5> QED BY <5>1, <1>1
      <4>4. PICK x \in Nat : \A m \in fits : m <= N => Sizes[m] <= x BY <4>3, <1>1
      <4>5. \A m \in fits : m <= N BY <1>1, <2>1
      <4> QED BY <4>4, <4>5
    <3>3. PICK x \in T : \A y \in T : y <= x
      <4> HIDE DEF T
      <4> QED BY <3>1, <3>2, <1>2
    <3> QED BY <3>3
  <2>3. best # {} /\ best \subseteq Nat /\ \A m \in best : m <= N
    <3>1. best # {} BY <2>2
    <3>2. best \subseteq 1..N BY <2>1, <1>1
    <3> HIDE DEF best
    <3> QED BY <3>1, <3>2, <1>1
  <2> HIDE DEF best
  <2>4. \E m \in best : \A k \in best : k <= m BY <2>3, <1>1, <1>2
  <2>5. \E m \in best : \A k \in best : m >= k BY <2>3, <2>4
  <2> QED BY <2>5 DEF Max
<1>4. BestModel(capacity) = IF fits = {} THEN NoModel ELSE Max(best) BY DEF BestModel
<1>5. best \subseteq Models OBVIOUS
<1> HIDE DEF best, fits
<1> QED BY <1>3, <1>4, <1>5

ActivePlaces(members) == {i \in DOMAIN members : IsActive(members[i])}

\* A swarm in service is led and serves every layer; one that is disbanded has
\* too few members to be in service, and none in reserve.
InServiceOrNot(sw) ==
  IF sw.status = "disbanded"
  THEN NoStandby(sw.members) /\ Cardinality(ActivePlaces(sw.members)) < MinSwarm
  ELSE LedFirst(sw.members) /\ AllLayers(sw.members, LayerCounts[sw.model])
SoundSwarms == {sw \in SwarmSet : DistinctPeers(sw.members) /\ InServiceOrNot(sw)}
Accumulators == [assigned : SUBSET Nat, swarms : Seq(SoundSwarms)]

LEMMA LayersArePositive ==
  ASSUME NEW m \in Models PROVE LayerCounts[m] \in Nat \ {0}
BY FormationAssumption DEF Models

LEMMA NewSwarmSound ==
  ASSUME NEW m \in Models, NEW members \in Seq(MemberSet), DistinctPeers(members),
         LedFirst(members), AllLayers(members, LayerCounts[m])
  PROVE  [model |-> m, members |-> members, status |-> "forming"] \in SoundSwarms
<1> DEFINE sw == [model |-> m, members |-> members, status |-> "forming"]
<1>1. "forming" \in Statuses BY DEF Statuses
<1>2. sw \in SwarmSet BY <1>1 DEF SwarmSet
<1>3. sw.members = members /\ sw.model = m /\ sw.status = "forming" OBVIOUS
<1> HIDE DEF sw
<1>4. InServiceOrNot(sw) BY <1>3 DEF InServiceOrNot
<1>5. sw \in SoundSwarms BY <1>2, <1>3, <1>4 DEF SoundSwarms
<1> QED BY <1>5 DEF sw

LEMMA FormOneSound ==
  ASSUME NEW order \in Seq(Peers), Distinct(order), NEW i \in 1..Len(order),
         NEW acc \in Accumulators, NEW c, \A p \in Peers : c[p] \in Nat \ {0}, NEW close
  PROVE  FormOne(acc, order, i, c, close) \in Accumulators
<1> DEFINE group == Candidates(order, i, acc.assigned, close)
           members == [k \in DOMAIN group |-> order[group[k]]]
           capacity == Total([k \in DOMAIN members |-> c[members[k]]])
           model == BestModel(capacity)
           strongest == ByCapacity(members, c)
           placed == FormMembers(strongest, c, LayerCounts[model])
           N == Len(order)
           new == [assigned |-> acc.assigned \cup
                     {g \in ToSet(group) : \E k \in DOMAIN placed : placed[k].peer = order[g]},
                   swarms |-> Append(acc.swarms,
                     [model |-> model, members |-> placed, status |-> "forming"])]
<1>1. FormOne(acc, order, i, c, close) = acc
      \/ (FormOne(acc, order, i, c, close) = new /\ model # NoModel)
  BY DEF FormOne
<1>2. group \in Seq(1..N) /\ group # <<>> /\ Distinct(group)
  BY CandidatesDistinct
<1> HIDE DEF group
<1>3. members \in Seq(Peers) /\ members # <<>> /\ Distinct(members)
  <2> DEFINE n == Len(group)
  <2>1. n \in Nat \ {0} /\ DOMAIN group = 1..n /\ \A k \in 1..n : group[k] \in 1..N
    BY <1>2
  <2>2. \A k \in 1..N : order[k] \in Peers OBVIOUS
  <2>3. members \in [1..n -> Peers]
    <3> HIDE DEF n, N
    <3> QED BY <2>1, <2>2
  <2>4. \A j, k \in 1..n : members[j] = members[k] => j = k
    <3>1. \A j, k \in 1..N : order[j] = order[k] => j = k BY DEF Distinct
    <3>2. \A j, k \in 1..n : group[j] = group[k] => j = k BY <1>2, <2>1 DEF Distinct
    <3>3. \A k \in 1..n : members[k] = order[group[k]] BY <2>1
    <3> HIDE DEF n, N, members
    <3> QED BY <3>1, <3>2, <3>3, <2>1
  <2> HIDE DEF n, N, members
  <2>5. members \in Seq(Peers) /\ Len(members) = n /\ DOMAIN members = 1..n BY <2>1, <2>3
  <2>6. members # <<>> BY <2>1, <2>5
  <2> QED BY <2>4, <2>5, <2>6 DEF Distinct
<1> HIDE DEF members, capacity
<1>4. strongest \in Seq(Peers) /\ strongest # <<>> /\ Distinct(strongest)
  BY <1>3, ByCapacityLists
<1>5. model \in Models \cup {NoModel} BY BestModelIsModel
<1> HIDE DEF strongest, model
<1>6. ASSUME model # NoModel
      PROVE  [model |-> model, members |-> placed, status |-> "forming"] \in SoundSwarms
  <2>1. model \in Models /\ LayerCounts[model] \in Nat \ {0} BY <1>5, <1>6, LayersArePositive
  <2>2. /\ placed \in Seq(MemberSet) /\ DistinctPeers(placed)
        /\ LedFirst(placed) /\ AllLayers(placed, LayerCounts[model])
    BY <1>4, <2>1, FormMembersSound
  <2> HIDE DEF placed
  <2> QED BY <2>1, <2>2, NewSwarmSound
<1>7. acc.assigned \in SUBSET Nat /\ acc.swarms \in Seq(SoundSwarms)
  BY DEF Accumulators
<1>8. ToSet(group) \subseteq Nat
  <2>1. \A k \in DOMAIN group : group[k] \in 1..N BY <1>2
  <2>2. 1..N \subseteq Nat OBVIOUS
  <2> HIDE DEF N
  <2> QED BY <2>1, <2>2 DEF ToSet
<1> HIDE DEF placed
<1>9. ASSUME model # NoModel PROVE new \in Accumulators
  <2> DEFINE sw == [model |-> model, members |-> placed, status |-> "forming"]
             a == acc.assigned \cup
                     {g \in ToSet(group) : \E k \in DOMAIN placed : placed[k].peer = order[g]}
             s == Append(acc.swarms, sw)
  <2>1. sw \in SoundSwarms BY <1>6, <1>9
  <2>2. s \in Seq(SoundSwarms)
    <3> HIDE DEF sw
    <3> QED BY <2>1, <1>7
  <2>3. a \in SUBSET Nat BY <1>7, <1>8
  <2>4. new = [assigned |-> a, swarms |-> s] OBVIOUS
  <2> HIDE DEF a, s, new
  <2> QED BY <2>2, <2>3, <2>4 DEF Accumulators
<1> HIDE DEF new
<1> QED BY <1>1, <1>9

LEMMA FormSwarmsSound ==
  ASSUME NEW c \in [Peers -> Nat \ {0}], NEW close
  PROVE  FormSwarms(Peers, c, close) \in Seq(SoundSwarms)
<1> DEFINE order == Eligible(Peers, c)
           N == Len(order)
           a == [assigned |-> {}, swarms |-> <<>>]
           One(acc, i) == FormOne(acc, order, i, c, close)
           Rule(g) == [i \in 0..N |-> IF i = 0 THEN [assigned |-> {}, swarms |-> <<>>]
                                      ELSE FormOne(g[i - 1], order, i, c, close)]
           formed == CHOOSE g : g = Rule(g)
           A == Accumulators
           step == [i \in 1..N |-> [acc \in A |-> One(acc, i)]]
<1>0. \A p \in Peers : c[p] \in Nat \ {0} OBVIOUS
<1>1. order \in Seq(Peers) /\ Distinct(order)
  <2> DEFINE strong == {p \in Peers : c[p] >= MinPeer}
             rep == [p \in Peers |-> 0]
             m == Cardinality(strong)
  <2>1. order = Ranked(strong, c, rep) BY DEF Eligible
  <2>2. strong \in SUBSET Nat /\ IsFiniteSet(strong)
    <3>1. strong \subseteq Peers OBVIOUS
    <3>2. Peers \subseteq Nat /\ IsFiniteSet(Peers) BY SwarmAssumption
    <3> HIDE DEF strong
    <3> QED BY <3>1, <3>2, FS_Subset
  <2>3. \A p \in strong : c[p] \in Nat /\ rep[p] \in Nat OBVIOUS
  <2>4. strong \subseteq Peers OBVIOUS
  <2> HIDE DEF strong, rep, order
  <2>5. ListsOnce(order, strong) /\ m \in Nat
    BY <2>1, <2>2, <2>3, RankedLists, FS_CardinalityType
  <2> HIDE DEF m
  <2>6. order \in [1..m -> Peers] BY <2>4, <2>5 DEF ListsOnce, m
  <2>7. order \in Seq(Peers) /\ DOMAIN order = 1..m BY <2>5, <2>6
  <2> QED BY <2>5, <2>7 DEF ListsOnce, Distinct, m
<1> HIDE DEF order
<1>2. N \in Nat BY <1>1
<1>3. a \in A
  <2>1. <<>> \in Seq(SoundSwarms) OBVIOUS
  <2>2. {} \in SUBSET Nat OBVIOUS
  <2> QED BY <2>1, <2>2 DEF Accumulators
<1>4. step \in [1..N -> [A -> A]]
  <2>1. ASSUME NEW i \in 1..N, NEW acc \in A PROVE One(acc, i) \in A
    BY <1>0, <1>1, FormOneSound
  <2> HIDE DEF One, A, N
  <2> QED BY <2>1
<1>5. PICK f \in [0..N -> A] : Recurs(f, N, a, step)
  <2> HIDE DEF step, N, A, a
  <2> QED BY <1>2, <1>3, <1>4, Recursion
<1>6. ASSUME NEW i \in 1..N
      PROVE  f[i - 1] \in A /\ f[i] = One(f[i - 1], i)
  <2>1. f[i - 1] \in A
    <3> HIDE DEF A
    <3> QED BY <1>2
  <2> HIDE DEF A, One
  <2>2. step[i][f[i - 1]] = One(f[i - 1], i) BY <2>1
  <2> HIDE DEF step, N
  <2> QED BY <2>1, <2>2, <1>5 DEF Recurs
<1>7. f[0] = a BY <1>5 DEF Recurs
<1>8. f = Rule(f)
  <2>1. \A i \in 0..N : i = 0 \/ i \in 1..N BY <1>2
  <2>2. f = [i \in 0..N |-> f[i]] BY <1>5
  <2>3. \A i \in 0..N : f[i] = IF i = 0 THEN [assigned |-> {}, swarms |-> <<>>]
                               ELSE FormOne(f[i - 1], order, i, c, close)
    <3> HIDE DEF step, N, A
    <3>1. \A i \in 1..N : i # 0 BY <1>2
    <3> QED BY <1>6, <1>7, <2>1, <3>1
  <2> HIDE DEF step, N, A
  <2> QED BY <2>2, <2>3
<1>9. formed = Rule(formed)
  <2> HIDE DEF Rule
  <2> QED BY <1>8
<1>10. f = formed
  <2>1. FunctionOn(f, 0..N)
    <3> HIDE DEF A, N
    <3> QED BY <1>5 DEF FunctionOn
  <2>2. FunctionOn(formed, 0..N) /\ formed[0] = a
    <3> HIDE DEF formed, N
    <3>1. formed = [j \in 0..N |-> formed[j]] BY <1>9
    <3>2. 0 \in 0..N BY <1>2
    <3> QED BY <1>9, <3>1, <3>2 DEF FunctionOn
  <2>3. ASSUME NEW j \in 1..N, f[j - 1] = formed[j - 1] PROVE f[j] = formed[j]
    <3>1. j \in 0..N /\ j # 0 BY <1>2
    <3> HIDE DEF formed, N, A, step
    <3>2. formed[j] = One(formed[j - 1], j) BY <1>9, <3>1
    <3> HIDE DEF One
    <3> QED BY <3>2, <2>3, <1>6
  <2> HIDE DEF step, N, formed, A
  <2>4. \A j \in 1..N : f[j - 1] = formed[j - 1] => f[j] = formed[j] BY <2>3
  <2> QED BY <1>2, <1>7, <2>1, <2>2, <2>4, SameRecursion
<1>11. FormSwarms(Peers, c, close) = f[N].swarms BY <1>10 DEF FormSwarms, order
<1>12. f[N] \in Accumulators
  <2> HIDE DEF A, N, step
  <2> QED BY <1>2 DEF A
<1> HIDE DEF N
<1> QED BY <1>11, <1>12 DEF Accumulators

-----------------------------------------------------------------------------
(* How members come and go                                                     *)

SameMembers(q, r) ==
  /\ DOMAIN q = DOMAIN r
  /\ \A i \in DOMAIN q : q[i].peer = r[i].peer /\ q[i].role = r[i].role

LEMMA SameMembersSame ==
  ASSUME NEW q, NEW r, SameMembers(q, r)
  PROVE  /\ DistinctPeers(r) => DistinctPeers(q)
         /\ LedFirst(r) => LedFirst(q)
         /\ ActivePlaces(q) = ActivePlaces(r)
<1>1. DistinctPeers(r) => DistinctPeers(q) BY DEF SameMembers, DistinctPeers
<1>2. LedFirst(r) => LedFirst(q) BY DEF SameMembers, LedFirst
<1>3. ActivePlaces(q) = ActivePlaces(r) BY DEF SameMembers, ActivePlaces, IsActive
<1> QED BY <1>1, <1>2, <1>3

ActivePeers(members) == {members[i].peer : i \in ActivePlaces(members)}

\* Peers are distinct, so that active places, members and peers are as many.
LEMMA ActiveCounts ==
  ASSUME NEW members \in Seq(MemberSet), DistinctPeers(members)
  PROVE  /\ IsFiniteSet(ActivePlaces(members)) /\ IsFiniteSet(ActivePeers(members))
         /\ ActivePlaces(members) \in SUBSET Nat
         /\ Cardinality(ActivePlaces(members)) \in Nat
         /\ Cardinality(ActivePeers(members)) = Cardinality(ActivePlaces(members))
         /\ Cardinality({members[i] : i \in ActivePlaces(members)}) = Cardinality(ActivePlaces(members))
         /\ Len(ActiveOf(members)) = Cardinality(ActivePlaces(members))
<1> DEFINE S == ActivePlaces(members)
           M == {members[i] : i \in S}
           n == Len(members)
<1>1. S \subseteq 1..n /\ n \in Nat BY DEF ActivePlaces
<1>2. IsFiniteSet(S) /\ S \in SUBSET Nat /\ Cardinality(S) \in Nat
  <2>1. IsFiniteSet(1..n)
    <3> HIDE DEF n
    <3>1. 1 \in Int /\ n \in Int BY <1>1
    <3> QED BY <3>1, FS_Interval
  <2>2. S \in SUBSET Nat BY <1>1
  <2> HIDE DEF S, n
  <2>3. IsFiniteSet(S) BY <1>1, <2>1, FS_Subset
  <2> QED BY <2>2, <2>3, FS_CardinalityType
<1>3. S \subseteq DOMAIN members BY DEF ActivePlaces
<1>4. IsFiniteSet(ActivePeers(members)) /\ Cardinality(ActivePeers(members)) = Cardinality(S)
  <2> DEFINE f == [i \in S |-> members[i].peer]
             T == ActivePeers(members)
  <2>1. f \in [S -> T] BY DEF ActivePeers
  <2>2. \A t \in T : \E i \in S : f[i] = t BY DEF ActivePeers
  <2>3. \A i, j \in S : f[i] = f[j] => i = j BY <1>3 DEF DistinctPeers
  <2> HIDE DEF f, T, S
  <2>4. f \in Bijection(S, T) BY <2>1, <2>2, <2>3 DEF Bijection, Injection, Surjection, IsInjective
  <2>5. ExistsBijection(S, T) BY <2>4 DEF ExistsBijection
  <2>6. IsFiniteSet(T) /\ Cardinality(T) = Cardinality(S) BY <1>2, <2>5, FS_Bijection
  <2> QED BY <2>6 DEF T
<1>5. Cardinality(M) = Cardinality(S)
  <2> DEFINE f == [i \in S |-> members[i]]
  <2>1. f \in [S -> M] OBVIOUS
  <2>2. \A t \in M : \E i \in S : f[i] = t OBVIOUS
  <2>3. \A i, j \in S : f[i] = f[j] => i = j BY <1>3 DEF DistinctPeers
  <2> HIDE DEF f, M, S
  <2>4. f \in Bijection(S, M) BY <2>1, <2>2, <2>3 DEF Bijection, Injection, Surjection, IsInjective
  <2>5. ExistsBijection(S, M) BY <2>4 DEF ExistsBijection
  <2> QED BY <1>2, <2>5, FS_Bijection
<1>6. Len(ActiveOf(members)) = Cardinality(S)
  <2>1. ActiveOf(members) = Ascending(S) BY DEF ActiveOf, ActivePlaces
  <2> DEFINE m == Cardinality(S)
             q == Ascending(S)
  <2> HIDE DEF S
  <2>2. ListsOnce(q, S) BY <1>2, AscendingLists
  <2>3. m \in Nat BY <1>2
  <2> HIDE DEF q, m
  <2>4. q \in [1..m -> S] BY <2>2 DEF ListsOnce, m
  <2>5. Len(q) = m BY <2>3, <2>4
  <2> QED BY <2>1, <2>5 DEF q, m
<1> QED BY <1>2, <1>4, <1>5, <1>6

LEMMA RedistributedSound ==
  ASSUME NEW sw \in SwarmSet, DistinctPeers(sw.members), ActivePlaces(sw.members) # {}
  PROVE  /\ Redistributed(sw) \in SwarmSet
         /\ Redistributed(sw).status = sw.status /\ Redistributed(sw).model = sw.model
         /\ SameMembers(Redistributed(sw).members, sw.members)
         /\ AllLayers(Redistributed(sw).members, LayerCounts[sw.model])
<1> DEFINE members == sw.members
           S == ActivePlaces(members)
           active == ActiveOf(members)
           layers == LayerCounts[sw.model]
           m == Cardinality(S)
           caps == [k \in DOMAIN active |-> members[active[k]].cap]
           cursor == Handed(caps, layers, 1)
           place(i) == CHOOSE k \in DOMAIN active : active[k] = i
           n == Len(members)
           new == [i \in DOMAIN members |->
             IF IsActive(members[i]) /\ cursor[place(i) - 1] < layers
             THEN [members[i] EXCEPT !.from = cursor[place(i) - 1], !.to = cursor[place(i)]]
             ELSE members[i]]
<1>1. /\ sw = [model |-> sw.model, members |-> members, status |-> sw.status]
      /\ members \in Seq(MemberSet) /\ sw.model \in Models /\ sw.status \in Statuses
  BY DEF SwarmSet
<1>2. layers \in Nat \ {0} BY <1>1, LayersArePositive
<1>3. n \in Nat /\ DOMAIN members = 1..n /\ \A i \in 1..n : members[i] \in MemberSet
  BY <1>1
<1>4. ListsOnce(active, S) /\ S \subseteq 1..n /\ IsFiniteSet(S) /\ m \in Nat
  <2>1. active = Ascending(S) BY DEF ActiveOf, ActivePlaces
  <2>2. S \in SUBSET Nat /\ IsFiniteSet(S) /\ m \in Nat
    <3>1. DistinctPeers(members) OBVIOUS
    <3> HIDE DEF members
    <3> QED BY <3>1, <1>1, ActiveCounts
  <2>3. S \subseteq 1..n BY <1>3 DEF ActivePlaces
  <2> HIDE DEF S, active
  <2> QED BY <2>1, <2>2, <2>3, AscendingLists
<1>5. m > 0
  <2> HIDE DEF S
  <2>1. S # {} BY DEF S
  <2> QED BY <1>4, <2>1, FS_EmptySet
<1>6. DOMAIN active = 1..m /\ \A k \in 1..m : active[k] \in S
  <2> HIDE DEF S, active
  <2> QED BY <1>4 DEF ListsOnce
<1>7. \A i \in S : i \in 1..n /\ IsActive(members[i]) /\ members[i].cap \in Nat \ {0}
  <2>1. \A i \in S : i \in 1..n /\ IsActive(members[i]) BY <1>3 DEF ActivePlaces
  <2> HIDE DEF S, n, members
  <2> QED BY <2>1, <1>3 DEF MemberSet
<1>8. caps \in Seq(Nat \ {0}) /\ Len(caps) = m
  <2> HIDE DEF S, active, m, members
  <2>1. caps \in [1..m -> Nat \ {0}] BY <1>6, <1>7
  <2> HIDE DEF caps
  <2> QED BY <2>1, <1>4
<1>9. Hands(cursor, m, layers)
  <2> HIDE DEF caps, m, layers
  <2> QED BY <1>2, <1>8, HandedHands
<1>10. \A k \in 0..m : cursor[k] \in Nat
  <2> HIDE DEF cursor, m, layers
  <2> QED BY <1>9, <1>2 DEF Hands
<1>11. ASSUME NEW i \in S PROVE place(i) \in 1..m /\ active[place(i)] = i
  <2> HIDE DEF S, active, m
  <2>1. \E k \in DOMAIN active : active[k] = i BY <1>4, <1>6 DEF ListsOnce, m
  <2> QED BY <2>1, <1>6
<1>12. ASSUME NEW k \in 1..m PROVE place(active[k]) = k
  <2> HIDE DEF S, active, m
  <2>1. active[k] \in S BY <1>6
  <2>2. place(active[k]) \in 1..m /\ active[place(active[k])] = active[k] BY <2>1, <1>11
  <2> HIDE DEF place
  <2> QED BY <2>2, <1>4 DEF ListsOnce, m
<1>13. Redistributed(sw) = [model |-> sw.model, members |-> new, status |-> sw.status]
  <2>1. active # <<>>
    <3> HIDE DEF active, m
    <3>1. 1 \in DOMAIN active BY <1>5, <1>6, <1>4
    <3> QED BY <3>1
  <2>2. Redistributed(sw) = [sw EXCEPT !.members = new]
    <3> HIDE DEF active
    <3>1. ~(ActiveOf(sw.members) = <<>>) BY <2>1 DEF active
    <3> QED BY <3>1 DEF Redistributed, active
  <2> HIDE DEF new
  <2> QED BY <2>2, <1>1
<1> HIDE DEF active, S, m, caps, layers
<1>14. ASSUME NEW i \in 1..n
       PROVE  /\ new[i] \in MemberSet
              /\ new[i].peer = members[i].peer /\ new[i].role = members[i].role
  <2>1. PICK mem \in MemberSet : mem = members[i] BY <1>3
  <2>2. CASE IsActive(members[i]) /\ cursor[place(i) - 1] < layers
    <3>1. i \in S BY <2>2, <1>3 DEF S, ActivePlaces
    <3>2. place(i) \in 1..m BY <3>1, <1>11
    <3>3. PICK a \in Nat : a = cursor[place(i) - 1]
      <4>1. place(i) - 1 \in 0..m BY <3>2, <1>4
      <4> HIDE DEF cursor, place
      <4> QED BY <4>1, <1>10
    <3>4. PICK b \in Nat : b = cursor[place(i)]
      <4>1. place(i) \in 0..m BY <3>2, <1>4
      <4> HIDE DEF cursor, place
      <4> QED BY <4>1, <1>10
    <3>5. new[i] = [mem EXCEPT !.from = a, !.to = b]
      <4> HIDE DEF cursor, place, n
      <4> QED BY <2>1, <2>2, <3>3, <3>4, <1>3
    <3> HIDE DEF new
    <3>6. new[i] = [peer |-> mem.peer, role |-> mem.role, cap |-> mem.cap, from |-> a, to |-> b]
      BY <3>5 DEF MemberSet
    <3> QED BY <3>6, <2>1 DEF MemberSet
  <2>3. CASE ~(IsActive(members[i]) /\ cursor[place(i) - 1] < layers)
    <3>1. new[i] = members[i]
      <4> HIDE DEF cursor, place, n
      <4> QED BY <2>3, <1>3
    <3> QED BY <3>1, <2>1
  <2> QED BY <2>2, <2>3
<1>15. DOMAIN new = 1..n /\ new \in Seq(MemberSet)
  <2>1. DOMAIN new = 1..n /\ new = [i \in 1..n |-> new[i]]
    <3> HIDE DEF cursor, place, n
    <3> QED BY <1>3
  <2> HIDE DEF new, n
  <2>2. new \in [1..n -> MemberSet] BY <2>1, <1>14
  <2> QED BY <2>1, <2>2, <1>3
<1>16. SameMembers(new, members)
  <2> HIDE DEF new
  <2> QED BY <1>3, <1>14, <1>15 DEF SameMembers
<1>17. ASSUME NEW l \in 0..layers - 1
       PROVE  \E i \in 1..n : IsActive(new[i]) /\ new[i].from <= l /\ l < new[i].to
  <2>1. PICK k \in 1..m : cursor[k - 1] <= l /\ l < cursor[k]
    <3>1. m \in Nat \ {0} BY <1>4, <1>5
    <3> HIDE DEF cursor
    <3> QED BY <3>1, <1>2, <1>9, HandsCover
  <2>2. PICK i \in S : i = active[k] /\ place(i) = k BY <1>6, <1>12
  <2>3. i \in 1..n /\ IsActive(members[i]) BY <1>7
  <2>4. cursor[k - 1] < layers
    <3>1. k - 1 \in 0..m BY <1>4
    <3> HIDE DEF cursor
    <3>2. cursor[k - 1] \in Nat BY <3>1, <1>10
    <3> QED BY <2>1, <3>2, <1>2
  <2>5. new[i] = [members[i] EXCEPT !.from = cursor[k - 1], !.to = cursor[k]]
    <3> HIDE DEF cursor, place, n
    <3> QED BY <2>2, <2>3, <2>4, <1>3
  <2>6. IsActive(new[i])
    <3> HIDE DEF new
    <3> QED BY <2>3, <1>14 DEF IsActive
  <2>7. new[i].from = cursor[k - 1] /\ new[i].to = cursor[k]
    <3>1. PICK mem \in MemberSet : mem = members[i] BY <2>3, <1>3
    <3>2. PICK a, b : a = cursor[k - 1] /\ b = cursor[k] OBVIOUS
    <3> HIDE DEF new, cursor
    <3>3. new[i] = [mem EXCEPT !.from = a, !.to = b] BY <2>5, <3>1, <3>2
    <3>4. new[i].from = a /\ new[i].to = b BY <3>3 DEF MemberSet
    <3> QED BY <3>2, <3>4
  <2> HIDE DEF new, cursor
  <2> QED BY <2>1, <2>3, <2>6, <2>7
<1> HIDE DEF new
<1>18. AllLayers(new, layers) BY <1>15, <1>17 DEF AllLayers
<1>19. [model |-> sw.model, members |-> new, status |-> sw.status] \in SwarmSet
  BY <1>1, <1>15 DEF SwarmSet
<1> QED BY <1>13, <1>16, <1>18, <1>19 DEF layers

LEMMA RemoveAtPlaces ==
  ASSUME NEW S, NEW q \in Seq(S), NEW g \in 1..Len(q)
  PROVE  /\ RemoveAt(q, g) \in Seq(S) /\ Len(RemoveAt(q, g)) = Len(q) - 1
         /\ \A i \in 1..Len(q) - 1 : RemoveAt(q, g)[i] = IF i < g THEN q[i] ELSE q[i + 1]
<1> DEFINE n == Len(q)
           a == SubSeq(q, 1, g - 1)
           b == SubSeq(q, g + 1, n)
<1>1. n \in Nat /\ g \in 1..n /\ \A i \in 1..n : q[i] \in S OBVIOUS
<1>2. a \in Seq(S) /\ Len(a) = g - 1 /\ \A i \in 1..g - 1 : a[i] = q[i]
  <2> HIDE DEF n
  <2>1. 1 \in Int /\ g - 1 \in Int /\ \A i \in 1..g - 1 : q[i] \in S BY <1>1
  <2>2. /\ a \in Seq(S) /\ Len(a) = IF 1 <= g - 1 THEN (g - 1) - 1 + 1 ELSE 0
        /\ \A i \in 1..(g - 1) - 1 + 1 : a[i] = q[1 + i - 1]
    BY <2>1, SubSeqProperties
  <2> HIDE DEF a
  <2> QED BY <2>2, <1>1
<1>3. b \in Seq(S) /\ Len(b) = n - g /\ \A i \in 1..n - g : b[i] = q[g + i]
  <2> HIDE DEF n
  <2>1. g + 1 \in Int /\ n \in Int /\ \A i \in (g + 1)..n : q[i] \in S BY <1>1
  <2>2. /\ b \in Seq(S) /\ Len(b) = IF g + 1 <= n THEN n - (g + 1) + 1 ELSE 0
        /\ \A i \in 1..n - (g + 1) + 1 : b[i] = q[(g + 1) + i - 1]
    BY <2>1, SubSeqProperties
  <2> HIDE DEF b
  <2>3. Len(b) = n - g BY <2>2, <1>1
  <2>4. \A i \in 1..n - g : i \in 1..n - (g + 1) + 1 /\ (g + 1) + i - 1 = g + i BY <1>1
  <2> QED BY <2>2, <2>3, <2>4
<1>4. RemoveAt(q, g) = a \o b BY DEF RemoveAt
<1> HIDE DEF a, b, n
<1>5. /\ a \o b \in Seq(S) /\ Len(a \o b) = Len(a) + Len(b)
      /\ \A i \in 1..Len(a) + Len(b) : (a \o b)[i] = IF i <= Len(a) THEN a[i] ELSE b[i - Len(a)]
  BY <1>2, <1>3, ConcatProperties
<1>6. Len(a) + Len(b) = n - 1 BY <1>1, <1>2, <1>3
<1>7. ASSUME NEW i \in 1..n - 1
      PROVE  (a \o b)[i] = IF i < g THEN q[i] ELSE q[i + 1]
  <2>1. (a \o b)[i] = IF i <= Len(a) THEN a[i] ELSE b[i - Len(a)] BY <1>5, <1>6
  <2>2. CASE i < g
    <3>1. i <= Len(a) /\ i \in 1..g - 1 BY <2>2, <1>1, <1>2
    <3> QED BY <3>1, <2>1, <2>2, <1>2
  <2>3. CASE ~(i < g)
    <3>1. ~(i <= Len(a)) /\ i - Len(a) \in 1..n - g /\ g + (i - Len(a)) = i + 1
      BY <2>3, <1>1, <1>2
    <3> QED BY <3>1, <2>1, <2>3, <1>3
  <2> QED BY <2>2, <2>3
<1> QED BY <1>4, <1>5, <1>6, <1>7 DEF n

\* The first place of a kind, and 0 when there is none.
LEMMA FirstStandby ==
  ASSUME NEW members \in Seq(MemberSet), NEW first,
         first = SelectInSeq(members, LAMBDA m : m.role = "standby")
  PROVE  \/ first = 0 /\ NoStandby(members)
         \/ /\ first \in 1..Len(members) /\ members[first].role = "standby"
            /\ \A i \in 1..Len(members) : i < first => members[i].role # "standby"
<1> DEFINE I == {i \in 1..Len(members) : members[i].role = "standby"}
<1>1. first = IF I # {} THEN Min(I) ELSE 0 BY DEF SelectInSeq
<1>2. DOMAIN members = 1..Len(members) OBVIOUS
<1>3. CASE I = {} BY <1>1, <1>2, <1>3 DEF NoStandby
<1>4. CASE I # {}
  <2>1. I \subseteq Nat OBVIOUS
  <2>2. \A i \in 1..Len(members) : i \in I <=> members[i].role = "standby" OBVIOUS
  <2>3. I \subseteq 1..Len(members) OBVIOUS
  <2> HIDE DEF I
  <2>4. \E x \in I : \A y \in I : x <= y BY <1>4, <2>1, LeastNat
  <2>5. first = CHOOSE x \in I : \A y \in I : x <= y BY <1>1, <1>4 DEF Min
  <2>6. first \in I /\ \A y \in I : first <= y BY <2>4, <2>5
  <2>7. \A i \in 1..Len(members) : i < first => i \notin I BY <2>1, <2>6
  <2> QED BY <2>2, <2>3, <2>6, <2>7
<1> QED BY <1>3, <1>4

LEMMA PlaceOfPeer ==
  ASSUME NEW members \in Seq(MemberSet), NEW p, NEW place,
         place = IF {i \in 1..Len(members) : members[i].peer = p} # {}
                 THEN Min({i \in 1..Len(members) : members[i].peer = p}) ELSE 0
  PROVE  \/ place = 0 /\ \A i \in 1..Len(members) : members[i].peer # p
         \/ place \in 1..Len(members) /\ members[place].peer = p
<1> DEFINE I == {i \in 1..Len(members) : members[i].peer = p}
<1>1. place = IF I # {} THEN Min(I) ELSE 0 OBVIOUS
<1>2. CASE I = {} BY <1>1, <1>2
<1>3. CASE I # {}
  <2>1. I \subseteq Nat OBVIOUS
  <2>2. \A i \in I : i \in 1..Len(members) /\ members[i].peer = p OBVIOUS
  <2> HIDE DEF I
  <2>3. \E x \in I : \A y \in I : x <= y BY <1>3, <2>1, LeastNat
  <2>4. place = CHOOSE x \in I : \A y \in I : x <= y BY <1>1, <1>3 DEF Min
  <2>5. place \in I BY <2>3, <2>4
  <2> QED BY <2>2, <2>5
<1> QED BY <1>2, <1>3

LEMMA FunctionIsSeq ==
  ASSUME NEW S, NEW n \in Nat, NEW q \in [1..n -> S]
  PROVE  q \in Seq(S) /\ Len(q) = n
OBVIOUS

\* Where the member at place i was before the one at `gone` was removed, and
\* where the one at place j is after it.
OldPlace(i, gone) == IF gone = 0 \/ i < gone THEN i ELSE i + 1
NewPlace(j, gone) == IF gone = 0 \/ j < gone THEN j ELSE j - 1

RestOf(members, gone) == IF gone = 0 THEN members ELSE RemoveAt(members, gone)
FirstToPromote(members, standby) ==
  /\ standby \in 1..Len(members) /\ members[standby].role = "standby"
  /\ \A i \in 1..Len(members) : i < standby => members[i].role # "standby"
Promoted(rest, next) ==
  [rest EXCEPT ![next].role = IF Leads(rest) THEN "worker" ELSE "leader"]
Led(rest) == IF Leads(rest) \/ rest = <<>> THEN rest ELSE [rest EXCEPT ![1].role = "leader"]

LEMMA RestPlaces ==
  ASSUME NEW members \in Seq(MemberSet), DistinctPeers(members), NEW gone \in 0..Len(members)
  PROVE  /\ RestOf(members, gone) \in Seq(MemberSet)
         /\ Len(RestOf(members, gone)) = IF gone = 0 THEN Len(members) ELSE Len(members) - 1
         /\ \A i \in 1..Len(RestOf(members, gone)) :
              /\ OldPlace(i, gone) \in 1..Len(members)
              /\ RestOf(members, gone)[i] = members[OldPlace(i, gone)]
         /\ \A j \in 1..Len(members) : j # gone =>
              /\ NewPlace(j, gone) \in 1..Len(RestOf(members, gone))
              /\ OldPlace(NewPlace(j, gone), gone) = j
              /\ RestOf(members, gone)[NewPlace(j, gone)] = members[j]
         /\ DistinctPeers(RestOf(members, gone))
<1> DEFINE rest == RestOf(members, gone)
           n == Len(members)
           k == Len(rest)
<1>1. n \in Nat /\ DOMAIN members = 1..n OBVIOUS
<1>2. /\ rest \in Seq(MemberSet) /\ k = IF gone = 0 THEN n ELSE n - 1
      /\ \A i \in 1..k : OldPlace(i, gone) \in 1..n /\ rest[i] = members[OldPlace(i, gone)]
  <2>1. CASE gone = 0 BY <2>1 DEF RestOf, OldPlace
  <2>2. CASE gone # 0
    <3>1. gone \in 1..n /\ rest = RemoveAt(members, gone) BY <2>2 DEF RestOf
    <3> HIDE DEF rest
    <3>2. /\ rest \in Seq(MemberSet) /\ k = n - 1
          /\ \A i \in 1..n - 1 : rest[i] = IF i < gone THEN members[i] ELSE members[i + 1]
      BY <3>1, RemoveAtPlaces
    <3> HIDE DEF n, k
    <3>3. ASSUME NEW i \in 1..k
          PROVE OldPlace(i, gone) \in 1..n /\ rest[i] = members[OldPlace(i, gone)]
      BY <3>1, <3>2, <1>1, <2>2 DEF OldPlace
    <3> QED BY <2>2, <3>2, <3>3
  <2> QED BY <2>1, <2>2
<1>3. k \in Nat /\ DOMAIN rest = 1..k BY <1>2
<1> HIDE DEF rest, n, k
<1>4. ASSUME NEW j \in 1..n, j # gone
      PROVE  /\ NewPlace(j, gone) \in 1..k
             /\ OldPlace(NewPlace(j, gone), gone) = j
             /\ rest[NewPlace(j, gone)] = members[j]
  <2>1. gone \in 0..n BY DEF n
  <2>2. NewPlace(j, gone) \in 1..k /\ OldPlace(NewPlace(j, gone), gone) = j
    BY <1>1, <1>2, <1>3, <1>4, <2>1 DEF NewPlace, OldPlace
  <2> QED BY <2>2, <1>2
<1>5. DistinctPeers(rest)
  <2>1. SUFFICES ASSUME NEW i \in 1..k, NEW j \in 1..k, rest[i].peer = rest[j].peer
                 PROVE  i = j
    BY <1>3 DEF DistinctPeers
  <2>4. \A a, b \in 1..n : members[a].peer = members[b].peer => a = b
    BY <1>1 DEF DistinctPeers
  <2>2. OldPlace(i, gone) = OldPlace(j, gone)
    <3>1. /\ OldPlace(i, gone) \in 1..n /\ rest[i] = members[OldPlace(i, gone)]
          /\ OldPlace(j, gone) \in 1..n /\ rest[j] = members[OldPlace(j, gone)]
      BY <1>2
    <3>2. members[OldPlace(i, gone)].peer = members[OldPlace(j, gone)].peer
      BY ONLY <3>1, <2>1
    <3> QED BY ONLY <3>1, <3>2, <2>4
  <2>3. gone \in 0..n BY DEF n
  <2> QED BY <2>2, <2>3, <1>1, <1>3 DEF OldPlace
<1> QED BY <1>2, <1>4, <1>5 DEF rest, n, k

\* A standby is promoted in place of the member that left, or one more.
LEMMA PromotedSound ==
  ASSUME NEW members \in Seq(MemberSet), DistinctPeers(members), LedFirst(members),
         NEW standby, FirstToPromote(members, standby),
         NEW gone \in 0..Len(members),
         NEW next, next = Shifted(standby, gone), next <= Len(RestOf(members, gone)),
         NEW new, new = Promoted(RestOf(members, gone), next)
  PROVE  /\ new \in Seq(MemberSet) /\ DistinctPeers(new) /\ LedFirst(new)
         /\ ActivePlaces(new) # {}
         /\ \A i \in DOMAIN new : \E j \in DOMAIN members : new[i].peer = members[j].peer
         /\ Cardinality(ActivePlaces(members)) >= MinSwarm
              => Cardinality(ActivePlaces(new)) >= MinSwarm
<1> DEFINE rest == RestOf(members, gone)
           n == Len(members)
           k == Len(rest)
           Old(i) == OldPlace(i, gone)
           New(j) == NewPlace(j, gone)
<1>0. /\ standby \in 1..n /\ members[standby].role = "standby"
      /\ \A i \in 1..n : i < standby => members[i].role # "standby"
  BY DEF FirstToPromote
<1>1. n \in Nat /\ DOMAIN members = 1..n /\ standby \in 1..n /\ gone \in 0..n
      /\ \A i \in 1..n : members[i] \in MemberSet
  BY <1>0
<1>2. /\ rest \in Seq(MemberSet) /\ k = IF gone = 0 THEN n ELSE n - 1
      /\ \A i \in 1..k : Old(i) \in 1..n /\ rest[i] = members[Old(i)]
      /\ \A j \in 1..n : j # gone => New(j) \in 1..k /\ Old(New(j)) = j /\ rest[New(j)] = members[j]
      /\ DistinctPeers(rest)
  BY RestPlaces
<1>3. k \in Nat /\ DOMAIN rest = 1..k /\ \A i \in 1..k : rest[i] \in MemberSet BY <1>2
<1>4. next <= k /\ next = IF gone # 0 /\ gone < standby THEN standby - 1 ELSE standby
  BY DEF Shifted
<1>5. PICK role \in {"worker", "leader"} : role = IF Leads(rest) THEN "worker" ELSE "leader"
  OBVIOUS
<1>6. new = [rest EXCEPT ![next].role = role] BY <1>5 DEF Promoted
<1>7. PICK L \in 1..n : /\ members[L].role = "leader"
                        /\ \A j \in 1..n : /\ members[j].role = "leader" => j = L
                                           /\ j < L => members[j].role # "standby"
  BY <1>1 DEF LedFirst
<1>8. L < standby
  <2>1. L # standby BY <1>0, <1>7
  <2>2. ~(standby < L) BY <1>0, <1>1, <1>7
  <2> QED BY <2>1, <2>2, <1>1
<1> HIDE DEF rest, n, k
<1>9. next \in 1..k
  <2>1. standby >= 1 /\ (gone # 0 /\ gone < standby => standby >= 2) BY <1>1
  <2> QED BY <2>1, <1>1, <1>3, <1>4
<1>10. \A i \in 1..k : /\ new[i].peer = rest[i].peer
                       /\ new[i].role = IF i = next THEN role ELSE rest[i].role
                       /\ new[i] \in MemberSet
  <2>1. ASSUME NEW i \in 1..k
        PROVE  /\ new[i].peer = rest[i].peer
               /\ new[i].role = IF i = next THEN role ELSE rest[i].role
               /\ new[i] \in MemberSet
    <3>1. PICK m \in MemberSet : m = rest[i] BY <1>3
    <3>2. CASE i = next
      <4>1. new[i] = [m EXCEPT !.role = role] BY <1>3, <1>6, <1>9, <3>1, <3>2
      <4>2. role \in Roles BY DEF Roles
      <4>3. new[i] = [peer |-> m.peer, role |-> role, cap |-> m.cap, from |-> m.from, to |-> m.to]
        BY <4>1 DEF MemberSet
      <4>4. new[i].peer = m.peer /\ new[i].role = role BY <4>3
      <4>5. new[i] \in MemberSet BY <4>2, <4>3 DEF MemberSet
      <4> QED BY <4>4, <4>5, <3>1, <3>2
    <3>3. CASE i # next
      <4>1. new[i] = m BY <1>3, <1>6, <1>9, <3>1, <3>3
      <4> QED BY <4>1, <3>1, <3>3
    <3> QED BY <3>2, <3>3
  <2> QED BY <2>1
<1>11. DOMAIN new = 1..k /\ new \in Seq(MemberSet)
  <2>1. DOMAIN new = 1..k BY <1>3, <1>6
  <2>2. new = [i \in 1..k |-> new[i]] BY <1>3, <1>6
  <2>3. new \in [1..k -> MemberSet] BY <2>2, <1>10
  <2>4. new \in Seq(MemberSet) BY <2>3, <1>3, FunctionIsSeq
  <2> QED BY <2>1, <2>4
<1>12. DistinctPeers(new) BY <1>2, <1>3, <1>10, <1>11 DEF DistinctPeers
<1>13. \A i \in DOMAIN new : \E j \in DOMAIN members : new[i].peer = members[j].peer
  <2>1. ASSUME NEW i \in 1..k PROVE new[i].peer = members[Old(i)].peer /\ Old(i) \in DOMAIN members
    BY <1>1, <1>2, <1>10
  <2> QED BY <2>1, <1>11
\* The promoted one was not before the first standby.
<1>14. Old(next) >= standby /\ (gone # standby => Old(next) = standby)
  BY <1>1, <1>4, <1>9 DEF OldPlace
<1>15. LedFirst(new)
  <2>1. CASE gone # L
    <3> DEFINE M == New(L)
    <3>1. M \in 1..k /\ Old(M) = L /\ rest[M] = members[L] BY <2>1, <1>2
    <3>2. Leads(rest) BY <3>1, <1>3, <1>7 DEF Leads
    <3>3. role = "worker" BY <3>2, <1>5
    <3>4. M < next
      <4> HIDE DEF M
      <4>1. Old(M) < Old(next) BY <3>1, <1>8, <1>14, <1>1, <1>2, <1>9
      <4> QED BY <4>1, <3>1, <1>3, <1>9, <1>1 DEF OldPlace
    <3>5. new[M].role = "leader"
      <4> HIDE DEF M
      <4> QED BY <3>1, <3>4, <1>3, <1>7, <1>9, <1>10
    <3>6. ASSUME NEW j \in 1..k
          PROVE  /\ new[j].role = "leader" => j = M
                 /\ j < M => new[j].role # "standby"
      <4> HIDE DEF M
      <4>1. Old(j) \in 1..n /\ rest[j] = members[Old(j)] BY <1>2
      <4>2. ASSUME new[j].role = "leader" PROVE j = M
        <5>1. rest[j].role = "leader" BY <4>2, <3>3, <1>10
        <5>2. Old(j) = Old(M) BY <5>1, <4>1, <1>7, <3>1
        <5> QED BY <5>2, <3>1, <1>1, <1>3 DEF OldPlace
      <4>3. ASSUME j < M PROVE new[j].role # "standby"
        <5>1. Old(j) < Old(M) BY <4>3, <3>1, <1>1, <1>3 DEF OldPlace
        <5>2. rest[j].role # "standby" BY <5>1, <4>1, <1>7, <3>1
        <5> QED BY <5>2, <3>3, <1>10
      <4> QED BY <4>2, <4>3
    <3> HIDE DEF M
    <3> QED BY <3>1, <3>5, <3>6, <1>11 DEF LedFirst
  <2>2. CASE gone = L
    <3>1. \A j \in 1..k : Old(j) # L BY <2>2, <1>1, <1>3, <1>7 DEF OldPlace
    <3>2. \A j \in 1..k : rest[j].role # "leader" BY <3>1, <1>2, <1>7
    <3>3. role = "leader" BY <3>2, <1>3, <1>5 DEF Leads
    <3>4. new[next].role = "leader" BY <3>3, <1>9, <1>10
    <3>5. Old(next) = standby BY <2>2, <1>8, <1>14, <1>1, <1>7
    <3>6. ASSUME NEW j \in 1..k
          PROVE  /\ new[j].role = "leader" => j = next
                 /\ j < next => new[j].role # "standby"
      <4>1. Old(j) \in 1..n /\ rest[j] = members[Old(j)] BY <1>2
      <4>2. ASSUME j < next PROVE new[j].role # "standby"
        <5>1. Old(j) < standby BY <4>2, <3>5, <1>1, <1>3, <1>9 DEF OldPlace
        <5>2. rest[j].role # "standby" BY <5>1, <4>1, <1>0
        <5>3. j # next BY <4>2, <1>3, <1>9
        <5> QED BY <5>2, <5>3, <1>10
      <4> QED BY <4>2, <3>2, <1>10
    <3> QED BY <3>4, <3>6, <1>9, <1>11 DEF LedFirst
  <2> QED BY <2>1, <2>2
<1>16. next \in ActivePlaces(new) BY <1>5, <1>9, <1>10, <1>11 DEF ActivePlaces, IsActive
<1>17. ASSUME Cardinality(ActivePlaces(members)) >= MinSwarm
       PROVE  Cardinality(ActivePlaces(new)) >= MinSwarm
  <2> DEFINE P == ActivePeers(members)
             Q == ActivePeers(new)
  <2>1. /\ IsFiniteSet(P) /\ Cardinality(P) = Cardinality(ActivePlaces(members))
        /\ Cardinality(P) \in Nat
    BY ActiveCounts
  <2>2. /\ IsFiniteSet(Q) /\ Cardinality(Q) = Cardinality(ActivePlaces(new))
        /\ Cardinality(Q) \in Nat
    BY <1>11, <1>12, ActiveCounts
  <2>3. ASSUME NEW j \in 1..n, IsActive(members[j]), j # gone PROVE members[j].peer \in Q
    <3>1. New(j) \in 1..k /\ rest[New(j)] = members[j] BY <2>3, <1>2
    <3>2. new[New(j)].peer = members[j].peer /\ IsActive(new[New(j)])
      BY <3>1, <2>3, <1>10, <1>5 DEF IsActive
    <3> QED BY <3>1, <3>2, <1>11 DEF ActivePeers, ActivePlaces
  <2>4. \A q \in P : \E j \in 1..n : IsActive(members[j]) /\ q = members[j].peer
    BY <1>1 DEF ActivePeers, ActivePlaces
  <2>5. CASE gone = 0 \/ ~IsActive(members[gone])
    <3>1. P \subseteq Q
      <4>1. ASSUME NEW q \in P PROVE q \in Q
        <5>1. PICK j \in 1..n : IsActive(members[j]) /\ q = members[j].peer BY <2>4
        <5>2. j # gone BY <5>1, <2>5, <1>1
        <5> QED BY <5>1, <5>2, <2>3
      <4> QED BY <4>1
    <3> HIDE DEF P, Q
    <3>2. Cardinality(P) <= Cardinality(Q) BY <3>1, <2>2, FS_Subset
    <3>3. MinSwarm \in Nat BY FormationAssumption
    <3> QED BY <3>2, <3>3, <2>1, <2>2, <1>17
  <2>6. CASE gone # 0 /\ IsActive(members[gone])
    <3> DEFINE g == members[gone].peer
               s == members[standby].peer
    <3>0. gone \in 1..n BY <2>6, <1>1
    <3>1. gone # standby BY <2>6, <1>0 DEF IsActive
    <3>2. Old(next) = standby BY <3>1, <1>14
    <3>3. s \in Q
      <4>2. rest[next] = members[standby] BY <3>2, <1>2, <1>9
      <4>3. new[next].peer = rest[next].peer BY <1>9, <1>10
      <4>1. new[next].peer = s BY <4>2, <4>3
      <4> QED BY <4>1, <1>16 DEF ActivePeers
    <3>4. s \notin P
      <4>1. SUFFICES ASSUME s \in P PROVE FALSE
        OBVIOUS
      <4>2. PICK j \in 1..n : IsActive(members[j]) /\ s = members[j].peer BY <4>1, <2>4
      <4>3. j = standby BY <4>2, <1>1 DEF DistinctPeers
      <4> QED BY <4>2, <4>3, <1>0 DEF IsActive
    <3>5. P \ {g} \subseteq Q BY <2>3, <2>4
    <3>6. g \in P BY <3>0, <2>6, <1>1 DEF ActivePeers, ActivePlaces
    <3> HIDE DEF P, Q, g, s
    <3>7. IsFiniteSet(P \ {g}) /\ Cardinality(P \ {g}) = Cardinality(P) - 1
      BY <2>1, <3>6, FS_RemoveElement
    <3> DEFINE D == P \ {g}
    <3>8. s \notin D BY <3>4
    <3>9. Cardinality(D \cup {s}) = Cardinality(D) + 1
      <4>1. IsFiniteSet(D) BY <3>7
      <4> HIDE DEF D
      <4> QED BY <4>1, <3>8, FS_AddElement
    <3>10. D \cup {s} \subseteq Q BY <3>3, <3>5
    <3>11. Cardinality(D \cup {s}) <= Cardinality(Q)
      <4> HIDE DEF D
      <4> QED BY <3>10, <2>2, FS_Subset
    <3>12. MinSwarm \in Nat BY FormationAssumption
    <3> QED BY <3>7, <3>9, <3>11, <3>12, <2>1, <2>2, <1>17
  <2> QED BY <2>5, <2>6
<1> QED BY <1>11, <1>12, <1>13, <1>15, <1>16, <1>17

\* A redistribution keeps members and their places, and so what was sound.
LEMMA RedistributedKeeps ==
  ASSUME NEW sw \in SwarmSet, DistinctPeers(sw.members), LedFirst(sw.members),
         ActivePlaces(sw.members) # {}, sw.status # "disbanded"
  PROVE  /\ Redistributed(sw) \in SoundSwarms
         /\ Redistributed(sw).status = sw.status
         /\ PeersOf(Redistributed(sw)) = PeersOf(sw)
         /\ ActivePlaces(Redistributed(sw).members) = ActivePlaces(sw.members)
<1> DEFINE r == Redistributed(sw)
<1>1. /\ r \in SwarmSet /\ r.status = sw.status /\ r.model = sw.model
      /\ SameMembers(r.members, sw.members)
      /\ AllLayers(r.members, LayerCounts[sw.model])
  BY RedistributedSound
<1> HIDE DEF r
<1>2. DistinctPeers(r.members) /\ LedFirst(r.members)
      /\ ActivePlaces(r.members) = ActivePlaces(sw.members)
  BY <1>1, SameMembersSame
<1>3. r \in SoundSwarms BY <1>1, <1>2 DEF SoundSwarms, InServiceOrNot
<1>4. PeersOf(r) = PeersOf(sw) BY <1>1 DEF PeersOf, SameMembers
<1> QED BY <1>1, <1>2, <1>3, <1>4 DEF r

\* No standby takes the place of the member that left.
LEMMA LedSound ==
  ASSUME NEW members \in Seq(MemberSet), DistinctPeers(members),
         NEW gone \in 0..Len(members), NoStandby(RestOf(members, gone)),
         NEW led, led = Led(RestOf(members, gone))
  PROVE  /\ led \in Seq(MemberSet) /\ DistinctPeers(led) /\ NoStandby(led)
         /\ \A i \in DOMAIN led : \E j \in DOMAIN members : led[i].peer = members[j].peer
         /\ led # <<>> /\ (Leads(RestOf(members, gone)) => LedFirst(members)) => LedFirst(led)
         /\ NoStandby(members) => Cardinality(ActivePlaces(led)) <= Cardinality(ActivePlaces(members))
<1> DEFINE rest == RestOf(members, gone)
           n == Len(members)
           k == Len(rest)
           Old(i) == OldPlace(i, gone)
<1>1. n \in Nat /\ DOMAIN members = 1..n /\ gone \in 0..n OBVIOUS
<1>2. /\ rest \in Seq(MemberSet) /\ k = IF gone = 0 THEN n ELSE n - 1
      /\ \A i \in 1..k : Old(i) \in 1..n /\ rest[i] = members[Old(i)]
      /\ DistinctPeers(rest)
  BY RestPlaces
<1>3. k \in Nat /\ DOMAIN rest = 1..k /\ \A i \in 1..k : rest[i] \in MemberSet BY <1>2
<1>4. \A i \in 1..k : rest[i].role # "standby" BY <1>3 DEF NoStandby
<1>5. rest = <<>> <=> k = 0
  <2> HIDE DEF rest
  <2>1. Len(<<>>) = 0 OBVIOUS
  <2>2. rest # <<>> => Len(rest) # 0 BY <1>2, EmptySeq
  <2> QED BY <2>1, <2>2
<1> HIDE DEF rest, n, k
<1>6. /\ DOMAIN led = 1..k /\ led \in Seq(MemberSet)
      /\ \A i \in 1..k : /\ led[i].peer = rest[i].peer /\ led[i] \in MemberSet
                         /\ led[i].role = IF i = 1 /\ ~Leads(rest) THEN "leader" ELSE rest[i].role
  <2>1. CASE Leads(rest) \/ rest = <<>>
    <3>1. led = rest BY <2>1 DEF rest, Led
    <3>2. \A i \in 1..k : i # 1 \/ Leads(rest) BY <2>1, <1>3, <1>5
    <3> QED BY <3>1, <3>2, <1>2, <1>3
  <2>2. CASE ~(Leads(rest) \/ rest = <<>>)
    <3>1. led = [rest EXCEPT ![1].role = "leader"] BY <2>2 DEF rest, Led
    <3>2. 1 \in 1..k BY <2>2, <1>3, <1>5
    <3>3. ASSUME NEW i \in 1..k
          PROVE  /\ led[i].peer = rest[i].peer /\ led[i] \in MemberSet
                 /\ led[i].role = IF i = 1 /\ ~Leads(rest) THEN "leader" ELSE rest[i].role
      <4>1. PICK m \in MemberSet : m = rest[i] BY <1>3
      <4>2. CASE i = 1
        <5>1. led[i] = [m EXCEPT !.role = "leader"] BY <3>1, <3>2, <1>3, <4>1, <4>2
        <5>2. "leader" \in Roles BY DEF Roles
        <5>3. led[i] = [peer |-> m.peer, role |-> "leader", cap |-> m.cap, from |-> m.from, to |-> m.to]
          BY <5>1 DEF MemberSet
        <5>4. led[i].peer = m.peer /\ led[i].role = "leader" BY <5>3
        <5>5. led[i] \in MemberSet BY <5>2, <5>3 DEF MemberSet
        <5> QED BY <5>4, <5>5, <4>1, <4>2, <2>2
      <4>3. CASE i # 1
        <5>1. led[i] = m BY <3>1, <1>3, <4>1, <4>3
        <5> QED BY <5>1, <4>1, <4>3
      <4> QED BY <4>2, <4>3
    <3>4. DOMAIN led = 1..k /\ led = [i \in 1..k |-> led[i]] BY <3>1, <1>3
    <3>5. led \in [1..k -> MemberSet] BY <3>3, <3>4
    <3>6. led \in Seq(MemberSet) BY <3>5, <1>3, FunctionIsSeq
    <3> QED BY <3>3, <3>4, <3>6
  <2> QED BY <2>1, <2>2
<1>7. DistinctPeers(led)
  <2>1. \A i, j \in 1..k : rest[i].peer = rest[j].peer => i = j
    BY <1>2, <1>3 DEF DistinctPeers
  <2>2. \A i, j \in 1..k : led[i].peer = led[j].peer => i = j BY <2>1, <1>6
  <2>3. DOMAIN led = 1..k BY <1>6
  <2> QED BY <2>2, <2>3 DEF DistinctPeers
<1>8. NoStandby(led) BY <1>4, <1>6 DEF NoStandby
<1>9. ASSUME NEW i \in 1..k PROVE led[i].peer = members[Old(i)].peer /\ Old(i) \in DOMAIN members
  BY <1>1, <1>2, <1>6
<1>10. \A i \in DOMAIN led : \E j \in DOMAIN members : led[i].peer = members[j].peer
  BY <1>6, <1>9
<1>11. ASSUME led # <<>>, Leads(rest) => LedFirst(members) PROVE LedFirst(led)
  <2>1. k # 0
    <3>1. Len(led) = k BY <1>6, <1>3
    <3> QED BY <3>1, <1>6, <1>11
  <2>2. CASE Leads(rest)
    <3>1. PICK M \in 1..k : rest[M].role = "leader" BY <2>2, <1>3 DEF Leads
    <3>2. PICK L \in 1..n : \A j \in 1..n : members[j].role = "leader" => j = L
      BY <2>2, <1>11, <1>1 DEF LedFirst
    <3>3. \A i \in 1..k : rest[i].role = "leader" => Old(i) = L BY <3>2, <1>2
    <3>4. \A i \in 1..k : rest[i].role = "leader" => i = M
      BY <3>1, <3>3, <1>1, <1>3 DEF OldPlace
    <3>5. \A i \in 1..k : led[i].role = rest[i].role BY <2>2, <1>6
    <3> QED BY <3>1, <3>4, <3>5, <1>4, <1>6 DEF LedFirst
  <2>3. CASE ~Leads(rest)
    <3>1. \A i \in 1..k : rest[i].role # "leader" BY <2>3, <1>3 DEF Leads
    <3>2. 1 \in 1..k /\ led[1].role = "leader" BY <2>1, <2>3, <1>3, <1>6
    <3>3. \A i \in 1..k : led[i].role = "leader" => i = 1 BY <3>1, <1>6
    <3>4. \A i \in 1..k : led[i].role # "standby" BY <1>6, <1>8 DEF NoStandby
    <3> QED BY <3>2, <3>3, <3>4, <1>6 DEF LedFirst
  <2> QED BY <2>2, <2>3
<1>12. ASSUME NoStandby(members)
       PROVE  Cardinality(ActivePlaces(led)) <= Cardinality(ActivePlaces(members))
  <2> DEFINE P == ActivePeers(members)
             Q == ActivePeers(led)
  <2>1. IsFiniteSet(P) /\ Cardinality(P) = Cardinality(ActivePlaces(members)) BY ActiveCounts
  <2>2. Cardinality(Q) = Cardinality(ActivePlaces(led)) BY <1>6, <1>7, ActiveCounts
  <2>3. Q \subseteq P
    <3>1. ASSUME NEW q \in Q PROVE q \in P
      <4>1. PICK i \in 1..k : q = led[i].peer BY <1>6 DEF ActivePeers, ActivePlaces
      <4>2. Old(i) \in DOMAIN members /\ q = members[Old(i)].peer BY <4>1, <1>9
      <4>3. Old(i) \in ActivePlaces(members) BY <4>2, <1>12 DEF NoStandby, ActivePlaces, IsActive
      <4> QED BY <4>2, <4>3 DEF ActivePeers
    <3> QED BY <3>1
  <2> HIDE DEF P, Q
  <2>4. Cardinality(Q) <= Cardinality(P) BY <2>1, <2>3, FS_Subset
  <2> QED BY <2>1, <2>2, <2>4
<1> QED BY <1>6, <1>7, <1>8, <1>10, <1>11, <1>12 DEF rest

LEMMA DepartedSound ==
  ASSUME NEW sw \in SoundSwarms, NEW p
  PROVE  /\ Departed(sw, p) \in SoundSwarms
         /\ PeersOf(Departed(sw, p)) \subseteq PeersOf(sw)
         /\ Cardinality(ActivePlaces(sw.members)) >= MinSwarm
            /\ Departed(sw, p).status # "disbanded"
              => Cardinality(ActivePlaces(Departed(sw, p).members)) >= MinSwarm
<1> DEFINE members == sw.members
           n == Len(members)
<1>1. /\ sw \in SwarmSet /\ DistinctPeers(members) /\ InServiceOrNot(sw)
      /\ members \in Seq(MemberSet) /\ n \in Nat /\ DOMAIN members = 1..n
      /\ sw = [model |-> sw.model, members |-> members, status |-> sw.status]
      /\ sw.model \in Models /\ sw.status \in Statuses
  BY DEF SoundSwarms, SwarmSet
<1> HIDE DEF members, n
<1>2. PICK standby : standby = SelectInSeq(members, LAMBDA m : m.role = "standby") OBVIOUS
<1>3. \/ standby = 0 /\ NoStandby(members)
      \/ /\ standby \in 1..n /\ members[standby].role = "standby"
         /\ \A i \in 1..n : i < standby => members[i].role # "standby"
  BY <1>1, <1>2, FirstStandby DEF n
<1>4. PICK gone : gone = SelectInSeq(members, LAMBDA m : m.peer = p) OBVIOUS
<1>5. gone \in 0..n
  <2>2. gone = IF {i \in 1..Len(members) : members[i].peer = p} # {}
               THEN Min({i \in 1..Len(members) : members[i].peer = p}) ELSE 0
    BY <1>4 DEF SelectInSeq
  <2>1. gone = 0 \/ gone \in 1..n BY <1>1, <2>2, PlaceOfPeer DEF n
  <2> QED BY <2>1, <1>1
<1>6. PICK rest : rest = RestOf(members, gone) OBVIOUS
<1>7. PICK next : next = Shifted(standby, gone) OBVIOUS
<1>8. PICK led : led = Led(rest) OBVIOUS
<1>9. PICK new : new = Promoted(rest, next) OBVIOUS
<1>10. PICK d : d = Departed(sw, p) OBVIOUS
<1>11. d = IF standby # 0 /\ next <= Len(rest)
           THEN Redistributed([sw EXCEPT !.members = new])
           ELSE IF TooFew(led) THEN [sw EXCEPT !.members = led, !.status = "disbanded"]
           ELSE Redistributed([sw EXCEPT !.members = led, !.status = "degraded"])
  <2>1. standby = SelectInSeq(sw.members, LAMBDA m : m.role = "standby") BY <1>2 DEF members
  <2>2. gone = SelectInSeq(sw.members, LAMBDA m : m.peer = p) BY <1>4 DEF members
  <2>3. rest = IF gone = 0 THEN sw.members ELSE RemoveAt(sw.members, gone)
    BY <1>6 DEF RestOf, members
  <2> QED BY <1>7, <1>8, <1>9, <1>10, <2>1, <2>2, <2>3
     DEF Departed, Led, Promoted
<1>12. Len(rest) = IF gone = 0 THEN n ELSE n - 1
  BY <1>1, <1>5, <1>6, RestPlaces DEF n
<1>13. MinSwarm \in Nat \ {0, 1} BY FormationAssumption
<1>14. CASE standby # 0 /\ next <= Len(rest)
  <2>1. sw.status # "disbanded"
    BY <1>1, <1>3, <1>14 DEF InServiceOrNot, NoStandby, members
  <2>2. LedFirst(members) BY <1>1, <2>1 DEF InServiceOrNot, members
  <2>3. /\ new \in Seq(MemberSet) /\ DistinctPeers(new) /\ LedFirst(new)
        /\ ActivePlaces(new) # {}
        /\ \A i \in DOMAIN new : \E j \in DOMAIN members : new[i].peer = members[j].peer
        /\ Cardinality(ActivePlaces(members)) >= MinSwarm
              => Cardinality(ActivePlaces(new)) >= MinSwarm
    <3>1. next <= Len(RestOf(members, gone)) BY <1>6, <1>14
    <3>2. new = Promoted(RestOf(members, gone), next) BY <1>6, <1>9
    <3>3. FirstToPromote(members, standby) BY <1>3, <1>14 DEF n, FirstToPromote
    <3>4. gone \in 0..Len(members) BY <1>5 DEF n
    <3>5. members \in Seq(MemberSet) /\ DistinctPeers(members) BY <1>1
    <3> QED BY <1>7, <2>2, <3>1, <3>2, <3>3, <3>4, <3>5, PromotedSound
  <2>4. PICK sv : sv = [sw EXCEPT !.members = new] OBVIOUS
  <2>5. sv = [model |-> sw.model, members |-> new, status |-> sw.status] BY <2>4, <1>1
  <2>6. sv \in SwarmSet /\ sv.members = new /\ sv.status = sw.status
    BY <2>3, <2>5, <1>1 DEF SwarmSet
  <2>7. d = Redistributed(sv) BY <1>11, <1>14, <2>4
  <2>8. /\ d \in SoundSwarms /\ PeersOf(d) = PeersOf(sv)
        /\ ActivePlaces(d.members) = ActivePlaces(new)
    BY <2>1, <2>3, <2>6, <2>7, RedistributedKeeps
  <2>9. PeersOf(sv) \subseteq PeersOf(sw) BY <2>3, <2>6 DEF PeersOf, members
  <2> QED BY <1>10, <2>3, <2>8, <2>9 DEF members
<1>15. CASE ~(standby # 0 /\ next <= Len(rest))
  <2>1. NoStandby(rest)
    <3> DEFINE k == Len(rest)
    <3>1. /\ rest \in Seq(MemberSet)
          /\ \A i \in 1..k : /\ OldPlace(i, gone) \in 1..n
                             /\ rest[i] = members[OldPlace(i, gone)]
      BY <1>1, <1>5, <1>6, RestPlaces DEF n
    <3>2. DOMAIN rest = 1..k /\ k \in Nat BY <3>1
    <3>3. CASE standby = 0
      <4>1. \A i \in 1..n : members[i].role # "standby" BY <3>3, <1>1, <1>3 DEF NoStandby
      <4> HIDE DEF k
      <4> QED BY <4>1, <3>1, <3>2 DEF NoStandby
    <3>4. CASE standby # 0
      <4>1. standby \in 1..n /\ \A i \in 1..n : i < standby => members[i].role # "standby"
        BY <3>4, <1>3
      <4>2. standby = n /\ gone = n /\ gone # 0
        BY <3>4, <4>1, <1>1, <1>5, <1>7, <1>12, <1>15 DEF Shifted
      <4>3. \A i \in 1..k : OldPlace(i, gone) < standby
        BY <4>2, <3>2, <1>1, <1>12 DEF OldPlace
      <4> HIDE DEF k
      <4> QED BY <4>1, <4>3, <3>1, <3>2 DEF NoStandby
    <3> QED BY <3>3, <3>4
  <2>2. /\ led \in Seq(MemberSet) /\ DistinctPeers(led) /\ NoStandby(led)
        /\ \A i \in DOMAIN led : \E j \in DOMAIN members : led[i].peer = members[j].peer
        /\ led # <<>> /\ (Leads(rest) => LedFirst(members)) => LedFirst(led)
        /\ NoStandby(members) => Cardinality(ActivePlaces(led)) <= Cardinality(ActivePlaces(members))
    <3>1. gone \in 0..Len(members) BY <1>5 DEF n
    <3>2. NoStandby(RestOf(members, gone)) BY <1>6, <2>1
    <3>3. led = Led(RestOf(members, gone)) BY <1>6, <1>8
    <3>4. members \in Seq(MemberSet) /\ DistinctPeers(members) BY <1>1
    <3>5. /\ led \in Seq(MemberSet) /\ DistinctPeers(led) /\ NoStandby(led)
          /\ \A i \in DOMAIN led : \E j \in DOMAIN members : led[i].peer = members[j].peer
          /\ led # <<>> /\ (Leads(RestOf(members, gone)) => LedFirst(members)) => LedFirst(led)
          /\ NoStandby(members) => Cardinality(ActivePlaces(led)) <= Cardinality(ActivePlaces(members))
      BY <3>1, <3>2, <3>3, <3>4, LedSound
    <3> QED BY <3>5, <1>6
  <2>3. /\ TooFew(led) <=> Cardinality(ActivePlaces(led)) < MinSwarm
        /\ Cardinality(ActivePlaces(led)) \in Nat
    BY <2>2, ActiveCounts DEF TooFew
  <2>4. CASE TooFew(led)
    <3>1. d = [sw EXCEPT !.members = led, !.status = "disbanded"] BY <1>11, <1>15, <2>4
    <3>2. d = [model |-> sw.model, members |-> led, status |-> "disbanded"] BY <3>1, <1>1
    <3>3. "disbanded" \in Statuses BY DEF Statuses
    <3>4. d \in SwarmSet /\ d.members = led /\ d.status = "disbanded"
      BY <2>2, <3>2, <3>3, <1>1 DEF SwarmSet
    <3>5. d \in SoundSwarms BY <2>2, <2>3, <2>4, <3>4 DEF SoundSwarms, InServiceOrNot
    <3>6. PeersOf(d) \subseteq PeersOf(sw) BY <2>2, <3>4 DEF PeersOf, members
    <3> QED BY <1>10, <3>4, <3>5, <3>6
  <2>5. CASE ~TooFew(led)
    <3>1. PICK sv : sv = [sw EXCEPT !.members = led, !.status = "degraded"] OBVIOUS
    <3>2. sv = [model |-> sw.model, members |-> led, status |-> "degraded"] BY <3>1, <1>1
    <3>3. "degraded" \in Statuses BY DEF Statuses
    <3>4. sv \in SwarmSet /\ sv.members = led /\ sv.status = "degraded"
      BY <2>2, <3>2, <3>3, <1>1 DEF SwarmSet
    <3>5. d = Redistributed(sv) BY <1>11, <1>15, <2>5, <3>1
    <3>6. Cardinality(ActivePlaces(led)) >= MinSwarm /\ Cardinality(ActivePlaces(led)) # 0
      BY <2>3, <2>5, <1>13
    <3>7. ActivePlaces(led) # {}
      <4>1. IsFiniteSet(ActivePlaces(led)) BY <2>2, ActiveCounts
      <4> QED BY <4>1, <3>6, FS_EmptySet
    <3>8. led # <<>> BY <3>7, <2>2 DEF ActivePlaces
    <3>9. LedFirst(members)
      <4>1. sw.status # "disbanded"
        <5>1. SUFFICES ASSUME sw.status = "disbanded" PROVE FALSE
          OBVIOUS
        <5>2. NoStandby(members) /\ Cardinality(ActivePlaces(members)) < MinSwarm
          BY <5>1, <1>1 DEF InServiceOrNot, members
        <5>3. Cardinality(ActivePlaces(members)) \in Nat BY <1>1, ActiveCounts
        <5> QED BY <5>2, <5>3, <2>2, <2>3, <3>6, <1>13
      <4> QED BY <4>1, <1>1 DEF InServiceOrNot, members
    <3>10. /\ d \in SoundSwarms /\ PeersOf(d) = PeersOf(sv)
           /\ ActivePlaces(d.members) = ActivePlaces(led)
      BY <2>2, <3>4, <3>5, <3>7, <3>8, <3>9, RedistributedKeeps
    <3>11. PeersOf(sv) \subseteq PeersOf(sw) BY <2>2, <3>4 DEF PeersOf, members
    <3> QED BY <1>10, <3>6, <3>10, <3>11
  <2> QED BY <2>4, <2>5
<1> QED BY <1>14, <1>15

WithNewcomer(members, p, role, c) == Append(members, Member(p, role, c, 0, 0))
WithMembers(sw, members) == [sw EXCEPT !.members = members]

LEMMA JoinedSound ==
  ASSUME NEW sw \in SoundSwarms, sw.status # "disbanded",
         NEW p \in Peers, p \notin PeersOf(sw), NEW role \in {"worker", "standby"},
         NEW c \in Nat \ {0}, NEW new, new = WithNewcomer(sw.members, p, role, c),
         NEW sv, sv = Redistributed(WithMembers(sw, new))
  PROVE  /\ sv \in SoundSwarms
         /\ Cardinality(ActivePlaces(sw.members)) >= MinSwarm
              => Cardinality(ActivePlaces(sv.members)) >= MinSwarm
<1> DEFINE members == sw.members
           n == Len(members)
           mem == Member(p, role, c, 0, 0)
<1>1. /\ DistinctPeers(members) /\ LedFirst(members)
      /\ members \in Seq(MemberSet) /\ n \in Nat /\ DOMAIN members = 1..n
      /\ sw = [model |-> sw.model, members |-> members, status |-> sw.status]
      /\ sw.model \in Models /\ sw.status \in Statuses
  BY DEF SoundSwarms, SwarmSet, InServiceOrNot
<1>2. mem \in MemberSet /\ mem.peer = p /\ mem.role = role /\ mem.role # "leader"
  BY DEF Member, MemberSet, Roles
<1>3. \A i \in 1..n : members[i].peer # p BY <1>1 DEF PeersOf
<1> HIDE DEF members, mem
<1>4. /\ new \in Seq(MemberSet) /\ DOMAIN new = 1..n + 1
      /\ new[n + 1] = mem /\ \A i \in 1..n : new[i] = members[i]
  <2>1. new = Append(members, mem) BY DEF members, mem, WithNewcomer
  <2> QED BY <1>1, <1>2, <2>1
<1> HIDE DEF n
<1>5. \A i \in 1..n + 1 : i \in 1..n \/ i = n + 1 BY <1>1
<1>6. DistinctPeers(new)
  <2>1. \A i, j \in 1..n : members[i].peer = members[j].peer => i = j
    BY <1>1 DEF DistinctPeers
  <2>2. \A i, j \in 1..n + 1 : new[i].peer = new[j].peer => i = j
    <3>1. \A i \in 1..n : new[i].peer = members[i].peer /\ new[i].peer # new[n + 1].peer
      BY <1>2, <1>3, <1>4
    <3>2. \A i, j \in 1..n : new[i].peer = new[j].peer => i = j BY <2>1, <3>1
    <3>3. SUFFICES ASSUME NEW i \in 1..n + 1, NEW j \in 1..n + 1, new[i].peer = new[j].peer
                   PROVE  i = j
      OBVIOUS
    <3> QED BY <3>1, <3>2, <3>3, <1>5
  <2> QED BY <2>2, <1>4 DEF DistinctPeers
<1>7. PICK L \in 1..n : /\ members[L].role = "leader"
                        /\ \A j \in 1..n : /\ members[j].role = "leader" => j = L
                                           /\ j < L => members[j].role # "standby"
  BY <1>1 DEF LedFirst
<1>8. LedFirst(new)
  <2>1. L \in 1..n + 1 /\ new[L].role = "leader" BY <1>1, <1>4, <1>7
  <2>2. ASSUME NEW j \in 1..n + 1
        PROVE  /\ new[j].role = "leader" => j = L
               /\ j < L => new[j].role # "standby"
    <3>1. CASE j \in 1..n BY <3>1, <1>4, <1>7
    <3>2. CASE j = n + 1
      <4>1. ~(j < L) BY <3>2, <1>1
      <4> QED BY <4>1, <3>2, <1>2, <1>4
    <3> QED BY <3>1, <3>2, <1>5
  <2> QED BY <2>1, <2>2, <1>4 DEF LedFirst
<1>9. ActivePlaces(members) \subseteq ActivePlaces(new)
  BY <1>1, <1>4 DEF ActivePlaces, IsActive
<1>10. ActivePlaces(new) # {}
  <2>1. L \in ActivePlaces(members) BY <1>1, <1>7 DEF ActivePlaces, IsActive
  <2> QED BY <2>1, <1>9
<1>11. PICK sx : sx = WithMembers(sw, new) OBVIOUS
<1>12. sx = [model |-> sw.model, members |-> new, status |-> sw.status] BY <1>1, <1>11 DEF WithMembers
<1>13. sx \in SwarmSet /\ sx.members = new /\ sx.status = sw.status
  BY <1>1, <1>4, <1>12 DEF SwarmSet
<1>14. sv = Redistributed(sx) BY <1>11
<1>15. sv \in SoundSwarms /\ ActivePlaces(sv.members) = ActivePlaces(new)
  BY <1>6, <1>8, <1>10, <1>13, <1>14, RedistributedKeeps
<1>16. Cardinality(ActivePlaces(members)) <= Cardinality(ActivePlaces(new))
       /\ Cardinality(ActivePlaces(members)) \in Nat /\ Cardinality(ActivePlaces(new)) \in Nat
  <2>1. IsFiniteSet(ActivePlaces(new)) /\ Cardinality(ActivePlaces(new)) \in Nat
    BY <1>4, <1>6, ActiveCounts
  <2>2. Cardinality(ActivePlaces(members)) \in Nat BY <1>1, ActiveCounts
  <2> QED BY <2>1, <2>2, <1>9, FS_Subset
<1>17. MinSwarm \in Nat BY FormationAssumption
<1> QED BY <1>15, <1>16, <1>17 DEF members

\* The swarms are always sound.
MembersInv ==
  /\ cap \in [Peers -> Nat \ {0}]
  /\ swarm \in Seq(SoundSwarms)

LEMMA MembersInvInit == SwarmInit => MembersInv
<1>1. SUFFICES ASSUME SwarmInit PROVE MembersInv
  OBVIOUS
<1>2. PICK i \in Instances : cap = i.cap /\ swarm = FormSwarms(Peers, i.cap, i.near)
  BY <1>1 DEF SwarmInit
<1>3. i.cap \in [Peers -> Nat \ {0}] BY SwarmAssumption
<1>4. PICK c \in [Peers -> Nat \ {0}] : c = i.cap BY <1>3
<1>5. FormSwarms(Peers, c, i.near) \in Seq(SoundSwarms) BY FormSwarmsSound
<1> QED BY <1>2, <1>3, <1>4, <1>5 DEF MembersInv

\* One definition changes, to one that is sound.
LEMMA ChangeSound ==
  ASSUME MembersInv, NEW s \in Swarms, NEW sw \in SoundSwarms,
         swarm' = [swarm EXCEPT ![s] = sw], UNCHANGED cap
  PROVE  /\ MembersInv'
         /\ swarm'[s] = sw /\ \A t \in Swarms : t # s => swarm'[t] = swarm[t]
<1>1. swarm \in Seq(SoundSwarms) /\ s \in DOMAIN swarm BY DEF MembersInv, Swarms
<1>2. swarm' \in Seq(SoundSwarms) BY <1>1
<1> QED BY <1>1, <1>2 DEF MembersInv, Swarms

ActiveCount(s) == Cardinality(ActivePlaces(swarm[s].members))

LEMMA ActiveCountIs ==
  ASSUME NEW sw \in SoundSwarms
  PROVE  Cardinality({sw.members[i] : i \in {j \in DOMAIN sw.members : IsActive(sw.members[j])}})
           = Cardinality(ActivePlaces(sw.members))
<1>1. PICK members : members = sw.members OBVIOUS
<1>2. members \in Seq(MemberSet) /\ DistinctPeers(members)
  BY <1>1 DEF SoundSwarms, SwarmSet
<1>3. Cardinality({members[i] : i \in ActivePlaces(members)}) = Cardinality(ActivePlaces(members))
  BY <1>2, ActiveCounts
<1> QED BY <1>1, <1>3 DEF ActivePlaces

\* What a step does to one swarm.
Kept(s) ==
  ActiveCount(s) >= MinSwarm /\ swarm'[s].status # "disbanded" => ActiveCount(s)' >= MinSwarm

LEMMA DepartStep ==
  ASSUME MembersInv, NEW s \in Swarms, NEW p, Depart(s, p)
  PROVE  MembersInv' /\ \A t \in Swarms : Kept(t)
<1>1. swarm[s] \in SoundSwarms BY DEF MembersInv, Swarms
<1>2. PICK old : old = swarm[s] OBVIOUS
<1>3. PICK sw : sw = Departed(old, p) OBVIOUS
<1>4. swarm' = [swarm EXCEPT ![s] = sw] /\ UNCHANGED cap
  BY <1>2, <1>3 DEF Depart, Change
<1>5. /\ sw \in SoundSwarms
      /\ Cardinality(ActivePlaces(old.members)) >= MinSwarm /\ sw.status # "disbanded"
              => Cardinality(ActivePlaces(sw.members)) >= MinSwarm
  BY <1>1, <1>2, <1>3, DepartedSound
<1>6. MembersInv' /\ swarm'[s] = sw /\ \A t \in Swarms : t # s => swarm'[t] = swarm[t]
  BY <1>4, <1>5, ChangeSound
<1>7. Kept(s) BY <1>2, <1>5, <1>6 DEF Kept, ActiveCount
<1>8. \A t \in Swarms : t # s => Kept(t) BY <1>6 DEF Kept, ActiveCount
<1> QED BY <1>6, <1>7, <1>8

LEMMA JoinStep ==
  ASSUME MembersInv, NEW s \in Swarms, NEW p \in Peers, NEW role \in {"worker", "standby"},
         Join(s, p, role)
  PROVE  MembersInv' /\ \A t \in Swarms : Kept(t)
<1>1. swarm[s] \in SoundSwarms BY DEF MembersInv, Swarms
<1>2. PICK old : old = swarm[s] OBVIOUS
<1>3. PICK new : new = Append(old.members, Member(p, role, cap[p], 0, 0)) OBVIOUS
<1>4. PICK sw : sw = Redistributed(WithMembers(old, new)) OBVIOUS
<1>5. swarm' = [swarm EXCEPT ![s] = sw] /\ UNCHANGED cap
  <2>1. [swarm[s] EXCEPT !.members = Append(@, Member(p, role, cap[p], 0, 0))]
          = WithMembers(old, new)
    BY <1>2, <1>3 DEF WithMembers
  <2> QED BY <1>4, <2>1 DEF Join, Change
<1>6. p \notin PeersOf(old) /\ old.status # "disbanded"
  BY <1>2 DEF Join, CanAccept
<1>7. PICK c \in Nat \ {0} : c = cap[p] BY DEF MembersInv
<1>8. /\ sw \in SoundSwarms
      /\ Cardinality(ActivePlaces(old.members)) >= MinSwarm
              => Cardinality(ActivePlaces(sw.members)) >= MinSwarm
  <2>1. new = WithNewcomer(old.members, p, role, c) BY <1>3, <1>7 DEF WithNewcomer
  <2>2. old \in SoundSwarms BY <1>1, <1>2
  <2> QED BY <2>1, <2>2, <1>4, <1>6, JoinedSound
<1>9. MembersInv' /\ swarm'[s] = sw /\ \A t \in Swarms : t # s => swarm'[t] = swarm[t]
  BY <1>5, <1>8, ChangeSound
<1>10. Kept(s) BY <1>2, <1>8, <1>9 DEF Kept, ActiveCount
<1>11. \A t \in Swarms : t # s => Kept(t) BY <1>9 DEF Kept, ActiveCount
<1> QED BY <1>9, <1>10, <1>11

LEMMA SetStatusStep ==
  ASSUME MembersInv, NEW s \in Swarms, NEW status \in Statuses, SetStatus(s, status)
  PROVE  MembersInv' /\ \A t \in Swarms : Kept(t)
<1>1. swarm[s] \in SoundSwarms BY DEF MembersInv, Swarms
<1>2. PICK old : old = swarm[s] OBVIOUS
<1>3. PICK sw : sw = [old EXCEPT !.status = status] OBVIOUS
<1>4. old = [model |-> old.model, members |-> old.members, status |-> old.status]
      /\ old.model \in Models /\ old.members \in Seq(MemberSet)
  BY <1>1, <1>2 DEF SoundSwarms, SwarmSet
<1>5. sw = [model |-> old.model, members |-> old.members, status |-> status] BY <1>3, <1>4
<1>6. sw \in SwarmSet /\ sw.members = old.members /\ sw.status = status /\ sw.model = old.model
  BY <1>4, <1>5 DEF SwarmSet
<1>7. old.status # "disbanded" /\ status # "disbanded" BY <1>2 DEF SetStatus
<1>8. sw \in SoundSwarms BY <1>1, <1>2, <1>6, <1>7 DEF SoundSwarms, InServiceOrNot
<1>9. swarm' = [swarm EXCEPT ![s] = sw] /\ UNCHANGED cap
  <2>1. swarm' = [swarm EXCEPT ![s].status = status] /\ UNCHANGED cap BY DEF SetStatus
  <2> QED BY <2>1, <1>2, <1>3
<1>10. MembersInv' /\ swarm'[s] = sw /\ \A t \in Swarms : t # s => swarm'[t] = swarm[t]
  BY <1>8, <1>9, ChangeSound
<1>11. Kept(s) BY <1>2, <1>6, <1>10 DEF Kept, ActiveCount
<1>12. \A t \in Swarms : t # s => Kept(t) BY <1>10 DEF Kept, ActiveCount
<1> QED BY <1>10, <1>11, <1>12

LEMMA MembersInvNext ==
  ASSUME MembersInv, [SwarmNext]_swarmVars
  PROVE  MembersInv' /\ \A t \in Swarms : Kept(t)
<1>1. ASSUME UNCHANGED <<cap, swarm>> PROVE MembersInv' /\ \A t \in Swarms : Kept(t)
  BY <1>1 DEF MembersInv, Kept, ActiveCount
<1>2. ASSUME NEW s \in Swarms, NEW p \in Peers, Depart(s, p)
      PROVE  MembersInv' /\ \A t \in Swarms : Kept(t)
  BY <1>2, DepartStep
<1>3. ASSUME NEW s \in Swarms, NEW p \in Peers, NEW role \in {"worker", "standby"}, Join(s, p, role)
      PROVE  MembersInv' /\ \A t \in Swarms : Kept(t)
  BY <1>3, JoinStep
<1>4. ASSUME NEW s \in Swarms, NEW status \in Statuses, SetStatus(s, status)
      PROVE  MembersInv' /\ \A t \in Swarms : Kept(t)
  BY <1>4, SetStatusStep
<1>5. ASSUME NEW s \in Swarms, Register(s) \/ Unregister(s)
      PROVE  MembersInv' /\ \A t \in Swarms : Kept(t)
  BY <1>1, <1>5 DEF Register, Unregister, memberVars
<1>6. ASSUME NEW p \in Requesters, SetContributing(p)
      PROVE  MembersInv' /\ \A t \in Swarms : Kept(t)
  BY <1>1, <1>6 DEF SetContributing, memberVars
<1>7. ASSUME NEW c \in Callers, NEW p \in Requesters, NEW m \in Models, Select(c, p, m)
      PROVE  MembersInv' /\ \A t \in Swarms : Kept(t)
  BY <1>1, <1>7 DEF Select, memberVars
<1>8. ASSUME NEW c \in Callers, RequestStarted(c) \/ RequestFinished(c)
      PROVE  MembersInv' /\ \A t \in Swarms : Kept(t)
  BY <1>1, <1>8 DEF RequestStarted, RequestFinished, memberVars
<1>9. CASE UNCHANGED swarmVars
  BY <1>1, <1>9 DEF swarmVars, memberVars
<1> QED BY <1>2, <1>3, <1>4, <1>5, <1>6, <1>7, <1>8, <1>9 DEF SwarmNext

LEMMA MembersSound == SwarmSpec => []MembersInv
<1>1. MembersInv /\ [SwarmNext]_swarmVars => MembersInv' BY MembersInvNext
<1> QED BY MembersInvInit, <1>1, PTL DEF SwarmSpec

LEMMA SoundIsServed == MembersInv => OneLeaderAllLayers
<1>1. SUFFICES ASSUME MembersInv, NEW s \in Swarms, InService(s)
      PROVE /\ Cardinality({i \in DOMAIN swarm[s].members : swarm[s].members[i].role = "leader"}) = 1
            /\ \A l \in 0..LayerCounts[swarm[s].model] - 1 :
                 \E m \in ActiveMembers(s) : m.from <= l /\ l < m.to
  BY DEF OneLeaderAllLayers
<1>2. PICK sw \in SoundSwarms : sw = swarm[s] BY <1>1 DEF MembersInv, Swarms
<1>3. LedFirst(sw.members) /\ AllLayers(sw.members, LayerCounts[sw.model])
  BY <1>1, <1>2 DEF InService, SoundSwarms, InServiceOrNot
<1>4. Cardinality({i \in DOMAIN sw.members : sw.members[i].role = "leader"}) = 1
  <2>1. PICK L : {i \in DOMAIN sw.members : sw.members[i].role = "leader"} = {L}
    BY <1>3 DEF LedFirst
  <2> QED BY <2>1, FS_Singleton
<1>5. \A l \in 0..LayerCounts[sw.model] - 1 : \E m \in ActiveMembers(s) : m.from <= l /\ l < m.to
  BY <1>2, <1>3 DEF AllLayers, ActiveMembers
<1> QED BY <1>2, <1>4, <1>5

\* rebalance, for every number of peers and swarms, all capacities and every
\* sequence of departures, repeated reports and joins: a swarm in service has
\* one leader, and its active members hold every layer of its model.
THEOREM SwarmServesEveryLayer == SwarmSpec => []OneLeaderAllLayers
  BY MembersSound, SoundIsServed, PTL

\* handle_member_departure: a swarm with MIN_SWARM_SIZE active members keeps as
\* many or is disbanded, whoever leaves and whoever is promoted.
THEOREM SwarmKeepsItsSize == SwarmSpec => ActiveOrDisbanded
<1>1. MembersInv /\ MembersInv' /\ [SwarmNext]_swarmVars
        => [\A s \in Swarms :
              Cardinality(ActiveMembers(s)) >= MinSwarm /\ swarm'[s].status # "disbanded"
                => Cardinality(ActiveMembers(s)') >= MinSwarm]_swarmVars
  <2>1. SUFFICES ASSUME MembersInv, MembersInv', [SwarmNext]_swarmVars, NEW s \in Swarms,
                        swarmVars' # swarmVars,
                        Cardinality(ActiveMembers(s)) >= MinSwarm,
                        swarm'[s].status # "disbanded"
                 PROVE  Cardinality(ActiveMembers(s)') >= MinSwarm
    BY Zenon
  <2>2. Kept(s) BY <2>1, MembersInvNext
  <2>3. Cardinality(ActiveMembers(s)) = ActiveCount(s)
    <3>1. PICK sw \in SoundSwarms : sw = swarm[s] BY <2>1 DEF MembersInv, Swarms
    <3>2. Cardinality({sw.members[i] : i \in {j \in DOMAIN sw.members : IsActive(sw.members[j])}})
             = Cardinality(ActivePlaces(sw.members))
      BY ActiveCountIs
    <3> QED BY <3>1, <3>2 DEF ActiveMembers, ActiveCount
  <2>4. Swarms' = Swarms
    <3>1. SwarmNext BY <2>1
    <3> QED BY <3>1 DEF SwarmNext, Depart, Join, Change, SetStatus, Register, Unregister,
         SetContributing, Select, RequestStarted, RequestFinished, memberVars, Swarms
  <2>5. Cardinality(ActiveMembers(s))' = ActiveCount(s)'
    <3>1. PICK sw \in SoundSwarms : sw = swarm'[s] BY <2>1, <2>4 DEF MembersInv, Swarms
    <3>2. Cardinality({sw.members[i] : i \in {j \in DOMAIN sw.members : IsActive(sw.members[j])}})
             = Cardinality(ActivePlaces(sw.members))
      BY ActiveCountIs
    <3> QED BY <3>1, <3>2 DEF ActiveMembers, ActiveCount
  <2> QED BY <2>1, <2>2, <2>3, <2>5 DEF Kept
<1> QED BY <1>1, MembersSound, PTL DEF SwarmSpec, ActiveOrDisbanded

-----------------------------------------------------------------------------
(* The plans of the schedulers                                                 *)

LEMMA Products ==
  /\ \A a, b \in Int : a * b \in Int /\ a * b = b * a
  /\ \A a, b, c \in Int : a * (b + c) = a * b + a * c
  /\ \A a, b, c \in Int : a * (b - c) = a * b - a * c
  /\ \A a, b, c \in Int : (a * b) * c = a * (b * c)
  OBVIOUS

\* A proportion is the exact share of the layers, to half a layer.
LEMMA ProportionRounds ==
  ASSUME NEW c \in Nat, NEW total \in Nat \ {0}, NEW layers \in Nat
  PROVE  /\ Proportion(c, total, layers) \in Nat
         /\ 2 * total * Proportion(c, total, layers) <= 2 * layers * c + total
         /\ 2 * total * Proportion(c, total, layers) >= 2 * layers * c - total
<1> DEFINE a == 2 * c * layers + total
           b == 2 * total
<1>1. 2 * c * layers = 2 * layers * c OBVIOUS
<1>2. a \in Nat
  <2>1. 2 * c \in Nat OBVIOUS
  <2>2. (2 * c) * layers \in Nat BY <2>1
  <2> QED BY <2>2
<1>3. b \in Nat \ {0} OBVIOUS
<1>4. Proportion(c, total, layers) = a \div b BY DEF Proportion
<1>5. a \div b \in Nat /\ b * (a \div b) <= a /\ a < b * (a \div b) + b
  <2> HIDE DEF a, b
  <2> QED BY <1>2, <1>3
<1>6. a \div b \in Nat /\ b * (a \div b) \in Int
  <2> HIDE DEF a, b
  <2> QED BY <1>2, <1>3, <1>5
<1>7. 2 * layers * c \in Int OBVIOUS
<1> DEFINE x == b * (a \div b)
           y == 2 * layers * c
<1>8. x <= y + total /\ x >= y - total
  <2>1. x <= a /\ a < x + b /\ x \in Int BY <1>5, <1>6
  <2>2. a = y + total BY <1>1
  <2>3. b = total + total OBVIOUS
  <2>4. y \in Int BY <1>7
  <2> HIDE DEF x, y, a, b
  <2> QED BY <2>1, <2>2, <2>3, <2>4
<1> HIDE DEF a
<1> QED BY <1>4, <1>6, <1>8

\* n members get layers, the first n.
SharesOut(cursor, n, caps, layers, least) ==
  /\ \A i \in 1..n : cursor[i - 1] < cursor[i]
  /\ \A i \in 1..Len(caps) : i > n => cursor[i] = cursor[i - 1]
  /\ cursor[n] = layers
  /\ \A i \in 1..n - 1 : cursor[i] = cursor[i - 1] + Due(caps, layers, least, i)

LEMMA HandedSharesOut ==
  ASSUME NEW caps \in Seq(Nat \ {0}), caps # <<>>,
         NEW layers \in Nat \ {0}, NEW least \in Nat \ {0}
  PROVE  \E n \in 1..Len(caps) :
           SharesOut(Handed(caps, layers, least), n, caps, layers, least)
<1> DEFINE N == Len(caps)
           cursor == Handed(caps, layers, least)
           T == {i \in 1..N : cursor[i] = layers}
           due(i) == Due(caps, layers, least, i)
<1>1. N \in Nat \ {0} /\ \A i \in 1..N : caps[i] \in Nat \ {0} OBVIOUS
<1>2. Hands(cursor, N, layers) /\ \A i \in 1..N : i # N =>
        cursor[i] = cursor[i - 1] + Smallest(due(i), layers - cursor[i - 1])
  BY HandedIs
<1>3. \A i \in 1..N : due(i) \in Nat /\ due(i) >= least
  <2>1. SUFFICES ASSUME NEW i \in 1..N PROVE due(i) \in Nat /\ due(i) >= least OBVIOUS
  <2>2. Total(caps) \in Nat \ {0} BY TotalIsPositive
  <2>3. Proportion(caps[i], Total(caps), layers) \in Nat BY <1>1, <2>2, ProportionIsNat
  <2> QED BY <2>3 DEF Due, Largest
<1> HIDE DEF N, cursor, due
<1>4. \A i \in 0..N : cursor[i] \in 0..layers BY <1>2 DEF Hands
<1>5. cursor[N] = layers /\ cursor[0] = 0 BY <1>1, <1>2 DEF Hands
<1>6. PICK n \in T : \A i \in T : n <= i
  <2>1. N \in T /\ T \subseteq Nat BY <1>1, <1>5
  <2> HIDE DEF T
  <2> QED BY <2>1, LeastNat
<1>7. n \in 1..N /\ cursor[n] = layers BY <1>6
<1>8. \A i \in 1..n - 1 : i \in 1..N /\ i - 1 \in 0..N /\ cursor[i] # layers BY <1>1, <1>6, <1>7
<1>9. ASSUME NEW i \in 1..n - 1
      PROVE  cursor[i] = cursor[i - 1] + due(i) /\ cursor[i - 1] < cursor[i]
  <2>1. i \in 1..N /\ i # N /\ cursor[i] # layers BY <1>5, <1>8
  <2>2. cursor[i] = cursor[i - 1] + Smallest(due(i), layers - cursor[i - 1]) BY <1>2, <2>1
  <2>3. cursor[i - 1] \in 0..layers BY <1>4, <1>8
  <2> QED BY <2>1, <2>2, <2>3, <1>3 DEF Smallest
<1>10. cursor[n - 1] < cursor[n]
  <2>1. CASE n = 1 BY <2>1, <1>5, <1>7
  <2>2. CASE n # 1
    <3>1. n - 1 \in 1..n - 1 /\ n - 1 \in 0..N BY <2>2, <1>1, <1>7
    <3> QED BY <3>1, <1>4, <1>7, <1>8
  <2> QED BY <2>1, <2>2
<1>11. \A i \in n..N : cursor[i] = layers
  <2> DEFINE R == {k \in Nat : n + k <= N => cursor[n + k] = layers}
  <2>1. 0 \in R BY <1>7
  <2>2. ASSUME NEW k \in Nat, k \in R PROVE k + 1 \in R
    <3>1. SUFFICES ASSUME n + (k + 1) <= N PROVE cursor[n + (k + 1)] = layers OBVIOUS
    <3> DEFINE i == n + (k + 1)
    <3>2. i \in 1..N /\ i - 1 = n + k BY <3>1, <1>1, <1>7
    <3>3. cursor[n + k] = layers BY <2>2, <3>1, <1>1, <1>7
    <3>4. CASE i = N BY <3>4, <1>5
    <3>5. CASE i # N
      <4> HIDE DEF i
      <4>1. cursor[i] = cursor[i - 1] + Smallest(due(i), layers - cursor[i - 1])
        BY <1>2, <3>2, <3>5
      <4>2. due(i) \in Nat /\ due(i) >= least BY <1>3, <3>2
      <4>3. cursor[i] = layers BY <3>2, <3>3, <4>1, <4>2 DEF Smallest
      <4> QED BY <4>3 DEF i
    <3> QED BY <3>4, <3>5
  <2>3. \A k \in Nat : k \in R
    <3> HIDE DEF R
    <3> QED BY <2>1, <2>2, InductionOnSet
  <2>4. SUFFICES ASSUME NEW i \in n..N PROVE cursor[i] = layers OBVIOUS
  <2>5. i - n \in Nat /\ n + (i - n) = i BY <1>1, <1>7
  <2>6. i - n \in R BY <2>3, <2>5
  <2> QED BY <2>5, <2>6
<1>12. \A i \in 1..N : i > n => cursor[i] = cursor[i - 1]
  <2>1. \A i \in 1..N : i > n => i \in n..N /\ i - 1 \in n..N BY <1>1, <1>7
  <2> QED BY <2>1, <1>11
<1>13. \A i \in 1..n : cursor[i - 1] < cursor[i]
  <2>1. \A i \in 1..n : i = n \/ i \in 1..n - 1 BY <1>1, <1>7
  <2> QED BY <2>1, <1>9, <1>10
<1>14. SharesOut(cursor, n, caps, layers, least)
  BY <1>7, <1>9, <1>12, <1>13 DEF SharesOut, due, N
<1> QED BY <1>7, <1>14 DEF cursor, N

\* The members before the last get their proportions, unless one gets the
\* least; the last gets its own and what the others' halves add up to.
LEMMA LastShare ==
  ASSUME NEW caps \in Seq(Nat \ {0}), caps # <<>>,
         NEW layers \in Nat \ {0}, NEW least \in Nat \ {0},
         NEW cursor \in [0..Len(caps) -> Nat], cursor[0] = 0,
         SharesOut(cursor, Len(caps), caps, layers, least),
         \A i \in 1..Len(caps) - 1 : cursor[i] - cursor[i - 1] # least
  PROVE  2 * Total(caps) * (layers - cursor[Len(caps) - 1])
           <= 2 * layers * caps[Len(caps)] + (Len(caps) - 1) * Total(caps)
<1> DEFINE N == Len(caps)
           total == Total(caps)
           share(i) == Proportion(caps[i], total, layers)
           t == 2 * total
           l == 2 * layers
<1>1. N \in Nat \ {0} /\ \A i \in 1..N : caps[i] \in Nat \ {0} OBVIOUS
<1>2. total \in Nat \ {0} BY TotalIsPositive
<1>3. PICK f : Sums(f, caps)
  <2>1. caps \in Seq(Nat) OBVIOUS
  <2> QED BY <2>1, TotalIsSum
<1>4. /\ f \in [0..N -> Nat] /\ f[0] = 0 /\ f[N] = total
      /\ \A k \in 1..N : f[k] = f[k - 1] + caps[k]
  BY <1>3 DEF Sums
<1>5. \A i \in 1..N : /\ share(i) \in Nat
                      /\ t * share(i) >= l * caps[i] - total
  BY <1>1, <1>2, ProportionRounds
<1>6. \A i \in 1..N - 1 : cursor[i] = cursor[i - 1] + share(i)
  <2>1. SUFFICES ASSUME NEW i \in 1..N - 1 PROVE cursor[i] = cursor[i - 1] + share(i)
    OBVIOUS
  <2>2. cursor[i] = cursor[i - 1] + Largest(share(i), least) BY DEF SharesOut, Due
  <2>3. cursor[i] - cursor[i - 1] # least OBVIOUS
  <2>4. i \in 1..N /\ cursor[i - 1] \in Nat /\ share(i) \in Nat
    <3>1. i \in 1..N /\ i - 1 \in 0..N BY <1>1
    <3> QED BY <3>1, <1>5
  <2> HIDE DEF share, N
  <2> QED BY <2>2, <2>3, <2>4 DEF Largest
<1>7. t \in Int /\ l \in Int BY <1>2
<1> HIDE DEF N, share, total, t, l
<1> DEFINE R == {k \in Nat : k <= N - 1 => t * cursor[k] + k * total >= l * f[k]}
<1>8. 0 \in R
  <2>1. t * 0 = 0 /\ l * 0 = 0 /\ 0 * total = 0 BY <1>2, <1>7
  <2> QED BY <2>1, <1>4
<1>9. ASSUME NEW k \in Nat, k \in R PROVE k + 1 \in R
  <2>1. SUFFICES ASSUME k + 1 <= N - 1
                 PROVE t * cursor[k + 1] + (k + 1) * total >= l * f[k + 1]
    OBVIOUS
  <2>2. k + 1 \in 1..N /\ k + 1 \in 1..N - 1 /\ (k + 1) - 1 = k /\ k \in 0..N BY <1>1, <2>1
  <2>3. cursor[k + 1] = cursor[k] + share(k + 1) /\ f[k + 1] = f[k] + caps[k + 1]
    BY <1>4, <1>6, <2>2
  <2>4. /\ cursor[k] \in Int /\ f[k] \in Int /\ share(k + 1) \in Int
        /\ caps[k + 1] \in Int /\ total \in Int
    <3>1. cursor[k] \in Nat /\ f[k] \in Nat BY <1>4, <2>2 DEF N
    <3>2. share(k + 1) \in Nat BY <1>5, <2>2
    <3>3. caps[k + 1] \in Nat BY <1>1, <2>2
    <3> HIDE DEF share, total
    <3> QED BY ONLY <3>1, <3>2, <3>3, <1>2
  <2>5. t * cursor[k] + k * total >= l * f[k] BY <1>1, <1>9, <2>1
  <2>6. t * share(k + 1) >= l * caps[k + 1] - total BY <1>5, <2>2
  <2> DEFINE a == cursor[k]  b == share(k + 1)  c == f[k]  d == caps[k + 1]
  <2>7. t * (a + b) = t * a + t * b /\ l * (c + d) = l * c + l * d
    <3> HIDE DEF a, b, c, d
    <3>1. a \in Int /\ b \in Int /\ c \in Int /\ d \in Int BY <2>4 DEF a, b, c, d
    <3> QED BY <3>1, <1>7, Products
  <2>8. (k + 1) * total = k * total + total
    <3>1. total * (k + 1) = total * k + total * 1 /\ total * 1 = total BY <2>4, Products
    <3>2. (k + 1) * total = total * (k + 1) /\ k * total = total * k BY <2>4, Products
    <3> QED BY <3>1, <3>2
  <2>9. t * a \in Int /\ t * b \in Int /\ l * c \in Int /\ l * d \in Int /\ k * total \in Int
    <3>1. a \in Int /\ b \in Int /\ c \in Int /\ d \in Int BY <2>4
    <3> HIDE DEF a, b, c, d
    <3> QED BY <3>1, <2>4, <1>7
  <2> DEFINE ta == t * a  tb == t * b  lc == l * c  ld == l * d  kt == k * total
  <2>10. ta + kt >= lc /\ tb >= ld - total BY <2>5, <2>6
  <2>11. (ta + tb) + (kt + total) >= lc + ld
    <3>1. ta \in Int /\ tb \in Int /\ lc \in Int /\ ld \in Int /\ kt \in Int BY <2>9
    <3> HIDE DEF ta, tb, lc, ld, kt
    <3> QED BY <3>1, <2>4, <2>10
  <2> QED BY <2>3, <2>7, <2>8, <2>11
<1>10. N - 1 \in R
  <2>1. \A k \in Nat : k \in R
    <3> HIDE DEF R
    <3> QED BY <1>8, <1>9, InductionOnSet
  <2> QED BY <2>1, <1>1
<1> DEFINE x == cursor[N - 1]  y == f[N - 1]  c == caps[N]
<1>11. x \in Int /\ y \in Int /\ c \in Int /\ N - 1 \in Int /\ total = y + c
  <2>1. N - 1 \in 0..N /\ N \in 1..N BY <1>1
  <2>2. cursor[N - 1] \in Nat /\ f[N - 1] \in Nat BY <2>1, <1>4 DEF N
  <2>3. total = f[N - 1] + caps[N]
    <3> HIDE DEF N, total
    <3> QED BY <2>1, <1>4, Zenon
  <2>4. caps[N] \in Nat
    <3> HIDE DEF N
    <3> QED BY <2>1, <1>1
  <2>5. N - 1 \in Int
    <3> HIDE DEF N
    <3> QED BY ONLY <1>1
  <2> HIDE DEF N, total
  <2> QED BY ONLY <2>2, <2>3, <2>4, <2>5 DEF x, y, c
<1>12. t * x + (N - 1) * total >= l * y BY <1>1, <1>10
<1> HIDE DEF x, y, c
<1>13. /\ t * (layers - x) = t * layers - t * x
       /\ l * (y + c) = l * y + l * c
       /\ t * x \in Int /\ t * layers \in Int /\ l * y \in Int /\ l * c \in Int
       /\ (N - 1) * total \in Int
  BY <1>2, <1>7, <1>11, Products
<1>14. t * layers = l * (y + c)
  <2>1. t * layers = (2 * total) * layers /\ l * total = (2 * layers) * total BY DEF t, l
  <2>2. (2 * total) * layers = 2 * (total * layers) /\ (2 * layers) * total = 2 * (layers * total)
        /\ total * layers = layers * total
    BY <1>2, Products
  <2> QED BY <2>1, <2>2, <1>11
<1> DEFINE tx == t * x  tl == t * layers  ly == l * y  lc == l * c  nt == (N - 1) * total
<1>15. tl - tx <= lc + nt
  <2>1. tx \in Int /\ tl \in Int /\ ly \in Int /\ lc \in Int /\ nt \in Int
        /\ tx + nt >= ly /\ tl = ly + lc
    BY <1>12, <1>13, <1>14
  <2> HIDE DEF tx, tl, ly, lc, nt
  <2> QED BY <2>1
<1>16. t * (layers - x) <= l * c + (N - 1) * total BY <1>13, <1>15
<1> QED BY <1>16 DEF t, l, x, c, N, total

\* A plan gives every layer of the model once, to peers in the order of their
\* strength, and to each as much as its share of the memory, to half a
\* layer, unless that is less than the least or more than what is left; the
\* last peer makes up for what the others' halves add up to, so that the least
\* bounds the others' shares only (StagesReachLeast says what the code's
\* comment says of it).
Proportional(plan, ranked, layers, least) ==
  LET n == Len(plan)
      total == Total([i \in DOMAIN ranked |-> cap[ranked[i]]])
  IN /\ n \in 1..Len(ranked) /\ plan[1].from = 0 /\ plan[n].to = layers
     /\ \A i \in 1..n : plan[i].from < plan[i].to
     /\ \A i \in 1..n - 1 :
          LET share == 2 * total * (plan[i].to - plan[i].from)
              exact == 2 * layers * cap[plan[i].peer]
          IN /\ plan[i].to = plan[i + 1].from
             /\ plan[i].peer = ranked[i] /\ plan[i + 1].peer = ranked[i + 1]
             /\ share <= exact + total \/ plan[i].to - plan[i].from = least
             /\ share >= exact - total \/ plan[i].to = layers
     /\ \/ n < Len(ranked)
        \/ \E i \in 1..n - 1 : plan[i].to - plan[i].from = least
        \/ 2 * total * (plan[n].to - plan[n].from)
              <= 2 * layers * cap[plan[n].peer] + (n - 1) * total

LEMMA StagesProportional ==
  ASSUME cap \in [Peers -> Nat \ {0}],
         NEW ranked \in Seq(Peers), ranked # <<>>,
         NEW layers \in Nat \ {0}, NEW least \in Nat \ {0}
  PROVE  Proportional(Stages(ranked, cap, layers, least), ranked, layers, least)
<1> DEFINE caps == [i \in DOMAIN ranked |-> cap[ranked[i]]]
           N == Len(ranked)
           cursor == Handed(caps, layers, least)
           S == {i \in DOMAIN ranked : cursor[i] > cursor[i - 1]}
           served == Ascending(S)
           plan == Stages(ranked, cap, layers, least)
           total == Total(caps)
<1>1. N \in Nat \ {0} /\ DOMAIN ranked = 1..N /\ \A i \in 1..N : ranked[i] \in Peers
  OBVIOUS
<1>2. caps \in Seq(Nat \ {0}) /\ Len(caps) = N /\ caps # <<>>
      /\ \A i \in 1..N : caps[i] = cap[ranked[i]]
  <2>1. \A i \in 1..N : caps[i] \in Nat \ {0} /\ caps[i] = cap[ranked[i]] BY <1>1
  <2>2. caps \in [1..N -> Nat \ {0}] BY <1>1, <2>1
  <2> HIDE DEF caps, N
  <2>3. caps \in Seq(Nat \ {0}) /\ Len(caps) = N BY <1>1, <2>2
  <2> QED BY <2>1, <2>3, <1>1
<1>3. plan = [k \in DOMAIN served |-> [peer |-> ranked[served[k]],
                from |-> cursor[served[k] - 1], to |-> cursor[served[k]]]]
  BY DEF Stages
<1> HIDE DEF caps, N
<1>4. PICK n \in 1..N : SharesOut(cursor, n, caps, layers, least)
  BY <1>2, HandedSharesOut
<1>5. Hands(cursor, N, layers) BY <1>2, HandedHands
<1> HIDE DEF cursor, served, plan
<1>6. cursor[0] = 0 /\ cursor[n] = layers /\ \A i \in 0..N : cursor[i] \in Nat
  BY <1>4, <1>5 DEF Hands, SharesOut
<1>7. S = 1..n
  <2>1. \A i \in 1..N : i - 1 \in 0..N /\ i \in 0..N BY <1>1
  <2>2. ASSUME NEW i \in 1..N PROVE cursor[i] > cursor[i - 1] <=> i \in 1..n
    <3>1. cursor[i] \in Nat /\ cursor[i - 1] \in Nat BY <1>6, <2>1
    <3>2. CASE i \in 1..n BY <3>1, <3>2, <1>4 DEF SharesOut
    <3>3. CASE i \notin 1..n
      <4>1. i > n BY <3>3, <1>1
      <4> QED BY <4>1, <3>1, <3>3, <1>2, <1>4 DEF SharesOut
    <3> QED BY <3>2, <3>3
  <2>3. 1..n \subseteq 1..N BY <1>1
  <2> QED BY <1>1, <2>2, <2>3
<1>8. served = [k \in 1..n |-> k]
  <2>1. n \in Nat /\ 0 \in Nat /\ 0 <= n BY <1>1
  <2>2. Ascending(0 + 1..n) = [k \in 1..n - 0 |-> 0 + k] BY <2>1, IntervalAscends
  <2>3. 0 + 1 = 1 /\ n - 0 = n /\ \A k \in 1..n : 0 + k = k BY <2>1
  <2>4. Ascending(1..n) = [k \in 1..n |-> k] BY <2>2, <2>3
  <2> QED BY <2>4, <1>7 DEF served
<1>9. plan = [k \in 1..n |-> [peer |-> ranked[k], from |-> cursor[k - 1], to |-> cursor[k]]]
  BY <1>3, <1>8
<1> DEFINE d(i) == cursor[i] - cursor[i - 1]
<1>10. /\ Len(plan) = n
       /\ \A i \in 1..n : /\ plan[i].peer = ranked[i] /\ plan[i].from = cursor[i - 1]
                           /\ plan[i].to = cursor[i]
       /\ \A i \in 1..n : plan[i].to - plan[i].from = d(i)
  BY <1>1, <1>9
<1>11. total \in Nat \ {0} /\ total = Total([i \in DOMAIN ranked |-> cap[ranked[i]]])
  BY <1>2, TotalIsPositive DEF caps
<1>12. n \in 1..Len(ranked) /\ plan[1].from = 0 /\ plan[n].to = layers
  BY <1>1, <1>6, <1>10 DEF N
<1>13. \A i \in 1..n : plan[i].from < plan[i].to BY <1>4, <1>10 DEF SharesOut
<1> HIDE DEF total
<1>14. ASSUME NEW i \in 1..n - 1
       PROVE  /\ plan[i].to = plan[i + 1].from
              /\ plan[i].peer = ranked[i] /\ plan[i + 1].peer = ranked[i + 1]
              /\ \/ 2 * total * d(i) <= 2 * layers * cap[plan[i].peer] + total
                 \/ d(i) = least
              /\ \/ 2 * total * d(i) >= 2 * layers * cap[plan[i].peer] - total
                 \/ plan[i].to = layers
  <2>1. i \in 1..n /\ i + 1 \in 1..n /\ (i + 1) - 1 = i /\ i \in 1..N /\ i - 1 \in 0..N
        /\ i \in 0..N
    BY <1>1
  <2> DEFINE P == Proportion(caps[i], total, layers)
             e == 2 * layers * caps[i]
  <2>2. cursor[i] = cursor[i - 1] + Due(caps, layers, least, i) BY <1>4 DEF SharesOut
  <2>3. cursor[i] \in Nat /\ cursor[i - 1] \in Nat BY <1>6, <2>1
  <2>4. caps[i] \in Nat /\ caps[i] = cap[plan[i].peer] BY <1>1, <1>2, <1>10, <2>1
  <2>5. P \in Nat /\ 2 * total * P <= e + total /\ 2 * total * P >= e - total
    BY <1>11, <2>4, ProportionRounds
  <2>6. d(i) = Largest(P, least)
    <3>1. Due(caps, layers, least, i) = Largest(P, least) BY DEF Due, total
    <3>2. Largest(P, least) \in Nat BY <2>5 DEF Largest
    <3> HIDE DEF P
    <3> QED BY <2>2, <2>3, <3>1, <3>2
  <2> DEFINE x == d(i)
  <2>7. (2 * total * x <= e + total \/ x = least) /\ 2 * total * x >= e - total
    <3>1. x = least \/ x = P BY <2>6 DEF Largest
    <3>2. x >= P /\ x \in Nat
      <4> HIDE DEF P
      <4> QED BY <2>5, <2>6 DEF Largest
    <3>3. 2 * total \in Nat /\ e \in Int BY <1>11, <2>4
    <3> DEFINE t == 2 * total
    <3>5. P \in Nat /\ t * P <= e + total /\ t * P >= e - total BY <2>5
    <3> HIDE DEF x, P, e, t
    <3>4. t * x >= t * P /\ t * x \in Int /\ t * P \in Int
      <4>1. x - P \in Nat /\ x = P + (x - P) /\ t \in Nat BY <3>2, <3>3, <3>5 DEF t
      <4>2. t * (x - P) \in Nat BY <4>1
      <4>3. t * x = t * P + t * (x - P) /\ t * P \in Int BY <4>1, <3>5, Products
      <4> QED BY <4>2, <4>3
    <3>6. t * x >= e - total
      <4> DEFINE tx == t * x  tp == t * P
      <4>1. tx \in Int /\ tp \in Int /\ tx >= tp /\ tp >= e - total BY ONLY <3>4, <3>5
      <4> HIDE DEF tx, tp
      <4>2. tx >= e - total BY ONLY <4>1, <3>3, <1>11
      <4> QED BY ONLY <4>2 DEF tx
    <3>7. t * x <= e + total \/ x = least
      <4>1. t * P <= e + total BY ONLY <3>5
      <4> QED BY ONLY <4>1, <3>1, Zenon
    <3> QED BY ONLY <3>6, <3>7 DEF t
  <2> QED BY <2>1, <2>4, <2>7, <1>10
<1>15. \/ n < Len(ranked)
       \/ \E i \in 1..n - 1 : d(i) = least
       \/ 2 * total * d(n) <= 2 * layers * cap[plan[n].peer] + (n - 1) * total
  <2>1. ASSUME n = N, \A i \in 1..n - 1 : d(i) # least
        PROVE  2 * total * d(n) <= 2 * layers * cap[plan[n].peer] + (n - 1) * total
    <3>1. cursor \in [0..Len(caps) -> Nat] /\ cursor[0] = 0
          /\ SharesOut(cursor, Len(caps), caps, layers, least)
      BY <1>2, <1>4, <1>5, <1>6, <2>1 DEF Hands
    <3>2. 2 * total * (layers - cursor[n - 1]) <= 2 * layers * caps[n] + (n - 1) * total
      BY <2>1, <3>1, <1>2, LastShare DEF total
    <3>3. d(n) = layers - cursor[n - 1] /\ caps[n] = cap[plan[n].peer]
      BY <1>1, <1>2, <1>6, <1>10, <2>1
    <3> QED BY <3>2, <3>3
  <2>2. n = N \/ n < N BY <1>1
  <2>3. N = Len(ranked) BY DEF N
  <2> HIDE DEF d
  <2> QED BY <2>1, <2>2, <2>3, Zenon
<1>16. \A i \in 1..n - 1 : d(i) = plan[i].to - plan[i].from BY <1>1, <1>10
<1>17. d(n) = plan[n].to - plan[n].from BY <1>10
<1> HIDE DEF d
<1>18. Len(plan) = n BY <1>10
<1>19. Proportional(plan, ranked, layers, least)
  <2>1. ASSUME NEW i \in 1..n - 1
        PROVE  /\ plan[i].to = plan[i + 1].from
               /\ plan[i].peer = ranked[i] /\ plan[i + 1].peer = ranked[i + 1]
               /\ \/ 2 * total * (plan[i].to - plan[i].from) <= 2 * layers * cap[plan[i].peer] + total
                  \/ plan[i].to - plan[i].from = least
               /\ \/ 2 * total * (plan[i].to - plan[i].from) >= 2 * layers * cap[plan[i].peer] - total
                  \/ plan[i].to = layers
    <3>1. d(i) = plan[i].to - plan[i].from BY <1>16, Zenon
    <3> QED BY ONLY i \in 1..n - 1, <1>14, <3>1, Zenon
  <2>2. \/ n < Len(ranked)
        \/ \E i \in 1..n - 1 : plan[i].to - plan[i].from = least
        \/ 2 * total * (plan[n].to - plan[n].from) <= 2 * layers * cap[plan[n].peer] + (n - 1) * total
    BY ONLY <1>15, <1>16, <1>17, Zenon
  <2>3. total = Total([i \in DOMAIN ranked |-> cap[ranked[i]]]) BY ONLY <1>11
  <2> QED BY ONLY <1>12, <1>13, <1>18, <2>1, <2>2, <2>3, Zenon DEF Proportional
<1> QED BY <1>19 DEF plan

\* The number of peers the swarm-aware scheduler uses.
LEMMA UsedIsSome ==
  ASSUME NEW most \in Nat \ {0}, NEW layers \in Nat, NEW least \in Nat
  PROVE  \E n \in 1..most : /\ n = 1 \/ layers >= least * n
                            /\ \A m \in n + 1..most : layers < least * m
<1> DEFINE Enough(n) == n = 1 \/ layers >= least * n
           T == {k \in 0..most - 1 : Enough(most - k)}
<1>1. most - 1 \in T /\ T \subseteq Nat OBVIOUS
<1>2. PICK k \in T : \A j \in T : k <= j
  <2> HIDE DEF T
  <2> QED BY <1>1, LeastNat
<1> DEFINE n == most - k
<1>3. n \in 1..most /\ Enough(n) BY <1>2
<1>4. ASSUME NEW m \in n + 1..most PROVE layers < least * m
  <2>1. most - m \in 0..most - 1 /\ most - m < k /\ most - (most - m) = m /\ m # 1 /\ m \in Nat
    BY <1>2, <1>3
  <2> HIDE DEF Enough, n
  <2>2. most - m \notin T BY <2>1, <1>2
  <2>3. ~Enough(m) BY <2>1, <2>2
  <2>4. least * m \in Int BY <2>1
  <2> QED BY <2>1, <2>3, <2>4 DEF Enough
<1> HIDE DEF n
<1> QED BY <1>3, <1>4 DEF Enough

LEMMA RankedPeers ==
  ASSUME Peers # {}, cap \in [Peers -> Nat \ {0}]
  PROVE  /\ Ranked(Peers, cap, [p \in Peers |-> 0]) \in Seq(Peers)
         /\ Ranked(Peers, cap, [p \in Peers |-> 0]) # <<>>
<1> DEFINE rep == [p \in Peers |-> 0]
           ranked == Ranked(Peers, cap, rep)
           n == Cardinality(Peers)
<1>1. Peers \in SUBSET Nat /\ IsFiniteSet(Peers) BY SwarmAssumption
<1>2. \A p \in Peers : cap[p] \in Nat /\ rep[p] \in Nat OBVIOUS
<1>3. n \in Nat \ {0} BY <1>1, FS_CardinalityType, FS_EmptySet
<1> HIDE DEF rep, n
<1>4. ranked \in [1..n -> Peers] BY <1>1, <1>2, RankedLists DEF ListsOnce, n
<1> HIDE DEF ranked
<1>5. ranked \in Seq(Peers) /\ Len(ranked) = n BY <1>3, <1>4
<1>6. ranked # <<>> BY <1>3, <1>5
<1> QED BY <1>5, <1>6 DEF ranked, rep

\* Both schedulers, for the peers at hand.
LEMMA PlansShare ==
  ASSUME Peers # {}, MaxDepth # 0, cap \in [Peers -> Nat \ {0}], NEW m \in Models
  PROVE  LET layers == LayerCounts[m]
             rep == [p \in Peers |-> 0]
             byStrength == Ranked(Peers, cap, rep)
         IN /\ Proportional(GreedyPlan(Peers, cap, rep, layers), byStrength, layers, 1)
            /\ \E n \in 1..Smallest(MaxDepth, Len(byStrength)) :
                 Proportional(SwarmAwarePlan(Peers, cap, rep, Peers, layers, MaxDepth, Least),
                              SubSeq(byStrength, 1, n), layers, Least)
<1> DEFINE layers == LayerCounts[m]
           rep == [p \in Peers |-> 0]
           byStrength == Ranked(Peers, cap, rep)
           greedy == GreedyPlan(Peers, cap, rep, layers)
           swarmed == SwarmAwarePlan(Peers, cap, rep, Peers, layers, MaxDepth, Least)
           most == Smallest(Len(byStrength), MaxDepth)
           used == CHOOSE n \in 1..most : /\ n = 1 \/ layers >= Least * n
                                          /\ \A k \in n + 1..most : layers < Least * k
           chosen == SubSeq(byStrength, 1, used)
<1>1. layers \in Nat \ {0} BY LayersArePositive
<1>2. byStrength \in Seq(Peers) /\ byStrength # <<>> BY RankedPeers
<1>3. \A p \in Peers : cap[p] # 0 OBVIOUS
<1>4. greedy = Stages(byStrength, cap, layers, 1)
  <2>1. ~(Peers = {} \/ layers = 0 \/ \A p \in Peers : cap[p] = 0) BY <1>1, <1>3
  <2> HIDE DEF layers, rep
  <2> QED BY <2>1 DEF GreedyPlan
<1>5. Peers \cap Peers = Peers OBVIOUS
<1>6. swarmed = IF byStrength = <<>> \/ layers = 0 \/ \A i \in 1..used : cap[chosen[i]] = 0
                THEN <<>> ELSE Stages(chosen, cap, layers, Least)
  <2> HIDE DEF layers, rep
  <2> DEFINE Use(q) == CHOOSE n \in 1..Smallest(Len(q), MaxDepth) :
                         /\ n = 1 \/ layers >= Least * n
                         /\ \A k \in n + 1..Smallest(Len(q), MaxDepth) : layers < Least * k
             Plan(q) == IF \/ q = <<>> \/ layers = 0
                           \/ \A i \in 1..Use(q) : cap[SubSeq(q, 1, Use(q))[i]] = 0
                        THEN <<>> ELSE Stages(SubSeq(q, 1, Use(q)), cap, layers, Least)
  <2>1. swarmed = Plan(Ranked(Peers \cap Peers, cap, rep)) BY DEF SwarmAwarePlan
  <2>2. swarmed = Plan(byStrength)
    <3> HIDE DEF Plan
    <3> QED BY <2>1, <1>5
  <2> QED BY <2>2
<1> HIDE DEF layers, rep, byStrength, greedy, swarmed
<1>7. Least \in Nat \ {0} /\ MaxDepth \in Nat \ {0} BY FormationAssumption
<1>8. Len(byStrength) \in Nat \ {0} BY <1>2
<1>9. most \in Nat \ {0} /\ most <= Len(byStrength)
      /\ most = Smallest(MaxDepth, Len(byStrength))
  BY <1>7, <1>8 DEF Smallest
<1> HIDE DEF most
<1>10. used \in 1..most BY <1>1, <1>7, <1>9, UsedIsSome
<1> HIDE DEF used
<1>11. chosen \in Seq(Peers) /\ chosen # <<>> /\ \A i \in 1..used : chosen[i] \in Peers
  <2>1. used \in Nat /\ 1 <= used /\ used <= Len(byStrength) BY <1>9, <1>10
  <2>2. chosen \in Seq(Peers) /\ Len(chosen) = used BY <1>2, <2>1
  <2> HIDE DEF chosen
  <2> QED BY <2>1, <2>2
<1> HIDE DEF chosen
<1>12. swarmed = Stages(chosen, cap, layers, Least)
  <2>1. 1 \in 1..used BY <1>9, <1>10
  <2>2. cap[chosen[1]] # 0 BY <2>1, <1>3, <1>11
  <2> QED BY <2>1, <2>2, <1>1, <1>2, <1>6
<1>13. Proportional(greedy, byStrength, layers, 1)
  BY <1>1, <1>2, <1>4, StagesProportional
<1>14. Proportional(swarmed, chosen, layers, Least)
  BY <1>1, <1>7, <1>11, <1>12, StagesProportional
<1>15. \E n \in 1..Smallest(MaxDepth, Len(byStrength)) :
         Proportional(swarmed, SubSeq(byStrength, 1, n), layers, Least)
  BY <1>9, <1>10, <1>14 DEF chosen
<1> QED BY <1>13, <1>15 DEF layers, rep, byStrength, greedy, swarmed

\* The plans of both schedulers for the peers at hand and each of the models.
PlansProportional ==
  \A m \in Models :
    LET layers == LayerCounts[m]
        rep == [p \in Peers |-> 0]
        byStrength == Ranked(Peers, cap, rep)
        greedy == GreedyPlan(Peers, cap, rep, layers)
        swarmed == SwarmAwarePlan(Peers, cap, rep, Peers, layers, MaxDepth, Least)
    IN /\ Proportional(greedy, byStrength, layers, 1)
       /\ \E n \in 1..Smallest(MaxDepth, Len(byStrength)) :
            Proportional(swarmed, SubSeq(byStrength, 1, n), layers, Least)

\* plan of GreedyScheduler and SwarmAwareScheduler, for all capacities, every
\* number of peers and layers and every least: the layers go, each once and in
\* the order of the peers' strength, to each peer by its share of the memory to
\* half a layer, or the least, or what is left; the last peer gets what the others
\* leave, be it less than the least.  There is a peer, and a pipeline may have a
\* stage: without, the schedulers answer with an error.
THEOREM SwarmPlansProportionally ==
  ASSUME Peers # {}, MaxDepth # 0
  PROVE  SwarmSpec => []PlansProportional
<1>1. MembersInv => PlansProportional
  <2>1. SUFFICES ASSUME MembersInv, NEW m \in Models
        PROVE LET layers == LayerCounts[m]
                  rep == [p \in Peers |-> 0]
                  byStrength == Ranked(Peers, cap, rep)
              IN /\ Proportional(GreedyPlan(Peers, cap, rep, layers), byStrength, layers, 1)
                 /\ \E n \in 1..Smallest(MaxDepth, Len(byStrength)) :
                      Proportional(SwarmAwarePlan(Peers, cap, rep, Peers, layers, MaxDepth, Least),
                                   SubSeq(byStrength, 1, n), layers, Least)
    BY DEF PlansProportional
  <2> QED BY <2>1, PlansShare DEF MembersInv
<1> QED BY <1>1, MembersSound, PTL

-----------------------------------------------------------------------------
(* A call of a cloud model.  The request: the turns are the messages the      *)
(* protocol takes as turns, in order.                                          *)

\* A list in order rises.
LEMMA AscendingRises ==
  ASSUME NEW S \in SUBSET Nat, IsFiniteSet(S),
         NEW j \in 1..Cardinality(S), NEW k \in 1..Cardinality(S), j < k
  PROVE  Ascending(S)[j] < Ascending(S)[k]
<1> DEFINE before == {e \in S \X S : e[1] < e[2]}
<1>1. StrictOrder(S, before)
  <2>1. \A x, y \in S : <<x, y>> \in before <=> x < y OBVIOUS
  <2>2. \A x \in S : x \in Nat OBVIOUS
  <2> HIDE DEF before
  <2> QED BY <2>1, <2>2 DEF StrictOrder
<1>2. Ascending(S) = OrderedBy(S, before) BY DEF Ascending
<1>3. \A x, y : <<x, y>> \in before => x < y OBVIOUS
<1> HIDE DEF before
<1> QED BY <1>1, <1>2, <1>3, OrderedLists

\* What AskedIsConversation says of one request.
Conversing(m, a) ==
  LET turns == a.turns
      said == {turns[k].of : k \in DOMAIN turns}
      systems == {i \in DOMAIN m : m[i] = "system"}
  IN
  /\ \A k, l \in DOMAIN turns : k < l => turns[k].of < turns[l].of
  /\ DOMAIN m \ systems \subseteq said
  /\ systems # {} => (said \cup a.system) \cap systems # {}
  /\ \A k \in DOMAIN turns :
       turns[k].role \in {"assistant", "model"} <=> m[turns[k].of] = "assistant"

LEMMA BodyConverses ==
  ASSUME NEW p, NEW m \in Seq(Kinds)
  PROVE  Conversing(m, Body(p, m))
<1> DEFINE S == {i \in DOMAIN m : TurnOf(p, m, i)}
           q == Ascending(S)
           systems == {i \in DOMAIN m : m[i] = "system"}
           turns == Body(p, m).turns
           system == Body(p, m).system
           said == {turns[k].of : k \in DOMAIN turns}
<1>1. DOMAIN m = 1..Len(m) /\ Len(m) \in Nat /\ \A i \in DOMAIN m : m[i] \in Kinds OBVIOUS
<1>2. S \in SUBSET Nat /\ IsFiniteSet(S) /\ Cardinality(S) \in Nat
  <2>1. S \subseteq 1..Len(m) BY <1>1
  <2>2. IsFiniteSet(1..Len(m)) BY <1>1, FS_Interval
  <2>3. IsFiniteSet(S) BY <2>1, <2>2, FS_Subset
  <2> HIDE DEF S
  <2> QED BY <2>1, <2>3, FS_CardinalityType
<1>3. /\ q \in [1..Cardinality(S) -> S]
      /\ \A x \in S : \E k \in 1..Cardinality(S) : q[k] = x
      /\ \A j, k \in 1..Cardinality(S) : j < k => q[j] < q[k]
  <2> HIDE DEF S
  <2> QED BY <1>2, AscendingLists, AscendingRises DEF ListsOnce
<1>4. /\ turns = [k \in DOMAIN q |-> [role |-> Role(p, m[q[k]]), of |-> q[k]]]
      /\ system = IF Apart(p) /\ systems # {}
                  THEN {CHOOSE i \in systems : \A j \in systems : i <= j} ELSE {}
  BY DEF Body
<1>5. /\ \A i \in DOMAIN m \ systems : i \in S
      /\ ~Apart(p) => S = DOMAIN m
      /\ S \subseteq DOMAIN m
  BY DEF TurnOf
<1>6. systems \subseteq Nat /\ \A i \in systems : m[i] = "system" BY <1>1
<1>7. systems # {} /\ Apart(p) => system \cap systems # {}
  <2> SUFFICES ASSUME systems # {}, Apart(p) PROVE system \cap systems # {} OBVIOUS
  <2>1. \E i \in systems : \A j \in systems : i <= j
    <3> HIDE DEF systems
    <3> QED BY <1>6, LeastNat
  <2>2. (CHOOSE i \in systems : \A j \in systems : i <= j) \in systems
    <3> HIDE DEF systems
    <3> QED BY <2>1
  <2> HIDE DEF systems, system
  <2> QED BY <1>4, <2>2
<1>8. \A kind \in Kinds : Role(p, kind) \in {"assistant", "model"} <=> kind = "assistant"
  BY DEF Role, Kinds
<1>9. DOMAIN turns = 1..Cardinality(S) /\ \A k \in 1..Cardinality(S) :
        turns[k].of = q[k] /\ turns[k].role = Role(p, m[q[k]]) /\ q[k] \in S
  <2> HIDE DEF turns, q, S
  <2> QED BY <1>3, <1>4
<1>10. said = S
  <2> HIDE DEF turns, q, S
  <2>1. \A x \in said : x \in S BY <1>9
  <2>2. \A x \in S : x \in said BY <1>3, <1>9
  <2> HIDE DEF said
  <2> QED BY <2>1, <2>2
<1>11. \A k, l \in DOMAIN turns : k < l => turns[k].of < turns[l].of
  <2> HIDE DEF turns, q, S
  <2> QED BY <1>3, <1>9
<1>12. \A k \in DOMAIN turns :
         turns[k].role \in {"assistant", "model"} <=> m[turns[k].of] = "assistant"
  <2> HIDE DEF turns, q, S
  <2> QED BY <1>1, <1>5, <1>8, <1>9
<1>13. DOMAIN m \ systems \subseteq said
  <2> HIDE DEF said, systems, S
  <2> QED BY <1>5, <1>10
<1>14. systems # {} => (said \cup system) \cap systems # {}
  <2>1. systems \subseteq DOMAIN m OBVIOUS
  <2> HIDE DEF said, systems, S, system
  <2> QED BY <1>5, <1>7, <1>10, <2>1
<1> HIDE DEF turns, system, S, q
<1> QED BY <1>11, <1>12, <1>13, <1>14 DEF Conversing, turns, system

\* A reply whose texts are first is as it was.
LEMMA TextsAreFirst ==
  ASSUME NEW r \in Seq([is : {"text", "tool"}, n : Nat]),
         \A i, j \in DOMAIN r : i < j => ~(IsText(r[j]) /\ ~IsText(r[i]))
  PROVE  TextFirst(r) = r
<1> DEFINE n == Len(r)
           T == {i \in DOMAIN r : IsText(r[i])}
           O == {i \in DOMAIN r : ~IsText(r[i])}
<1>1. n \in Nat /\ DOMAIN r = 1..n OBVIOUS
<1>2. \E t \in 0..n : T = 1..t /\ O = t + 1..n
  <2>1. CASE O = {}
    <3>1. T = 1..n /\ O = n + 1..n BY <2>1, <1>1
    <3> QED BY <3>1, <1>1
  <2>2. CASE O # {}
    <3>1. O \subseteq Nat BY <1>1
    <3>2. PICK o \in O : \A y \in O : o <= y
      <4> HIDE DEF O
      <4> QED BY <2>2, <3>1, LeastNat
    <3>3. o \in 1..n BY <1>1
    <3>4. \A i \in 1..n : i >= o => ~IsText(r[i]) BY <1>1, <3>2
    <3>5. \A i \in 1..n : i < o => IsText(r[i]) BY <1>1, <3>2
    <3>6. T = 1..o - 1 /\ O = (o - 1) + 1..n BY <1>1, <3>3, <3>4, <3>5
    <3>7. o - 1 \in 0..n BY <3>3
    <3> QED BY <3>6, <3>7
  <2> QED BY <2>1, <2>2
<1>3. PICK t \in 0..n : T = 1..t /\ O = t + 1..n BY <1>2
<1> DEFINE f == [k \in 1..t |-> k]
           g == [k \in 1..n - t |-> t + k]
<1>4. Ascending(T) = f
  <2>1. Ascending(0 + 1..t) = [k \in 1..t - 0 |-> 0 + k]
    <3>1. 0 \in Nat /\ t \in Nat /\ 0 <= t BY <1>1
    <3> HIDE DEF f, g, T, O
    <3> QED BY ONLY <3>1, IntervalAscends
  <2>2. t - 0 = t /\ 0 + 1 = 1 /\ \A k \in 1..t : 0 + k = k OBVIOUS
  <2>3. [k \in 1..t - 0 |-> 0 + k] = f BY <2>2
  <2> QED BY <1>3, <2>1, <2>2, <2>3
<1>5. Ascending(O) = g
  <2>1. t \in Nat /\ n \in Nat /\ t <= n BY <1>1
  <2>2. Ascending(t + 1..n) = g BY <2>1, IntervalAscends
  <2> QED BY <1>3, <2>2
<1>6. TextFirst(r) = [k \in DOMAIN (f \o g) |-> r[(f \o g)[k]]]
  <2> HIDE DEF f, g
  <2> QED BY <1>4, <1>5 DEF TextFirst
<1>7. f \in Seq(Nat) /\ g \in Seq(Nat) /\ Len(f) = t /\ Len(g) = n - t BY <1>1
<1>8. DOMAIN (f \o g) = 1..n /\ \A k \in 1..n : (f \o g)[k] = k
  <2>0. \A k \in 1..n : (f \o g)[k] = IF k <= t THEN f[k] ELSE g[k - t]
    <3> HIDE DEF f, g
    <3>1. \A k \in 1..Len(f) + Len(g) : (f \o g)[k] = IF k <= Len(f) THEN f[k] ELSE g[k - Len(f)]
      BY <1>7, ConcatProperties
    <3>2. t + (n - t) = n BY <1>1
    <3> QED BY ONLY <3>1, <3>2, <1>7
  <2>1. DOMAIN (f \o g) = 1..n
    <3> HIDE DEF f, g
    <3>1. f \o g \in Seq(Nat) /\ Len(f \o g) = t + (n - t) BY <1>7, ConcatProperties
    <3>2. t + (n - t) = n BY <1>1
    <3> QED BY <3>1, <3>2
  <2>2. ASSUME NEW k \in 1..n PROVE (f \o g)[k] = k
    <3>1. CASE k <= t
      <4>1. f[k] = k BY <3>1
      <4> HIDE DEF f, g
      <4>2. (f \o g)[k] = f[k] BY <2>0, <3>1
      <4> QED BY ONLY <4>1, <4>2
    <3>2. CASE k > t
      <4>1. k - t \in 1..n - t BY <3>2, <1>1
      <4>2. g[k - t] = k BY <4>1
      <4> HIDE DEF f, g
      <4>3. ~(k <= t) BY <3>2, <1>1
      <4>4. (f \o g)[k] = g[k - t] BY <2>0, <4>3
      <4> QED BY ONLY <4>2, <4>4
    <3> QED BY <3>1, <3>2, <1>1
  <2> QED BY <2>1, <2>2
<1> HIDE DEF f, g
<1>9. TextFirst(r) = [k \in 1..n |-> r[k]] BY <1>6, <1>8
<1> QED BY <1>1, <1>9

-----------------------------------------------------------------------------
(* The units between the provider and the caller: those in the parser's       *)
(* buffer and those on their way, as one window that the reader only shortens *)
(* from the front and the provider only lengthens at the end.                 *)

UnitKinds == {"data", "text", "head", "tail", "bad", "nl", "comment", "note", "done"}
Units == [is : UnitKinds, n : Nat]
Yielded == [n : Nat, whole : BOOLEAN]

TextIn(w, i) == w[i].is = "text"
\* A text is the second unit of its line, and three units long; the line ends
\* with it, or the stream does.
TextAt(w, i) ==
  /\ i > 1 /\ w[i - 1].is = "data" /\ (i = 2 \/ w[i - 2].is = "nl")
  /\ i + 2 <= Len(w) /\ w[i + 1].is \in {"head", "bad"} /\ w[i + 2].is \in {"tail", "bad"}
  /\ i + 3 <= Len(w) => w[i + 3].is = "nl"
DoneAt(w, i) ==
  /\ i > 1 /\ w[i - 1].is = "data" /\ (i = 2 \/ w[i - 2].is = "nl")
  /\ i + 1 = Len(w)

\* The texts of a window are where a text may be, and so is the sentinel.
LinesOK(w) ==
  \A i \in 1..Len(w) : /\ w[i].is = "text" => TextAt(w, i)
                       /\ w[i].is = "done" => DoneAt(w, i)
\* The texts of a window are those from first to last, in order.
TextsOK(w, first, last) ==
  /\ \A i, j \in 1..Len(w) : TextIn(w, i) /\ TextIn(w, j) /\ i < j => w[i].n < w[j].n
  /\ \A i \in 1..Len(w) : TextIn(w, i) => w[i].n \in first..last
  /\ \A n \in first..last : \E i \in 1..Len(w) : TextIn(w, i) /\ w[i].n = n
EndsLine(w) == w = << >> \/ w[Len(w)].is = "nl"
NoneIs(w, kind) == \A i \in 1..Len(w) : w[i].is # kind

\* The texts handed on are the first of those sent, in order.
HandedInOrder(o, s) == /\ o \in Seq(Yielded) /\ Len(o) <= s
                       /\ \A i \in 1..Len(o) : o[i].n = i
\* What is on its way is whole lines, with the texts that are not handed on yet.
StreamOK(w, o, s, l) ==
  /\ LinesOK(w) /\ TextsOK(w, Len(o) + 1, s) /\ HandedInOrder(o, s)
  /\ l = "open" => EndsLine(w) /\ NoneIs(w, "done")
Flowing == /\ buffer \in Seq(Units) /\ pipe \in Seq(Units) /\ mode = "stream"
           /\ StreamOK(buffer \o pipe, out, sent, line)
\* A call that ended without an error has handed on all there was.
Ended == IF mode = "stream" THEN line # "open" /\ HandedInOrder(out, sent) /\ Len(out) = sent
         ELSE out = reply
\* Nothing is read before the request is accepted.
NotYet == /\ buffer = << >> /\ pipe = << >> /\ out = << >> /\ sent = 0
          /\ line = "open" /\ result = "none"
Calls == /\ messages \in Conversations /\ sent \in Nat
         /\ asked \in {[system |-> {}, turns |-> << >>], Body(protocol, messages)}
CloudInv ==
  /\ Calls
  /\ phase \in {"new", "loaded", "asking"} => NotYet
  /\ EventStream(protocol) /\ phase = "reading" => Flowing
  /\ EventStream(protocol) /\ phase = "over" /\ result = "ended" => Ended

LEMMA TextsKept ==
  ASSUME NEW v, NEW w, NEW first, NEW last, TextsOK(v, first, last), Len(v) = Len(w),
         \A i \in 1..Len(v) : w[i].n = v[i].n /\ (w[i].is = "text" <=> v[i].is = "text")
  PROVE  TextsOK(w, first, last)
BY DEF TextsOK, TextIn

\* The same units, but that halves of characters may have been spoilt.
SameUnits(v, w) ==
  /\ Len(v) = Len(w)
  /\ \A i \in 1..Len(v) :
       /\ w[i].n = v[i].n
       /\ w[i].is = v[i].is \/ (v[i].is \in {"head", "tail"} /\ w[i].is = "bad")

LEMMA WindowKept ==
  ASSUME NEW v \in Seq(Units), NEW w \in Seq(Units), SameUnits(v, w), NEW first, NEW last
  PROVE  /\ LinesOK(v) => LinesOK(w)
         /\ TextsOK(v, first, last) => TextsOK(w, first, last)
         /\ EndsLine(v) => EndsLine(w)
         /\ NoneIs(v, "done") => NoneIs(w, "done")
<1>1. Len(v) = Len(w) /\ Len(v) \in Nat BY DEF SameUnits
<1>2. \A i \in 1..Len(v) : \A kind \in {"text", "data", "nl", "done"} : w[i].is = kind <=> v[i].is = kind
  BY DEF SameUnits
<1>3. \A i \in 1..Len(v) : /\ v[i].is \in {"head", "bad"} => w[i].is \in {"head", "bad"}
                           /\ v[i].is \in {"tail", "bad"} => w[i].is \in {"tail", "bad"}
  BY DEF SameUnits
<1>4. ASSUME LinesOK(v) PROVE LinesOK(w)
  <2> SUFFICES ASSUME NEW i \in 1..Len(w)
               PROVE  /\ w[i].is = "text" => TextAt(w, i)
                      /\ w[i].is = "done" => DoneAt(w, i)
    BY DEF LinesOK
  <2>1. CASE w[i].is = "text"
    <3>1. TextAt(v, i) BY <1>1, <1>2, <1>4, <2>1 DEF LinesOK
    <3>2. i > 1 /\ w[i - 1].is = "data" /\ (i = 2 \/ w[i - 2].is = "nl")
      BY <1>1, <1>2, <3>1 DEF TextAt
    <3>3. i + 2 <= Len(w) /\ w[i + 1].is \in {"head", "bad"} /\ w[i + 2].is \in {"tail", "bad"}
      BY <1>1, <1>3, <3>1 DEF TextAt
    <3>4. i + 3 <= Len(w) => w[i + 3].is = "nl" BY <1>1, <1>2, <3>1 DEF TextAt
    <3> QED BY <2>1, <3>2, <3>3, <3>4 DEF TextAt
  <2>2. CASE w[i].is = "done"
    <3>1. DoneAt(v, i) BY <1>1, <1>2, <1>4, <2>2 DEF LinesOK
    <3>2. DoneAt(w, i) BY <1>1, <1>2, <3>1 DEF DoneAt
    <3> QED BY <2>2, <3>2
  <2> QED BY <2>1, <2>2
<1>5. TextsOK(v, first, last) => TextsOK(w, first, last)
  <2>1. \A i \in 1..Len(v) : w[i].n = v[i].n /\ (w[i].is = "text" <=> v[i].is = "text")
    BY <1>2 DEF SameUnits
  <2> QED BY <1>1, <2>1, TextsKept
<1>6. EndsLine(v) => EndsLine(w)
  <2>1. (v = << >> <=> Len(v) = 0) /\ (w = << >> <=> Len(w) = 0) OBVIOUS
  <2>2. Len(v) # 0 => Len(v) \in 1..Len(v) BY <1>1
  <2> QED BY <1>1, <1>2, <2>1, <2>2 DEF EndsLine
<1>7. NoneIs(v, "done") => NoneIs(w, "done") BY <1>1, <1>2 DEF NoneIs
<1> QED BY <1>4, <1>5, <1>6, <1>7

\* What one unit of a chunk is decoded to.
LEMMA DecodedUnits ==
  ASSUME NEW q \in Seq(Units)
  PROVE  Decoded(q) \in Seq(Units) /\ SameUnits(q, Decoded(q))
<1>1. DOMAIN q = 1..Len(q) /\ Len(q) \in Nat /\ \A i \in 1..Len(q) : q[i] \in Units OBVIOUS
<1>2. \A i \in 1..Len(q) : U("bad", q[i].n) \in Units /\ U("bad", q[i].n).is = "bad"
                           /\ U("bad", q[i].n).n = q[i].n
  BY <1>1 DEF U, Units, UnitKinds
<1>3. PICK d : d = Decoded(q) OBVIOUS
<1>4. /\ d = [i \in 1..Len(q) |-> d[i]]
      /\ \A i \in 1..Len(q) : \/ d[i] = q[i]
                              \/ q[i].is \in {"head", "tail"} /\ d[i] = U("bad", q[i].n)
  <2>1. DOMAIN q = 1..Len(q) BY <1>1
  <2>2. d = [i \in DOMAIN q |->
               IF (q[i].is = "head" /\ i = Len(q)) \/ (q[i].is = "tail" /\ i = 1)
               THEN U("bad", q[i].n) ELSE q[i]]
    BY <1>3, Zenon DEF Decoded
  <2>3. ASSUME NEW i \in 1..Len(q)
        PROVE  \/ d[i] = q[i]
               \/ q[i].is \in {"head", "tail"} /\ d[i] = U("bad", q[i].n)
    <3>1. d[i] = IF (q[i].is = "head" /\ i = Len(q)) \/ (q[i].is = "tail" /\ i = 1)
                 THEN U("bad", q[i].n) ELSE q[i]
      BY <2>1, <2>2
    <3> QED BY <3>1
  <2>4. d = [i \in 1..Len(q) |-> d[i]] BY <2>1, <2>2
  <2> QED BY <2>3, <2>4
<1>5. \A i \in 1..Len(q) : d[i] \in Units BY <1>1, <1>2, <1>4
<1>6. d \in Seq(Units) /\ Len(d) = Len(q)
  <2>1. d \in [1..Len(q) -> Units] BY <1>4, <1>5
  <2> QED BY <1>1, <2>1
<1>7. SameUnits(q, d)
  <2>1. ASSUME NEW i \in 1..Len(q)
        PROVE  /\ d[i].n = q[i].n
               /\ d[i].is = q[i].is \/ (q[i].is \in {"head", "tail"} /\ d[i].is = "bad")
    <3>1. CASE d[i] = q[i] BY <3>1
    <3>2. CASE q[i].is \in {"head", "tail"} /\ d[i] = U("bad", q[i].n) BY <3>2, <1>2
    <3> QED BY <3>1, <3>2, <1>4
  <2> QED BY <1>6, <2>1 DEF SameUnits
<1> QED BY <1>3, <1>6, <1>7

\* The units of two sequences, one after the other.
FollowedBy(w, us) == w \o us

\* Three pieces of a stream can be put together in either order.
LEMMA UnitsAssociate ==
  ASSUME NEW a \in Seq(Units), NEW b \in Seq(Units), NEW c \in Seq(Units)
  PROVE  (a \o b) \o c = a \o (b \o c)
  BY ConcatAssociative


LEMMA Joined ==
  ASSUME NEW w \in Seq(Units), NEW us \in Seq(Units), NEW v, v = FollowedBy(w, us)
  PROVE  /\ v \in Seq(Units) /\ Len(v) = Len(w) + Len(us)
         /\ \A i \in 1..Len(w) : i \in 1..Len(v) /\ v[i] = w[i]
         /\ \A i \in 1..Len(us) : i + Len(w) \in 1..Len(v) /\ v[i + Len(w)] = us[i]
         /\ \A i \in 1..Len(v) : i > Len(w) =>
              i - Len(w) \in 1..Len(us) /\ v[i] = us[i - Len(w)] /\ i = (i - Len(w)) + Len(w)
<1>1. /\ v \in Seq(Units) /\ Len(v) = Len(w) + Len(us)
      /\ \A i \in 1..Len(w) + Len(us) : v[i] = IF i <= Len(w) THEN w[i] ELSE us[i - Len(w)]
  BY ConcatProperties DEF FollowedBy
<1>2. Len(w) \in Nat /\ Len(us) \in Nat OBVIOUS
<1>3. ASSUME NEW i \in 1..Len(us)
      PROVE  i + Len(w) \in 1..Len(v) /\ v[i + Len(w)] = us[i]
  <2>1. i + Len(w) \in 1..Len(w) + Len(us) /\ ~(i + Len(w) <= Len(w)) /\ (i + Len(w)) - Len(w) = i
    BY <1>2
  <2> QED BY <1>1, <2>1
<1>4. ASSUME NEW i \in 1..Len(w) PROVE i \in 1..Len(v) /\ v[i] = w[i]
  <2>1. i \in 1..Len(w) + Len(us) /\ i <= Len(w) BY <1>2
  <2> QED BY <1>1, <2>1
<1>5. ASSUME NEW i \in 1..Len(v), i > Len(w)
      PROVE  i - Len(w) \in 1..Len(us) /\ v[i] = us[i - Len(w)] /\ i = (i - Len(w)) + Len(w)
  <2>1. i \in 1..Len(w) + Len(us) /\ ~(i <= Len(w)) BY <1>1, <1>2, <1>5
  <2>2. i - Len(w) \in 1..Len(us) /\ i = (i - Len(w)) + Len(w) BY <2>1, <1>2
  <2> QED BY <1>1, <2>1, <2>2
<1> QED BY <1>1, <1>3, <1>4, <1>5

LEMMA SameJoined ==
  ASSUME NEW u1 \in Seq(Units), NEW u2 \in Seq(Units), NEW v1 \in Seq(Units), NEW v2 \in Seq(Units),
         SameUnits(u1, v1), SameUnits(u2, v2)
  PROVE  SameUnits(u1 \o u2, v1 \o v2)
<1>1. PICK u : u = FollowedBy(u1, u2) OBVIOUS
<1>2. PICK v : v = FollowedBy(v1, v2) OBVIOUS
<1>3. /\ Len(u) = Len(u1) + Len(u2)
      /\ \A i \in 1..Len(u1) : i \in 1..Len(u) /\ u[i] = u1[i]
      /\ \A i \in 1..Len(u) : i > Len(u1) =>
           i - Len(u1) \in 1..Len(u2) /\ u[i] = u2[i - Len(u1)] /\ i = (i - Len(u1)) + Len(u1)
  BY <1>1, Joined
<1>4. /\ Len(v) = Len(v1) + Len(v2)
      /\ \A i \in 1..Len(v1) : i \in 1..Len(v) /\ v[i] = v1[i]
      /\ \A i \in 1..Len(v2) : i + Len(v1) \in 1..Len(v) /\ v[i + Len(v1)] = v2[i]
  BY <1>2, Joined
<1>5. Len(u1) \in Nat /\ Len(u2) \in Nat /\ Len(u1) = Len(v1) /\ Len(u2) = Len(v2)
  BY DEF SameUnits
<1>6. ASSUME NEW i \in 1..Len(u)
      PROVE  /\ v[i].n = u[i].n
             /\ v[i].is = u[i].is \/ (u[i].is \in {"head", "tail"} /\ v[i].is = "bad")
  <2>1. CASE i <= Len(u1)
    <3>1. i \in 1..Len(u1) /\ i \in 1..Len(v1) BY <2>1, <1>5
    <3>2. u[i] = u1[i] /\ v[i] = v1[i] BY <3>1, <1>3, <1>4
    <3> QED BY <3>1, <3>2 DEF SameUnits
  <2>2. CASE i > Len(u1)
    <3>1. PICK j \in 1..Len(u2) : u[i] = u2[j] /\ i = j + Len(u1) BY <2>2, <1>3
    <3>2. j \in 1..Len(v2) /\ i = j + Len(v1) BY <3>1, <1>5
    <3>3. v[j + Len(v1)] = v2[j] BY <3>2, <1>4
    <3>4. v[i] = v2[j] BY <3>2, <3>3
    <3> QED BY <3>1, <3>4 DEF SameUnits
  <2>3. i <= Len(u1) \/ i > Len(u1) BY <1>3, <1>5
  <2> QED BY <2>1, <2>2, <2>3
<1>7. Len(u) = Len(v) BY <1>3, <1>4, <1>5
<1>8. SameUnits(u, v) BY <1>6, <1>7 DEF SameUnits
<1> QED BY <1>1, <1>2, <1>8 DEF FollowedBy

\* Reading a chunk leaves the window as it was, but for spoilt halves.
LEMMA ChunkRead ==
  ASSUME NEW b \in Seq(Units), NEW p \in Seq(Units), NEW k \in 1..Len(p)
  PROVE  /\ b \o Decoded(SubSeq(p, 1, k)) \in Seq(Units) /\ SubSeq(p, k + 1, Len(p)) \in Seq(Units)
         /\ SameUnits(b \o p, (b \o Decoded(SubSeq(p, 1, k))) \o SubSeq(p, k + 1, Len(p)))
<1>1. PICK c : c = SubSeq(p, 1, k) OBVIOUS
<1>2. PICK r : r = SubSeq(p, k + 1, Len(p)) OBVIOUS
<1>3. Len(p) \in Nat /\ k \in Nat OBVIOUS
<1>4. c \in Seq(Units) /\ r \in Seq(Units) BY <1>1, <1>2, <1>3
<1>5. p = c \o r
  <2>1. /\ 1 \in 1..Len(p) + 1 /\ k \in 1 - 1..Len(p) /\ Len(p) \in k..Len(p) BY <1>3
  <2>2. SubSeq(p, 1, k) \o SubSeq(p, k + 1, Len(p)) = SubSeq(p, 1, Len(p))
    BY <2>1, ConcatAdjacentSubSeq
  <2>3. SubSeq(p, 1, Len(p)) = p BY SubSeqFull
  <2> QED BY <2>2, <2>3, <1>1, <1>2
<1>6. PICK d : d = Decoded(c) OBVIOUS
<1>7. d \in Seq(Units) /\ SameUnits(c, d) BY <1>4, <1>6, DecodedUnits
<1>8. \A q \in Seq(Units) : SameUnits(q, q) BY DEF SameUnits
<1>9. b \o c \in Seq(Units) /\ b \o d \in Seq(Units) BY <1>4, <1>7
<1>10. SameUnits(b \o c, b \o d)
  <2>1. SameUnits(b, b) BY <1>8
  <2> QED BY <2>1, <1>4, <1>7, SameJoined
<1>11. SameUnits((b \o c) \o r, (b \o d) \o r)
  <2>1. SameUnits(r, r) BY <1>4, <1>8
  <2> QED BY <2>1, <1>4, <1>9, <1>10, SameJoined
<1>12. (b \o c) \o r = b \o p
  <2>1. (b \o c) \o r = b \o (c \o r) BY <1>4, UnitsAssociate
  <2> QED BY <2>1, <1>5
<1> QED BY <1>1, <1>2, <1>4, <1>6, <1>9, <1>11, <1>12

\* The provider's next lines, after whole lines.
LEMMA LinesJoined ==
  ASSUME NEW w \in Seq(Units), NEW us \in Seq(Units), NEW v, v = FollowedBy(w, us),
         LinesOK(w), EndsLine(w), NoneIs(w, "done"), LinesOK(us)
  PROVE  LinesOK(v)
<1>1. /\ Len(v) = Len(w) + Len(us) /\ Len(w) \in Nat /\ Len(us) \in Nat
      /\ \A i \in 1..Len(w) : i \in 1..Len(v) /\ v[i] = w[i]
      /\ \A i \in 1..Len(us) : i + Len(w) \in 1..Len(v) /\ v[i + Len(w)] = us[i]
      /\ \A i \in 1..Len(v) : i > Len(w) =>
           i - Len(w) \in 1..Len(us) /\ v[i] = us[i - Len(w)] /\ i = (i - Len(w)) + Len(w)
  BY ONLY w \in Seq(Units), us \in Seq(Units), v = FollowedBy(w, us), Joined
<1>2. Len(w) = 0 \/ w[Len(w)].is = "nl" BY DEF EndsLine
<1> SUFFICES ASSUME NEW i \in 1..Len(v)
             PROVE  /\ v[i].is = "text" => TextAt(v, i)
                    /\ v[i].is = "done" => DoneAt(v, i)
  BY DEF LinesOK
<1>3. CASE i <= Len(w)
  <2>1. i \in 1..Len(w) /\ v[i] = w[i]
    <3>1. i \in 1..Len(w) BY ONLY <1>1, <1>3, i \in 1..Len(v)
    <3> QED BY <3>1, <1>1, Zenon
  <2>2. v[i].is # "done" BY <2>1 DEF NoneIs
  <2>3. ASSUME v[i].is = "text" PROVE TextAt(v, i)
    <3>1. TextAt(w, i) BY <2>1, <2>3 DEF LinesOK
    <3>2. i + 1 \in 1..Len(w) /\ i + 2 \in 1..Len(w) /\ i - 1 \in 1..Len(w) /\ (i # 2 => i - 2 \in 1..Len(w))
      BY <1>1, <2>1, <3>1 DEF TextAt
    <3>3. i > 1 /\ v[i - 1].is = "data" /\ (i = 2 \/ v[i - 2].is = "nl")
      BY <1>1, <3>1, <3>2 DEF TextAt
    <3>4. i + 2 <= Len(v) /\ v[i + 1].is \in {"head", "bad"} /\ v[i + 2].is \in {"tail", "bad"}
      BY <1>1, <3>1, <3>2 DEF TextAt
    <3>5. i + 2 # Len(w) BY <1>2, <3>1, <3>2 DEF TextAt
    <3>6. i + 3 \in 1..Len(w) BY <1>1, <2>1, <3>2, <3>5
    <3>7. v[i + 3].is = "nl" BY <1>1, <3>1, <3>6 DEF TextAt
    <3> QED BY <3>3, <3>4, <3>7 DEF TextAt
  <2> QED BY <2>2, <2>3
<1>4. CASE i > Len(w)
  <2>1. PICK j \in 1..Len(us) : i = j + Len(w) /\ v[i] = us[j] BY <1>1, <1>4
  <2>2. \A k \in 1..Len(us) : v[k + Len(w)] = us[k] BY <1>1
  <2>3. ASSUME j > 1, us[j - 1].is = "data", j = 2 \/ us[j - 2].is = "nl"
        PROVE  i > 1 /\ v[i - 1].is = "data" /\ (i = 2 \/ v[i - 2].is = "nl")
    <3>1. i > 1 BY <1>1, <2>1, <2>3
    <3>2. v[i - 1].is = "data"
      <4>1. j - 1 \in 1..Len(us) /\ (j - 1) + Len(w) = i - 1 BY <1>1, <2>1, <2>3
      <4>2. v[(j - 1) + Len(w)] = us[j - 1] BY <4>1, <2>2
      <4> QED BY <4>1, <4>2, <2>3
    <3>3. CASE j = 2
      <4>1. i - 2 = Len(w) BY <2>1, <3>3, <1>1
      <4>2. CASE Len(w) = 0 BY <4>1, <4>2, <2>1, <3>3, <3>1, <3>2
      <4>3. CASE Len(w) # 0
        <5>1. Len(w) \in 1..Len(w) BY <1>1, <4>3
        <5>2. v[Len(w)] = w[Len(w)] BY <1>1, <5>1
        <5>3. v[i - 2].is = "nl" BY <1>2, <4>1, <4>3, <5>2
        <5> QED BY <3>1, <3>2, <5>3
      <4> QED BY <4>2, <4>3
    <3>4. CASE j # 2
      <4>1. j - 2 \in 1..Len(us) /\ (j - 2) + Len(w) = i - 2 BY <1>1, <2>1, <2>3, <3>4
      <4>2. v[(j - 2) + Len(w)] = us[j - 2] BY <4>1, <2>2
      <4>3. v[i - 2].is = "nl" BY <4>1, <4>2, <2>3, <3>4
      <4> QED BY <3>1, <3>2, <4>3
    <3> QED BY <3>3, <3>4
  <2>4. ASSUME v[i].is = "text" PROVE TextAt(v, i)
    <3>1. TextAt(us, j) BY <2>1, <2>4 DEF LinesOK
    <3>2. i > 1 /\ v[i - 1].is = "data" /\ (i = 2 \/ v[i - 2].is = "nl") BY <2>3, <3>1 DEF TextAt
    <3>3. j + 2 <= Len(us) /\ us[j + 1].is \in {"head", "bad"} /\ us[j + 2].is \in {"tail", "bad"}
          /\ (j + 3 <= Len(us) => us[j + 3].is = "nl")
      BY <3>1 DEF TextAt
    <3>4. /\ j + 1 \in 1..Len(us) /\ (j + 1) + Len(w) = i + 1
          /\ j + 2 \in 1..Len(us) /\ (j + 2) + Len(w) = i + 2 /\ i + 2 <= Len(v)
          /\ i + 3 <= Len(v) => j + 3 \in 1..Len(us) /\ (j + 3) + Len(w) = i + 3
      BY <1>1, <2>1, <3>3
    <3>5. v[i + 1] = us[j + 1] /\ v[i + 2] = us[j + 2] BY <2>2, <3>4
    <3>6. i + 3 <= Len(v) => v[i + 3].is = "nl"
      <4> SUFFICES ASSUME i + 3 <= Len(v) PROVE v[i + 3].is = "nl" OBVIOUS
      <4>1. j + 3 \in 1..Len(us) /\ (j + 3) + Len(w) = i + 3 BY <3>4
      <4>2. v[(j + 3) + Len(w)] = us[j + 3] BY <2>2, <4>1
      <4>3. us[j + 3].is = "nl" BY <3>3, <4>1
      <4> QED BY <4>1, <4>2, <4>3
    <3> QED BY <3>2, <3>3, <3>4, <3>5, <3>6 DEF TextAt
  <2>5. ASSUME v[i].is = "done" PROVE DoneAt(v, i)
    <3>1. DoneAt(us, j) BY <2>1, <2>5 DEF LinesOK
    <3>2. i > 1 /\ v[i - 1].is = "data" /\ (i = 2 \/ v[i - 2].is = "nl") BY <2>3, <3>1 DEF DoneAt
    <3>3. i + 1 = Len(v)
      <4>1. j + 1 = Len(us) BY <3>1 DEF DoneAt
      <4>2. Len(v) = Len(w) + Len(us) /\ Len(w) \in Nat /\ Len(us) \in Nat BY <1>1
      <4>3. i = j + Len(w) BY <2>1
      <4> QED BY ONLY <4>1, <4>2, <4>3, j \in 1..Len(us)
    <3> QED BY <3>2, <3>3 DEF DoneAt
  <2> QED BY <2>4, <2>5
<1> QED BY <1>1, <1>3, <1>4

LEMMA TextsJoined ==
  ASSUME NEW w \in Seq(Units), NEW us \in Seq(Units), NEW v, v = FollowedBy(w, us),
         NEW first \in Nat, NEW last \in Nat, NEW next \in Nat, first <= last + 1, last <= next,
         TextsOK(w, first, last), TextsOK(us, last + 1, next)
  PROVE  TextsOK(v, first, next)
<1>1. /\ Len(v) = Len(w) + Len(us) /\ Len(w) \in Nat /\ Len(us) \in Nat
      /\ \A i \in 1..Len(w) : i \in 1..Len(v) /\ v[i] = w[i]
      /\ \A i \in 1..Len(us) : i + Len(w) \in 1..Len(v) /\ v[i + Len(w)] = us[i]
      /\ \A i \in 1..Len(v) : i > Len(w) =>
           i - Len(w) \in 1..Len(us) /\ v[i] = us[i - Len(w)] /\ i = (i - Len(w)) + Len(w)
  BY ONLY w \in Seq(Units), us \in Seq(Units), v = FollowedBy(w, us), Joined
<1>2. ASSUME NEW i \in 1..Len(v), TextIn(v, i)
      PROVE  \/ i \in 1..Len(w) /\ TextIn(w, i) /\ v[i].n = w[i].n /\ v[i].n \in first..last
             \/ \E k \in 1..Len(us) : /\ i = k + Len(w) /\ TextIn(us, k) /\ v[i].n = us[k].n
                                      /\ v[i].n \in last + 1..next
  <2>1. CASE i <= Len(w)
    <3>1. i \in 1..Len(w) /\ v[i] = w[i] BY <1>1, <2>1
    <3> QED BY <3>1, <1>2 DEF TextIn, TextsOK
  <2>2. CASE i > Len(w)
    <3>1. PICK k \in 1..Len(us) : i = k + Len(w) /\ v[i] = us[k] BY <1>1, <2>2
    <3> QED BY <3>1, <1>2 DEF TextIn, TextsOK
  <2>3. i <= Len(w) \/ i > Len(w)
    <3>1. Len(w) \in Nat /\ i \in Nat BY <1>1
    <3> QED BY ONLY <3>1
  <2> QED BY <2>1, <2>2, <2>3
<1>3. ASSUME NEW i \in 1..Len(v), NEW j \in 1..Len(v), TextIn(v, i), TextIn(v, j), i < j
      PROVE  v[i].n < v[j].n
  <2>1. CASE i \in 1..Len(w) /\ TextIn(w, i) /\ v[i].n = w[i].n /\ v[i].n \in first..last
    <3>1. CASE j \in 1..Len(w) /\ TextIn(w, j) /\ v[j].n = w[j].n
      BY <2>1, <3>1, <1>3 DEF TextsOK
    <3>2. CASE v[j].n \in last + 1..next
      <4>1. last \in Int /\ first \in Int /\ next \in Int OBVIOUS
      <4>2. v[i].n \in first..last BY ONLY <2>1
      <4> QED BY ONLY <3>2, <4>1, <4>2
    <3> QED BY <3>1, <3>2, <1>2, <1>3
  <2>2. CASE \E k \in 1..Len(us) : i = k + Len(w) /\ TextIn(us, k) /\ v[i].n = us[k].n
    <3>1. PICK k \in 1..Len(us) : i = k + Len(w) /\ TextIn(us, k) /\ v[i].n = us[k].n BY <2>2
    <3>2. ~(j \in 1..Len(w)) BY <3>1, <1>3, <1>1
    <3>3. PICK l \in 1..Len(us) : j = l + Len(w) /\ TextIn(us, l) /\ v[j].n = us[l].n
      BY <3>2, <1>2, <1>3
    <3>4. k < l BY <3>1, <3>3, <1>3, <1>1
    <3> QED BY <3>1, <3>3, <3>4 DEF TextsOK
  <2> QED BY <2>1, <2>2, <1>2, <1>3
<1>4. ASSUME NEW i \in 1..Len(v), TextIn(v, i) PROVE v[i].n \in first..next
  BY <1>2, <1>4
<1>5. ASSUME NEW n \in first..next PROVE \E i \in 1..Len(v) : TextIn(v, i) /\ v[i].n = n
  <2>1. CASE n <= last
    <3>1. PICK i \in 1..Len(w) : TextIn(w, i) /\ w[i].n = n BY <2>1 DEF TextsOK
    <3> QED BY <3>1, <1>1 DEF TextIn
  <2>2. CASE n > last
    <3>1. PICK i \in 1..Len(us) : TextIn(us, i) /\ us[i].n = n BY <2>2 DEF TextsOK
    <3> QED BY <3>1, <1>1 DEF TextIn
  <2> QED BY <2>1, <2>2
<1> QED BY <1>3, <1>4, <1>5 DEF TextsOK

LEMMA EndsJoined ==
  ASSUME NEW w \in Seq(Units), NEW us \in Seq(Units), NEW v, v = FollowedBy(w, us),
         us # << >>, EndsLine(us)
  PROVE  EndsLine(v)
<1>1. /\ Len(v) = Len(w) + Len(us) /\ Len(w) \in Nat /\ Len(us) \in Nat /\ Len(us) # 0
      /\ \A i \in 1..Len(us) : i + Len(w) \in 1..Len(v) /\ v[i + Len(w)] = us[i]
  <2>1. /\ Len(v) = Len(w) + Len(us)
        /\ \A i \in 1..Len(us) : i + Len(w) \in 1..Len(v) /\ v[i + Len(w)] = us[i]
    BY ONLY w \in Seq(Units), us \in Seq(Units), v = FollowedBy(w, us), Joined
  <2>2. Len(w) \in Nat /\ Len(us) \in Nat /\ Len(us) # 0 OBVIOUS
  <2> QED BY ONLY <2>1, <2>2
<1>2. Len(us) \in 1..Len(us) /\ Len(us) + Len(w) = Len(v) BY <1>1
<1>3. v[Len(v)] = us[Len(us)] BY <1>1, <1>2
<1> QED BY <1>3 DEF EndsLine

LEMMA NoneJoined ==
  ASSUME NEW w \in Seq(Units), NEW us \in Seq(Units), NEW v, v = FollowedBy(w, us), NEW kind,
         NoneIs(w, kind), NoneIs(us, kind)
  PROVE  NoneIs(v, kind)
<1>1. /\ Len(v) = Len(w) + Len(us) /\ Len(w) \in Nat /\ Len(us) \in Nat
      /\ \A i \in 1..Len(w) : i \in 1..Len(v) /\ v[i] = w[i]
      /\ \A i \in 1..Len(v) : i > Len(w) =>
           i - Len(w) \in 1..Len(us) /\ v[i] = us[i - Len(w)] /\ i = (i - Len(w)) + Len(w)
  BY ONLY w \in Seq(Units), us \in Seq(Units), v = FollowedBy(w, us), Joined
<1>2. ASSUME NEW i \in 1..Len(v) PROVE v[i].is # kind
  <2>1. CASE i <= Len(w)
    <3>1. i \in 1..Len(w) BY <2>1
    <3> QED BY <3>1, <1>1 DEF NoneIs
  <2>2. CASE i > Len(w) BY <2>2, <1>1 DEF NoneIs
  <2> QED BY <2>1, <2>2, <1>1
<1> QED BY <1>2 DEF NoneIs

\* The place where the first line of a window ends.
FirstEnd(w, e) == /\ e \in 1..Len(w) /\ w[e].is = "nl"
                  /\ \A i \in 1..e - 1 : w[i].is # "nl"

UpTo(w, e) == SubSeq(w, 1, e - 1)
After(w, e) == SubSeq(w, e + 1, Len(w))

\* What is left of a window when its first line is taken.
LEMMA LineTaken ==
  ASSUME NEW w \in Seq(Units), NEW e, FirstEnd(w, e),
         NEW v, v = After(w, e)
  PROVE  /\ v \in Seq(Units) /\ Len(v) = Len(w) - e
         /\ \A i \in 1..Len(v) : i + e \in 1..Len(w) /\ v[i] = w[i + e]
         /\ LinesOK(w) => LinesOK(v)
         /\ EndsLine(w) => EndsLine(v)
         /\ NoneIs(w, "done") => NoneIs(v, "done")
<1>0. /\ e \in 1..Len(w) /\ w[e].is = "nl" /\ \A i \in 1..e - 1 : w[i].is # "nl"
  BY DEF FirstEnd
<1> USE <1>0
<1>1. Len(w) \in Nat /\ e \in Nat /\ e >= 1 /\ e <= Len(w) BY <1>0
<1>2. v \in Seq(Units) /\ Len(v) = Len(w) - e /\ \A i \in 1..Len(w) - e : v[i] = w[i + e]
  BY <1>1 DEF After
<1>3. \A i \in 1..Len(v) : i + e \in 1..Len(w) /\ v[i] = w[i + e] BY <1>1, <1>2
<1>4. ASSUME NEW i \in 1..Len(v), w[i + e - 1].is = "data", i + e = 2 \/ w[i + e - 2].is = "nl"
      PROVE  i > 1 /\ v[i - 1].is = "data" /\ (i = 2 \/ v[i - 2].is = "nl")
  <2>1. i \in Nat /\ i >= 1 BY <1>2
  <2>2. i # 1
    <3>1. SUFFICES ASSUME i = 1 PROVE FALSE OBVIOUS
    <3>2. i + e - 1 = e BY <3>1, <1>1
    <3> QED BY <3>2, <1>0, <1>4
  <2>3. v[i - 1] = w[i + e - 1]
    <3>1. i - 1 \in 1..Len(v) /\ (i - 1) + e = i + e - 1 BY <2>1, <2>2, <1>1, <1>2
    <3>2. v[i - 1] = w[(i - 1) + e] BY <3>1, <1>3
    <3> QED BY <3>1, <3>2
  <2>4. i # 2 => v[i - 2].is = "nl"
    <3>1. SUFFICES ASSUME i # 2 PROVE v[i - 2].is = "nl" OBVIOUS
    <3>2. i - 2 \in 1..Len(v) /\ (i - 2) + e = i + e - 2 /\ i + e # 2 BY <3>1, <2>1, <2>2, <1>1, <1>2
    <3>3. v[i - 2] = w[(i - 2) + e] BY <3>2, <1>3
    <3> QED BY <3>2, <3>3, <1>4
  <2>5. i > 1 BY ONLY <2>1, <2>2
  <2>6. v[i - 1].is = "data" BY <2>3, <1>4
  <2> QED BY ONLY <2>4, <2>5, <2>6
<1>5. ASSUME LinesOK(w) PROVE LinesOK(v)
  <2> SUFFICES ASSUME NEW i \in 1..Len(v)
               PROVE  /\ v[i].is = "text" => TextAt(v, i)
                      /\ v[i].is = "done" => DoneAt(v, i)
    BY DEF LinesOK
  <2>1. i + e \in 1..Len(w) /\ v[i] = w[i + e] BY <1>3
  <2>2. ASSUME v[i].is = "text" PROVE TextAt(v, i)
    <3>1. TextAt(w, i + e) BY <2>1, <2>2, <1>5 DEF LinesOK
    <3>2. /\ w[i + e - 1].is = "data" /\ (i + e = 2 \/ w[i + e - 2].is = "nl")
          /\ i + e + 2 <= Len(w) /\ w[i + e + 1].is \in {"head", "bad"}
          /\ w[i + e + 2].is \in {"tail", "bad"}
          /\ i + e + 3 <= Len(w) => w[i + e + 3].is = "nl"
      <4>1. PICK x : x = i + e OBVIOUS
      <4>2. TextAt(w, x) BY ONLY <3>1, <4>1
      <4>3. /\ w[x - 1].is = "data" /\ (x = 2 \/ w[x - 2].is = "nl")
            /\ x + 2 <= Len(w) /\ w[x + 1].is \in {"head", "bad"} /\ w[x + 2].is \in {"tail", "bad"}
            /\ x + 3 <= Len(w) => w[x + 3].is = "nl"
        BY ONLY <4>2 DEF TextAt
      <4>4. i \in Nat /\ e \in Nat BY <1>1, <1>2
      <4> QED BY ONLY <4>1, <4>3, <4>4
    <3>3. i > 1 /\ v[i - 1].is = "data" /\ (i = 2 \/ v[i - 2].is = "nl") BY <1>4, <3>2
    <3>4. /\ i + 1 \in 1..Len(v) /\ i + 2 \in 1..Len(v) /\ (i + 1) + e = i + e + 1 /\ (i + 2) + e = i + e + 2
          /\ i + 3 <= Len(v) => i + 3 \in 1..Len(v) /\ (i + 3) + e = i + e + 3
      BY <1>1, <1>2, <3>2
    <3>5. v[i + 1] = w[i + e + 1]
      <4>1. v[i + 1] = w[(i + 1) + e] BY <1>3, <3>4
      <4> QED BY <4>1, <3>4
    <3>6. v[i + 2] = w[i + e + 2]
      <4>1. v[i + 2] = w[(i + 2) + e] BY <1>3, <3>4
      <4> QED BY <4>1, <3>4
    <3>7. i + 3 <= Len(v) => v[i + 3].is = "nl"
      <4> SUFFICES ASSUME i + 3 <= Len(v) PROVE v[i + 3].is = "nl" OBVIOUS
      <4>1. v[i + 3] = w[(i + 3) + e] BY <1>3, <3>4
      <4>2. i + e + 3 <= Len(w) /\ (i + 3) + e = i + e + 3 BY <1>1, <1>2, <3>4
      <4>3. w[i + e + 3].is = "nl" BY <4>2, <3>2
      <4> QED BY <4>1, <4>2, <4>3
    <3>8. i + 2 <= Len(v) BY <3>4
    <3> QED BY <3>2, <3>3, <3>5, <3>6, <3>7, <3>8 DEF TextAt
  <2>3. ASSUME v[i].is = "done" PROVE DoneAt(v, i)
    <3>1. DoneAt(w, i + e) BY <2>1, <2>3, <1>5 DEF LinesOK
    <3>2. /\ w[i + e - 1].is = "data" /\ (i + e = 2 \/ w[i + e - 2].is = "nl")
          /\ i + e + 1 = Len(w)
      BY <3>1 DEF DoneAt
    <3>3. i > 1 /\ v[i - 1].is = "data" /\ (i = 2 \/ v[i - 2].is = "nl") BY <1>4, <3>2
    <3>4. i + 1 = Len(v) BY <1>1, <1>2, <3>2
    <3> QED BY <3>3, <3>4 DEF DoneAt
  <2> QED BY <2>2, <2>3
<1>6. ASSUME EndsLine(w) PROVE EndsLine(v)
  <2>1. CASE Len(v) = 0
    <3>1. v = << >> BY <1>2, <2>1
    <3> QED BY <3>1 DEF EndsLine
  <2>2. CASE Len(v) # 0
    <3>1. Len(v) \in 1..Len(v) /\ Len(v) + e = Len(w) BY <1>1, <1>2, <2>2
    <3>2. v[Len(v)] = w[Len(w)] BY <3>1, <1>3
    <3>3. w # << >> BY <1>1
    <3> QED BY <3>2, <3>3, <1>6 DEF EndsLine
  <2> QED BY <2>1, <2>2
<1>7. NoneIs(w, "done") => NoneIs(v, "done") BY <1>3 DEF NoneIs
<1> QED BY <1>2, <1>3, <1>5, <1>6, <1>7

LEMMA SecondUnit ==
  ASSUME NEW l \in Seq(Units), l # << >>, Len(Tail(l)) \in Nat \ {0}
  PROVE  Len(l) = Len(Tail(l)) + 1 /\ Tail(l)[1] = l[2]
<1>1. PICK t : t = Tail(l) OBVIOUS
<1>2. Len(t) = Len(l) - 1 /\ \A i \in 1..Len(t) : t[i] = l[i + 1]
  BY ONLY <1>1, l \in Seq(Units), l # << >>, HeadTailProperties
<1>3. Len(t) \in Nat /\ Len(t) # 0 /\ Len(l) \in Nat BY <1>1
<1>4. 1 \in 1..Len(t) /\ 1 + 1 = 2 BY ONLY <1>3
<1>5. t[1] = l[1 + 1] BY ONLY <1>2, <1>4
<1>6. Len(l) = Len(t) + 1 BY ONLY <1>2, <1>3
<1> QED BY ONLY <1>1, <1>4, <1>5, <1>6

\* A line with a text is that of the first text there is, and is all of it.
LEMMA TextLine ==
  ASSUME NEW w \in Seq(Units), LinesOK(w), NEW first \in Nat, NEW last \in Nat,
         TextsOK(w, first, last),
         NEW l \in Seq(Units), Len(l) <= Len(w), \A i \in 1..Len(l) : l[i] = w[i],
         NEW p \in {"openai", "anthropic"},
         Len(l) = Len(w) \/ w[Len(l) + 1].is = "nl",
         \A i \in 1..Len(l) : l[i].is # "nl"
  PROVE  \/ /\ TokensOf(p, l) = << >> /\ \A i \in 1..Len(l) : ~TextIn(w, i)
         \/ /\ \E b \in BOOLEAN : TokensOf(p, l) = <<[n |-> first, whole |-> b]>>
            /\ Len(l) = 4 /\ TextIn(w, 2) /\ w[2].n = first /\ first <= last
            /\ \A i \in 1..4 : i # 2 => ~TextIn(w, i)
<1>1. Len(l) \in Nat /\ Len(w) \in Nat OBVIOUS
<1>2. CASE \A i \in 1..Len(l) : ~TextIn(w, i)
  <2>1. ~ContentEvent(Payload(l))
    <3>1. SUFFICES ASSUME ContentEvent(Payload(l)) PROVE FALSE OBVIOUS
    <3>2. CASE l # << >> /\ l[1].is = "data"
      <4>1. Payload(l) = Tail(l) BY <3>2 DEF Payload
      <4>2. Len(Tail(l)) = 3 /\ Tail(l)[1].is = "text" BY <4>1, <3>1 DEF ContentEvent
      <4>3. Len(l) = 4 /\ Tail(l)[1] = l[2]
        <5>1. l # << >> /\ Len(Tail(l)) \in Nat \ {0}
          <6>1. PICK k : k = Len(Tail(l)) OBVIOUS
          <6>2. k = 3 BY <4>2, <6>1, Zenon
          <6>3. k \in Nat \ {0} BY ONLY <6>2
          <6> QED BY <3>2, <6>1, <6>3, Zenon
        <5>2. Len(l) = Len(Tail(l)) + 1 /\ Tail(l)[1] = l[2]
          BY ONLY <5>1, l \in Seq(Units), SecondUnit
        <5> QED BY ONLY <4>2, <5>2
      <4>4. 2 \in 1..Len(l) BY <4>3
      <4>5. l[2] = w[2] BY <4>4
      <4> QED BY <4>2, <4>3, <4>4, <4>5, <1>2 DEF TextIn
    <3>3. CASE ~(l # << >> /\ l[1].is = "data")
      <4>1. Payload(l) = << >> BY <3>3 DEF Payload
      <4> QED BY <4>1, <3>1 DEF ContentEvent
    <3> QED BY <3>2, <3>3
  <2>2. TokensOf(p, l) = << >> BY <2>1 DEF TokensOf
  <2> QED BY <1>2, <2>2
<1>3. CASE \E i \in 1..Len(l) : TextIn(w, i)
  <2>1. PICK i \in 1..Len(l) : TextIn(w, i) BY <1>3
  <2>2. i \in 1..Len(w) BY <2>1, <1>1
  <2>3. TextAt(w, i) BY <2>1, <2>2 DEF LinesOK, TextIn
  <2>4. i = 2
    <3>1. SUFFICES ASSUME i # 2 PROVE FALSE OBVIOUS
    <3>2. i - 2 \in 1..Len(l) /\ w[i - 2].is = "nl"
      <4>1. i > 1 /\ w[i - 2].is = "nl" BY ONLY <2>3, <3>1 DEF TextAt
      <4>2. i - 2 \in 1..Len(l) BY ONLY <4>1, <3>1, <1>1, i \in 1..Len(l)
      <4> QED BY ONLY <4>1, <4>2
    <3>3. l[i - 2] = w[i - 2] BY <3>2
    <3> QED BY <3>2, <3>3
  <2>5. /\ w[1].is = "data" /\ w[2].is = "text" /\ 4 <= Len(w)
        /\ w[3].is \in {"head", "bad"} /\ w[4].is \in {"tail", "bad"}
        /\ 5 <= Len(w) => w[5].is = "nl"
    BY <2>1, <2>3, <2>4 DEF TextAt, TextIn
  <2>6. Len(l) = 4
    <3>1. Len(l) # 2
      <4>1. SUFFICES ASSUME Len(l) = 2 PROVE FALSE OBVIOUS
      <4>2. Len(l) + 1 = 3 /\ Len(l) # Len(w) BY <4>1, <2>5, <1>1
      <4>3. w[3].is = "nl" BY <4>2
      <4> QED BY <4>3, <2>5
    <3>2. Len(l) # 3
      <4>1. SUFFICES ASSUME Len(l) = 3 PROVE FALSE OBVIOUS
      <4>2. Len(l) + 1 = 4 /\ Len(l) # Len(w) BY <4>1, <2>5, <1>1
      <4>3. w[4].is = "nl" BY <4>2
      <4> QED BY <4>3, <2>5
    <3>3. Len(l) >= 2 BY <2>1, <2>4, <1>1
    <3>4. ~(Len(l) >= 5)
      <4>1. SUFFICES ASSUME Len(l) >= 5 PROVE FALSE OBVIOUS
      <4>2. 5 \in 1..Len(l) /\ 5 <= Len(w) BY <4>1, <1>1
      <4>3. l[5] = w[5] BY <4>2
      <4> QED BY <4>2, <4>3, <2>5
    <3>5. PICK n \in Nat : n = Len(l) BY <1>1
    <3>6. n # 2 /\ n # 3 /\ n >= 2 /\ ~(n >= 5) BY ONLY <3>1, <3>2, <3>3, <3>4, <3>5
    <3>7. n = 4 BY ONLY <3>6, n \in Nat
    <3> QED BY ONLY <3>5, <3>7
  <2>7. l[1] = w[1] /\ l[2] = w[2] /\ l[3] = w[3] /\ l[4] = w[4]
    <3>1. 1 \in 1..Len(l) /\ 2 \in 1..Len(l) /\ 3 \in 1..Len(l) /\ 4 \in 1..Len(l) BY <2>6
    <3> QED BY <3>1
  <2>8. \A j \in 1..4 : j # 2 => ~TextIn(w, j)
    <3>1. ~TextIn(w, 1) /\ ~TextIn(w, 3) /\ ~TextIn(w, 4) BY <2>5 DEF TextIn
    <3>2. \A j \in 1..4 : j = 1 \/ j = 2 \/ j = 3 \/ j = 4 OBVIOUS
    <3> QED BY <3>1, <3>2
  <2>9. w[2].n = first /\ first <= last
    <3>1. 2 \in 1..Len(w) /\ TextIn(w, 2) BY <2>1, <2>2, <2>4
    <3>2. w[2].n \in first..last BY <3>1 DEF TextsOK
    <3>3. first \in first..last BY <3>2
    <3>4. PICK j \in 1..Len(w) : TextIn(w, j) /\ w[j].n = first BY <3>3 DEF TextsOK
    <3>5. j = 2
      <4>1. SUFFICES ASSUME j # 2 PROVE FALSE OBVIOUS
      <4>2. ~(j \in 1..4) BY <4>1, <2>8, <3>4
      <4>3. 2 < j BY <4>2, <3>4, <1>1
      <4>4. w[2].n < w[j].n BY <4>3, <3>1, <3>4 DEF TextsOK
      <4> QED BY <4>4, <3>2, <3>4
    <3> QED BY <3>2, <3>4, <3>5
  <2>10. \E b \in BOOLEAN : TokensOf(p, l) = <<[n |-> first, whole |-> b]>>
    <3>1. l # << >> /\ l[1].is = "data"
      <4>1. l # << >>
        <5>1. Len(<< >>) = 0 OBVIOUS
        <5>2. Len(l) # 0 BY <2>6
        <5> QED BY ONLY <5>1, <5>2, Zenon
      <4>2. l[1].is = "data" BY <2>5, <2>7
      <4> QED BY <4>1, <4>2
    <3>2. Payload(l) = Tail(l) BY <3>1 DEF Payload
    <3>3. Len(Tail(l)) = 3 /\ Tail(l)[1] = l[2]
      <4>1. Len(Tail(l)) = Len(l) - 1 BY <3>1, HeadTailProperties
      <4>2. Len(Tail(l)) = 3 BY <2>6, <4>1
      <4>3. Len(Tail(l)) \in Nat \ {0} BY ONLY <4>2
      <4>4. Tail(l)[1] = l[2] BY ONLY <3>1, <4>3, l \in Seq(Units), SecondUnit
      <4> QED BY <4>2, <4>4
    <3>4. ContentEvent(Tail(l)) BY <3>3, <2>5, <2>7 DEF ContentEvent
    <3>5. PICK b \in BOOLEAN : b = (Tail(l)[2].is = "head" /\ Tail(l)[3].is = "tail") OBVIOUS
    <3>6. TokensOf(p, l) = <<[n |-> Tail(l)[1].n, whole |-> b]>>
      BY <3>2, <3>4, <3>5 DEF TokensOf
    <3>7. Tail(l)[1].n = first BY <3>3, <2>7, <2>9
    <3> QED BY <3>6, <3>7
  <2>11. TextIn(w, 2) BY <2>1, <2>4
  <2> QED BY <2>6, <2>8, <2>9, <2>10, <2>11
<1> QED BY <1>2, <1>3

\* The texts after those of the first line.
LEMMA TextsLeft ==
  ASSUME NEW w \in Seq(Units), NEW e \in 1..Len(w), NEW first \in Nat, NEW last \in Nat,
         TextsOK(w, first, last), NEW v \in Seq(Units), Len(v) = Len(w) - e,
         \A i \in 1..Len(v) : i + e \in 1..Len(w) /\ v[i] = w[i + e]
  PROVE  /\ (\A i \in 1..e : ~TextIn(w, i)) => TextsOK(v, first, last)
         /\ (\E k \in 1..e : /\ TextIn(w, k) /\ w[k].n = first
                             /\ \A i \in 1..e : i # k => ~TextIn(w, i))
            => TextsOK(v, first + 1, last)
<1>1. Len(w) \in Nat /\ Len(v) \in Nat /\ e \in Nat OBVIOUS
<1>2. \A i \in 1..Len(v) : i + e \in 1..Len(w) /\ v[i] = w[i + e] /\ (TextIn(v, i) <=> TextIn(w, i + e))
  BY DEF TextIn
<1>3. ASSUME NEW i \in 1..Len(v), NEW j \in 1..Len(v), TextIn(v, i), TextIn(v, j), i < j
      PROVE  v[i].n < v[j].n
  <2>1. /\ i + e \in 1..Len(w) /\ j + e \in 1..Len(w) /\ i + e < j + e
        /\ TextIn(w, i + e) /\ TextIn(w, j + e) /\ v[i] = w[i + e] /\ v[j] = w[j + e]
    BY <1>1, <1>2, <1>3
  <2>2. w[i + e].n < w[j + e].n BY <2>1 DEF TextsOK
  <2> QED BY <2>1, <2>2
<1>4. ASSUME NEW i \in 1..Len(v), TextIn(v, i) PROVE v[i].n \in first..last
  <2>1. i + e \in 1..Len(w) /\ TextIn(w, i + e) /\ v[i] = w[i + e] BY <1>2, <1>4
  <2> QED BY <2>1 DEF TextsOK
<1>5. ASSUME NEW i \in 1..Len(w), i > e, TextIn(w, i)
      PROVE  \E j \in 1..Len(v) : TextIn(v, j) /\ v[j].n = w[i].n
  <2>1. PICK j \in 1..Len(v) : j + e = i
    <3>1. i - e \in 1..Len(v) /\ (i - e) + e = i BY <1>1, <1>5
    <3> QED BY <3>1
  <2>2. TextIn(w, j + e) /\ v[j] = w[j + e] /\ w[j + e] = w[i] BY <2>1, <1>2, <1>5
  <2> QED BY <2>2, <1>2
<1>6. ASSUME \A i \in 1..e : ~TextIn(w, i) PROVE TextsOK(v, first, last)
  <2>1. ASSUME NEW n \in first..last PROVE \E j \in 1..Len(v) : TextIn(v, j) /\ v[j].n = n
    <3>1. PICK i \in 1..Len(w) : TextIn(w, i) /\ w[i].n = n BY DEF TextsOK
    <3>2. i > e BY <3>1, <1>6, <1>1
    <3> QED BY <3>1, <3>2, <1>5
  <2> QED BY <1>3, <1>4, <2>1 DEF TextsOK
<1>7. ASSUME NEW k \in 1..e, TextIn(w, k), w[k].n = first, \A i \in 1..e : i # k => ~TextIn(w, i)
      PROVE  TextsOK(v, first + 1, last)
  <2>1. ASSUME NEW i \in 1..Len(v), TextIn(v, i) PROVE v[i].n \in first + 1..last
    <3>1. i + e \in 1..Len(w) /\ TextIn(w, i + e) /\ v[i] = w[i + e] BY <1>2, <2>1
    <3>2. k \in 1..Len(w) /\ k < i + e BY <1>1
    <3>3. w[k].n < w[i + e].n BY <3>1, <3>2, <1>7 DEF TextsOK
    <3>4. v[i].n \in first..last BY <1>4, <2>1
    <3> QED BY <3>1, <3>3, <3>4, <1>7
  <2>2. ASSUME NEW n \in first + 1..last PROVE \E j \in 1..Len(v) : TextIn(v, j) /\ v[j].n = n
    <3>0. n \in first..last /\ n # first OBVIOUS
    <3>1. PICK i \in 1..Len(w) : TextIn(w, i) /\ w[i].n = n BY <3>0 DEF TextsOK
    <3>2. i # k BY <3>0, <3>1, <1>7
    <3>3. i > e BY <3>1, <3>2, <1>7, <1>1
    <3> QED BY <3>1, <3>3, <1>5
  <2> QED BY <1>3, <2>1, <2>2 DEF TextsOK
<1> QED BY <1>6, <1>7

\* A token for the next text is handed on.
LEMMA HandedOn ==
  ASSUME NEW s \in Nat, NEW o, HandedInOrder(o, s), NEW b \in BOOLEAN, Len(o) + 1 <= s,
         NEW q, q = o \o <<[n |-> Len(o) + 1, whole |-> b]>>
  PROVE  HandedInOrder(q, s) /\ Len(q) = Len(o) + 1
<1> DEFINE t == [n |-> Len(o) + 1, whole |-> b]
<1>1. o \in Seq(Yielded) /\ Len(o) \in Nat /\ Len(o) <= s /\ \A i \in 1..Len(o) : o[i].n = i
  BY DEF HandedInOrder
<1>2. t \in Yielded /\ t.n = Len(o) + 1 BY <1>1 DEF Yielded
<1> HIDE DEF t
<1>3. <<t>> \in Seq(Yielded) /\ Len(<<t>>) = 1 /\ <<t>>[1] = t BY <1>2
<1>4. q = o \o <<t>> BY DEF t
<1>5. /\ q \in Seq(Yielded) /\ Len(q) = Len(o) + 1
      /\ \A i \in 1..Len(o) + 1 : q[i] = IF i <= Len(o) THEN o[i] ELSE <<t>>[i - Len(o)]
  BY <1>1, <1>3, <1>4, ConcatProperties
<1>6. ASSUME NEW i \in 1..Len(q) PROVE q[i].n = i
  <2>1. CASE i <= Len(o) BY <2>1, <1>1, <1>5
  <2>2. CASE i > Len(o)
    <3>1. i = Len(o) + 1 /\ i - Len(o) = 1 BY <2>2, <1>1, <1>5
    <3>2. q[i] = t BY <3>1, <1>1, <1>3, <1>5
    <3> QED BY <3>1, <3>2, <1>2
  <2> QED BY <2>1, <2>2, <1>1, <1>5
<1> QED BY <1>5, <1>6 DEF HandedInOrder

\* The first complete line is parsed.
LEMMA LineParsed ==
  ASSUME NEW w \in Seq(Units), NEW e, FirstEnd(w, e),
         NEW s \in Nat, NEW o, NEW c, StreamOK(w, o, s, c),
         NEW p \in {"openai", "anthropic"},
         NEW l, l = UpTo(w, e)
  PROVE  /\ StreamOK(After(w, e), o \o TokensOf(p, l), s, c)
         /\ Sentinel(p, l) => Len(o \o TokensOf(p, l)) = s /\ c # "open"
<1>1. PICK v : v = After(w, e) OBVIOUS
<1>2. PICK q : q = o \o TokensOf(p, l) OBVIOUS
<1>3. /\ e \in 1..Len(w) /\ w[e].is = "nl" /\ \A i \in 1..e - 1 : w[i].is # "nl"
  BY DEF FirstEnd
<1> USE <1>3
<1>4. Len(w) \in Nat /\ e \in Nat /\ e >= 1 /\ e <= Len(w) BY <1>3
<1>5. /\ LinesOK(w) /\ TextsOK(w, Len(o) + 1, s) /\ HandedInOrder(o, s)
      /\ c = "open" => EndsLine(w) /\ NoneIs(w, "done")
      /\ o \in Seq(Yielded) /\ Len(o) \in Nat /\ Len(o) + 1 \in Nat /\ Len(o) <= s
  BY DEF StreamOK, HandedInOrder
<1>6. /\ v \in Seq(Units) /\ Len(v) = Len(w) - e
      /\ \A i \in 1..Len(v) : i + e \in 1..Len(w) /\ v[i] = w[i + e]
      /\ LinesOK(v) /\ (c = "open" => EndsLine(v) /\ NoneIs(v, "done"))
  <2>1. /\ v \in Seq(Units) /\ Len(v) = Len(w) - e
        /\ \A i \in 1..Len(v) : i + e \in 1..Len(w) /\ v[i] = w[i + e]
        /\ LinesOK(w) => LinesOK(v)
        /\ EndsLine(w) => EndsLine(v)
        /\ NoneIs(w, "done") => NoneIs(v, "done")
    <3>1. w \in Seq(Units) /\ FirstEnd(w, e) OBVIOUS
    <3> QED BY ONLY <3>1, <1>1, LineTaken
  <2> QED BY <2>1, <1>5
<1>7. l \in Seq(Units) /\ Len(l) = e - 1 /\ \A i \in 1..Len(l) : l[i] = w[i] BY <1>4 DEF UpTo
<1>8. PICK f \in Nat : f = Len(o) + 1 BY <1>5
<1>9. TextsOK(w, f, s) BY <1>5, <1>8
<1>10. \/ /\ TokensOf(p, l) = << >> /\ \A i \in 1..Len(l) : ~TextIn(w, i)
       \/ /\ \E b \in BOOLEAN : TokensOf(p, l) = <<[n |-> f, whole |-> b]>>
          /\ Len(l) = 4 /\ TextIn(w, 2) /\ w[2].n = f /\ f <= s
          /\ \A i \in 1..4 : i # 2 => ~TextIn(w, i)
  <2>1. Len(l) <= Len(w) /\ (Len(l) = Len(w) \/ w[Len(l) + 1].is = "nl") BY <1>4, <1>7
  <2>2. \A i \in 1..Len(l) : l[i].is # "nl" BY <1>7
  <2>3. LinesOK(w) BY <1>5
  <2>4. l \in Seq(Units) /\ \A i \in 1..Len(l) : l[i] = w[i] BY <1>7
  <2> QED
    BY ONLY <1>9, <2>1, <2>2, <2>3, <2>4, w \in Seq(Units), f \in Nat, s \in Nat,
            p \in {"openai", "anthropic"}, TextLine
<1>11. ~TextIn(w, e) BY DEF TextIn
<1>12. /\ (\A i \in 1..e : ~TextIn(w, i)) => TextsOK(v, f, s)
       /\ (\E k \in 1..e : /\ TextIn(w, k) /\ w[k].n = f
                           /\ \A i \in 1..e : i # k => ~TextIn(w, i))
          => TextsOK(v, f + 1, s)
  BY <1>6, <1>9, TextsLeft
<1>13. StreamOK(v, q, s, c) /\ (TokensOf(p, l) = << >> => q = o)
  <2>1. CASE TokensOf(p, l) = << >> /\ \A i \in 1..Len(l) : ~TextIn(w, i)
    <3>1. q = o BY <1>2, <1>5, <2>1
    <3>2. \A i \in 1..e : ~TextIn(w, i) BY <2>1, <1>4, <1>7, <1>11
    <3>3. TextsOK(v, Len(q) + 1, s) BY <3>1, <3>2, <1>8, <1>12
    <3> QED BY <3>1, <3>3, <1>5, <1>6 DEF StreamOK
  <2>2. CASE /\ \E b \in BOOLEAN : TokensOf(p, l) = <<[n |-> f, whole |-> b]>>
             /\ Len(l) = 4 /\ TextIn(w, 2) /\ w[2].n = f /\ f <= s
             /\ \A i \in 1..4 : i # 2 => ~TextIn(w, i)
    <3>1. PICK b \in BOOLEAN : TokensOf(p, l) = <<[n |-> f, whole |-> b]>> BY <2>2
    <3>2. q = o \o <<[n |-> Len(o) + 1, whole |-> b]>> BY <3>1, <1>2, <1>8
    <3>3. HandedInOrder(q, s) /\ Len(q) = Len(o) + 1
      <4>1. HandedInOrder(o, s) /\ Len(o) + 1 <= s BY <1>5, <1>8, <2>2
      <4> QED BY <4>1, <3>2, HandedOn
    <3>4. e = 5
      <4>1. Len(l) = 4 BY <2>2
      <4>2. Len(l) = e - 1 BY <1>7
      <4>3. e \in Nat BY <1>4
      <4>4. e - 1 = 4 BY ONLY <4>1, <4>2
      <4> QED BY ONLY <4>3, <4>4
    <3>5. 2 \in 1..e /\ \A i \in 1..e : i # 2 => ~TextIn(w, i)
      <4>1. 2 \in 1..5 /\ \A i \in 1..5 : i \in 1..4 \/ i = 5 OBVIOUS
      <4> QED BY ONLY <3>4, <4>1, <2>2, <1>11
    <3>6. TextsOK(v, f + 1, s) BY <2>2, <3>5, <1>12
    <3>7. TextsOK(v, Len(q) + 1, s) BY <3>3, <3>6, <1>8
    <3>8. TokensOf(p, l) # << >>
      <4>1. \A t : <<t>> # << >> OBVIOUS
      <4> QED BY <3>1, <4>1
    <3> QED BY <3>3, <3>7, <3>8, <1>6 DEF StreamOK
  <2> QED BY <1>10, <2>1, <2>2
<1>14. ASSUME Sentinel(p, l) PROVE Len(q) = s /\ c # "open"
  <2>1. Payload(l) = <<U("done", 0)>> BY <1>14 DEF Sentinel
  <2>2. l # << >> /\ Payload(l) = Tail(l)
    <3>1. \A t : <<t>> # << >> OBVIOUS
    <3>2. Payload(l) # << >> BY <2>1, <3>1
    <3> QED BY <3>2 DEF Payload
  <2>3. Len(Tail(l)) = 1 /\ Tail(l)[1] = U("done", 0)
    <3>1. \A t : Len(<<t>>) = 1 /\ <<t>>[1] = t OBVIOUS
    <3>2. Tail(l) = <<U("done", 0)>> BY <2>1, <2>2
    <3> QED BY <3>1, <3>2
  <2>4. Len(l) = 2 /\ Tail(l)[1] = l[2]
    <3>1. Len(Tail(l)) \in Nat \ {0} /\ l \in Seq(Units) /\ l # << >> BY <1>7, <2>2, <2>3
    <3>2. Len(l) = Len(Tail(l)) + 1 /\ Tail(l)[1] = l[2] BY ONLY <3>1, SecondUnit
    <3> QED BY ONLY <2>3, <3>2
  <2>5. w[2].is = "done" /\ e = 3
    <3>1. 2 \in 1..Len(l) BY <2>4
    <3>2. w[2] = U("done", 0) BY <3>1, <2>3, <2>4, <1>7
    <3>3. e = 3 BY <2>4, <1>4, <1>7
    <3> QED BY <3>2, <3>3 DEF U
  <2>6. 2 \in 1..Len(w) BY <2>5, <1>4
  <2>7. DoneAt(w, 2) BY <2>5, <2>6, <1>5 DEF LinesOK
  <2>8. Len(w) = 3 /\ w[1].is = "data" BY <2>7, <1>4 DEF DoneAt
  <2>9. w[3].is = "nl" BY <2>5
  <2>10. \A i \in 1..Len(w) : ~TextIn(w, i)
    <3>1. ~TextIn(w, 1) /\ ~TextIn(w, 2) /\ ~TextIn(w, 3) BY <2>5, <2>8, <2>9 DEF TextIn
    <3>2. \A i \in 1..3 : i = 1 \/ i = 2 \/ i = 3 OBVIOUS
    <3> QED BY <2>8, <3>1, <3>2
  <2>11. ~(f <= s)
    <3>1. SUFFICES ASSUME f <= s PROVE FALSE OBVIOUS
    <3>2. f \in f..s BY <3>1
    <3>3. \E i \in 1..Len(w) : TextIn(w, i) BY <3>2, <1>9 DEF TextsOK
    <3> QED BY <3>3, <2>10
  <2>12. TokensOf(p, l) = << >> BY <2>11, <1>10
  <2>13. Len(q) = s
    <3>1. q = o BY <2>12, <1>13
    <3>2. Len(o) \in Nat /\ Len(o) <= s /\ f = Len(o) + 1 BY <1>5, <1>8
    <3>3. Len(o) = s BY ONLY <3>2, <2>11, s \in Nat
    <3> QED BY <3>1, <3>3
  <2>14. ~NoneIs(w, "done") BY <2>5, <2>6 DEF NoneIs
  <2> QED BY <2>13, <2>14, <1>5
<1> QED BY <1>1, <1>2, <1>13, <1>14

\* What is left when the stream ends is parsed.
LEMMA LeftoverParsed ==
  ASSUME NEW w \in Seq(Units), \A i \in 1..Len(w) : w[i].is # "nl",
         NEW s \in Nat, NEW o, NEW c, StreamOK(w, o, s, c),
         NEW p \in {"openai", "anthropic"}, NEW q, q = o \o TokensOf(p, w)
  PROVE  HandedInOrder(q, s) /\ Len(q) = s
<1>1. /\ LinesOK(w) /\ TextsOK(w, Len(o) + 1, s) /\ HandedInOrder(o, s)
      /\ o \in Seq(Yielded) /\ Len(o) \in Nat /\ Len(o) + 1 \in Nat /\ Len(o) <= s
  BY DEF StreamOK, HandedInOrder
<1>2. PICK f \in Nat : f = Len(o) + 1 BY <1>1
<1>3. TextsOK(w, f, s) BY <1>1, <1>2
<1>4. \/ /\ TokensOf(p, w) = << >> /\ \A i \in 1..Len(w) : ~TextIn(w, i)
      \/ /\ \E b \in BOOLEAN : TokensOf(p, w) = <<[n |-> f, whole |-> b]>>
         /\ Len(w) = 4 /\ TextIn(w, 2) /\ w[2].n = f /\ f <= s
         /\ \A i \in 1..4 : i # 2 => ~TextIn(w, i)
  <2>1. Len(w) <= Len(w) /\ LinesOK(w) /\ \A i \in 1..Len(w) : w[i] = w[i] BY <1>1
  <2>2. Len(w) = Len(w) \/ w[Len(w) + 1].is = "nl" OBVIOUS
  <2>3. \A i \in 1..Len(w) : w[i].is # "nl" OBVIOUS
  <2> QED
    BY ONLY <1>3, <2>1, <2>2, <2>3, w \in Seq(Units), f \in Nat, s \in Nat,
            p \in {"openai", "anthropic"}, TextLine
<1>5. CASE TokensOf(p, w) = << >> /\ \A i \in 1..Len(w) : ~TextIn(w, i)
  <2>1. q = o BY <1>1, <1>5
  <2>2. ~(f <= s)
    <3>1. SUFFICES ASSUME f <= s PROVE FALSE OBVIOUS
    <3>2. f \in f..s BY <3>1
    <3>3. \E i \in 1..Len(w) : TextIn(w, i) BY <3>2, <1>3 DEF TextsOK
    <3> QED BY <3>3, <1>5
  <2> QED BY <2>1, <2>2, <1>1, <1>2
<1>6. CASE /\ \E b \in BOOLEAN : TokensOf(p, w) = <<[n |-> f, whole |-> b]>>
           /\ Len(w) = 4 /\ TextIn(w, 2) /\ w[2].n = f /\ f <= s
           /\ \A i \in 1..4 : i # 2 => ~TextIn(w, i)
  <2>1. PICK b \in BOOLEAN : TokensOf(p, w) = <<[n |-> f, whole |-> b]>> BY <1>6
  <2>2. q = o \o <<[n |-> Len(o) + 1, whole |-> b]>> BY <2>1, <1>2
  <2>3. HandedInOrder(q, s) /\ Len(q) = f
    <3>1. HandedInOrder(o, s) /\ Len(o) + 1 <= s BY <1>1, <1>2, <1>6
    <3> QED BY <3>1, <2>2, <1>2, HandedOn
  <2>4. ~(f + 1 <= s)
    <3>1. SUFFICES ASSUME f + 1 <= s PROVE FALSE OBVIOUS
    <3>2. f + 1 \in f..s BY <3>1
    <3>3. PICK i \in 1..Len(w) : TextIn(w, i) /\ w[i].n = f + 1 BY <3>2, <1>3 DEF TextsOK
    <3>4. i = 2 BY <3>3, <1>6
    <3> QED BY <3>3, <3>4, <1>6
  <2> QED BY <2>3, <2>4, <1>6
<1> QED BY <1>4, <1>5, <1>6

LEMMA NoTexts ==
  ASSUME NEW w \in Seq(Units), NoneIs(w, "text"), NEW first \in Nat, NEW last \in Nat, last < first
  PROVE  TextsOK(w, first, last)
<1>1. \A i \in 1..Len(w) : ~TextIn(w, i) BY DEF NoneIs, TextIn
<1>2. first..last = {} OBVIOUS
<1> QED BY <1>1, <1>2 DEF TextsOK

\* A unit before others, and after them.
LEMMA UnitFirst ==
  ASSUME NEW a \in Units, NEW us \in Seq(Units)
  PROVE  /\ <<a>> \o us \in Seq(Units) /\ Len(<<a>> \o us) = Len(us) + 1
         /\ (<<a>> \o us)[1] = a
         /\ \A i \in 1..Len(us) : (<<a>> \o us)[i + 1] = us[i]
<1>1. <<a>> \in Seq(Units) /\ Len(<<a>>) = 1 /\ <<a>>[1] = a OBVIOUS
<1>2. PICK u : u = <<a>> OBVIOUS
<1>3. PICK v : v = FollowedBy(u, us) OBVIOUS
<1>4. /\ v \in Seq(Units) /\ Len(v) = Len(u) + Len(us)
      /\ \A i \in 1..Len(u) : i \in 1..Len(v) /\ v[i] = u[i]
      /\ \A i \in 1..Len(us) : i + Len(u) \in 1..Len(v) /\ v[i + Len(u)] = us[i]
  <2>1. u \in Seq(Units) BY <1>1, <1>2
  <2> QED BY <2>1, <1>3, Joined
<1>5. Len(u) = 1 /\ u[1] = a /\ 1 \in 1..1 /\ Len(us) \in Nat BY <1>1, <1>2
<1>6. Len(v) = Len(us) + 1 BY <1>4, <1>5
<1>7. v[1] = a BY <1>4, <1>5
<1>8. \A i \in 1..Len(us) : v[i + 1] = us[i] BY <1>4, <1>5
<1> QED BY <1>2, <1>3, <1>4, <1>6, <1>7, <1>8 DEF FollowedBy

LEMMA UnitLast ==
  ASSUME NEW a \in Units, NEW us \in Seq(Units)
  PROVE  /\ us \o <<a>> \in Seq(Units) /\ Len(us \o <<a>>) = Len(us) + 1
         /\ (us \o <<a>>)[Len(us) + 1] = a
         /\ \A i \in 1..Len(us) : (us \o <<a>>)[i] = us[i]
<1>1. <<a>> \in Seq(Units) /\ Len(<<a>>) = 1 /\ <<a>>[1] = a OBVIOUS
<1>2. PICK u : u = <<a>> OBVIOUS
<1>3. PICK v : v = FollowedBy(us, u) OBVIOUS
<1>4. /\ v \in Seq(Units) /\ Len(v) = Len(us) + Len(u)
      /\ \A i \in 1..Len(us) : i \in 1..Len(v) /\ v[i] = us[i]
      /\ \A i \in 1..Len(u) : i + Len(us) \in 1..Len(v) /\ v[i + Len(us)] = u[i]
  <2>1. u \in Seq(Units) BY <1>1, <1>2
  <2> QED BY <2>1, <1>3, Joined
<1>5. Len(u) = 1 /\ u[1] = a /\ 1 \in 1..1 /\ Len(us) \in Nat /\ 1 + Len(us) = Len(us) + 1
  BY <1>1, <1>2
<1>6. v[1 + Len(us)] = u[1] BY <1>4, <1>5
<1> QED BY <1>2, <1>3, <1>4, <1>5, <1>6 DEF FollowedBy

\* The units of a content event, and of its line.
LEMMA TextSent ==
  ASSUME NEW p \in {"openai", "anthropic"}, NEW n \in Nat, NEW nl \in BOOLEAN,
         NEW us, us = IF nl THEN TextEvent(p, n) \o Newline ELSE TextEvent(p, n)
  PROVE  /\ us \in Seq(Units) /\ LinesOK(us) /\ TextsOK(us, n, n) /\ NoneIs(us, "done")
         /\ us # << >> /\ (nl => EndsLine(us))
<1> DEFINE a == U("data", 0)
           b == U("text", n)
           c == U("head", n)
           d == U("tail", n)
           e == U("nl", 0)
<1>1. /\ a \in Units /\ b \in Units /\ c \in Units /\ d \in Units /\ e \in Units
      /\ a.is = "data" /\ b.is = "text" /\ c.is = "head" /\ d.is = "tail" /\ e.is = "nl" /\ b.n = n
  BY DEF U, Units, UnitKinds
<1>2. TextEvent(p, n) = <<a>> \o <<b, c, d>> /\ Newline = <<e>>
  BY DEF TextEvent, Data, EventStream, Newline
<1> HIDE DEF a, b, c, d, e
<1>3. PICK t : t = <<b, c, d>> OBVIOUS
<1>4. t \in Seq(Units) /\ Len(t) = 3 /\ t[1] = b /\ t[2] = c /\ t[3] = d
  BY ONLY <1>1, <1>3
<1>5. PICK x : x = <<a>> \o t OBVIOUS
<1>6. x \in Seq(Units) /\ Len(x) = 4 /\ x[1] = a /\ x[2] = b /\ x[3] = c /\ x[4] = d
  <2>1. /\ x \in Seq(Units) /\ Len(x) = Len(t) + 1 /\ x[1] = a
        /\ \A i \in 1..Len(t) : x[i + 1] = t[i]
    BY ONLY <1>1, <1>4, <1>5, UnitFirst
  <2>2. 1 \in 1..Len(t) /\ 2 \in 1..Len(t) /\ 3 \in 1..Len(t) BY ONLY <1>4
  <2>3. x[1 + 1] = t[1] /\ x[2 + 1] = t[2] /\ x[3 + 1] = t[3] BY ONLY <2>1, <2>2
  <2> QED BY ONLY <1>4, <2>1, <2>3
<1>7. PICK y : y = x \o <<e>> OBVIOUS
<1>8. /\ y \in Seq(Units) /\ Len(y) = 5 /\ y[1] = a /\ y[2] = b /\ y[3] = c /\ y[4] = d /\ y[5] = e
  <2>1. /\ y \in Seq(Units) /\ Len(y) = Len(x) + 1 /\ y[Len(x) + 1] = e
        /\ \A i \in 1..Len(x) : y[i] = x[i]
    BY ONLY <1>1, <1>6, <1>7, UnitLast
  <2>2. 1 \in 1..Len(x) /\ 2 \in 1..Len(x) /\ 3 \in 1..Len(x) /\ 4 \in 1..Len(x) BY ONLY <1>6
  <2>3. y[1] = x[1] /\ y[2] = x[2] /\ y[3] = x[3] /\ y[4] = x[4] BY ONLY <2>1, <2>2
  <2> QED BY ONLY <1>6, <2>1, <2>3
<1>9. us = IF nl THEN y ELSE x BY <1>2, <1>3, <1>5, <1>7
<1>10. us \in Seq(Units) BY ONLY <1>6, <1>8, <1>9
<1>11. /\ Len(us) = (IF nl THEN 5 ELSE 4) /\ us[1] = a /\ us[2] = b /\ us[3] = c /\ us[4] = d
       /\ nl => us[5] = e
  BY ONLY <1>6, <1>8, <1>9
<1>12. \A i \in 1..Len(us) : i = 1 \/ i = 2 \/ i = 3 \/ i = 4 \/ (nl /\ i = 5) BY <1>11
<1>13. 2 \in 1..Len(us) BY <1>11
<1>14. \A i \in 1..Len(us) : us[i].is # "done" /\ (i # 2 => us[i].is # "text")
  <2>1. \A u \in {a, c, d, e} : u.is \notin {"done", "text"} BY ONLY <1>1
  <2>2. b.is # "done" BY ONLY <1>1
  <2> HIDE DEF a, b, c, d, e
  <2> TAKE i \in 1..Len(us)
  <2>3. (i = 2 /\ us[i] = b) \/ us[i] \in {a, c, d, e} BY ONLY i \in 1..Len(us), <1>11, <1>12
  <2> QED BY ONLY <2>1, <2>2, <2>3
<1>15. TextAt(us, 2) BY <1>1, <1>11 DEF TextAt
<1>16. LinesOK(us)
  <2>1. ASSUME NEW i \in 1..Len(us), us[i].is = "text" PROVE TextAt(us, i)
    <3>1. i = 2 BY <2>1, <1>14
    <3> QED BY <3>1, <1>15
  <2> QED BY <2>1, <1>14 DEF LinesOK
<1>17. TextsOK(us, n, n)
  <2>1. \A i \in 1..Len(us) : TextIn(us, i) <=> i = 2 BY <1>1, <1>11, <1>14 DEF TextIn
  <2>2. us[2].n = n BY <1>1, <1>11
  <2>3. n..n = {n} OBVIOUS
  <2>4. \A i, j \in 1..Len(us) : TextIn(us, i) /\ TextIn(us, j) /\ i < j => us[i].n < us[j].n
    BY <2>1
  <2>5. \A i \in 1..Len(us) : TextIn(us, i) => us[i].n \in n..n BY <2>1, <2>2, <2>3
  <2>6. \A k \in n..n : \E i \in 1..Len(us) : TextIn(us, i) /\ us[i].n = k BY <2>1, <2>2, <2>3, <1>13
  <2> QED BY <2>4, <2>5, <2>6 DEF TextsOK
<1>18. NoneIs(us, "done") BY <1>14 DEF NoneIs
<1>19. us # << >> /\ (nl => EndsLine(us)) BY <1>1, <1>11 DEF EndsLine
<1> QED BY <1>10, <1>16, <1>17, <1>18, <1>19

\* The units of a line without content.
LEMMA OtherSent ==
  ASSUME NEW p \in {"openai", "anthropic"},
         NEW us \in {<< >>, <<U("comment", 0)>>, Data(p, <<U("note", 0)>>)},
         NEW v, v = us \o Newline
  PROVE  /\ v \in Seq(Units) /\ LinesOK(v) /\ NoneIs(v, "text") /\ NoneIs(v, "done")
         /\ v # << >> /\ EndsLine(v)
<1> DEFINE a == U("data", 0)
           b == U("comment", 0)
           c == U("note", 0)
           e == U("nl", 0)
<1>1. /\ a \in Units /\ b \in Units /\ c \in Units /\ e \in Units
      /\ a.is = "data" /\ b.is = "comment" /\ c.is = "note" /\ e.is = "nl"
  BY DEF U, Units, UnitKinds
<1>2. us \in {<< >>, <<b>>, <<a>> \o <<c>>} /\ v = us \o <<e>>
  BY DEF Data, EventStream, Newline
<1> HIDE DEF a, b, c, e
<1>3. PICK u : u = us OBVIOUS
<1>4. u \in Seq(Units) /\ Len(u) \in Nat /\ \A i \in 1..Len(u) : u[i] = a \/ u[i] = b \/ u[i] = c
  <2>1. CASE u = << >> BY <2>1
  <2>2. CASE u = <<b>>
    <3>1. <<b>> \in Seq(Units) /\ Len(<<b>>) = 1 /\ <<b>>[1] = b BY ONLY <1>1
    <3>2. \A i \in 1..1 : i = 1 OBVIOUS
    <3> QED BY ONLY <2>2, <3>1, <3>2
  <2>3. CASE u = <<a>> \o <<c>>
    <3>1. <<c>> \in Seq(Units) /\ Len(<<c>>) = 1 /\ <<c>>[1] = c BY ONLY <1>1
    <3>2. PICK x : x = <<c>> OBVIOUS
    <3>3. /\ u \in Seq(Units) /\ Len(u) = Len(x) + 1 /\ u[1] = a
          /\ \A i \in 1..Len(x) : u[i + 1] = x[i]
      BY ONLY <1>1, <2>3, <3>1, <3>2, UnitFirst
    <3>4. Len(x) = 1 /\ x[1] = c /\ 1 \in 1..1 /\ 1 + 1 = 2 BY ONLY <3>1, <3>2
    <3>5. Len(u) = 2 /\ u[1] = a /\ u[2] = c BY ONLY <3>3, <3>4
    <3>6. \A i \in 1..2 : i = 1 \/ i = 2 OBVIOUS
    <3>7. \A i \in 1..Len(u) : i = 1 \/ i = 2 BY ONLY <3>5, <3>6
    <3>8. Len(u) \in Nat BY ONLY <3>5
    <3> QED BY ONLY <3>3, <3>5, <3>7, <3>8
  <2> QED BY <1>2, <1>3, <2>1, <2>2, <2>3
<1>5. /\ v \in Seq(Units) /\ Len(v) = Len(u) + 1 /\ v[Len(u) + 1] = e
      /\ \A i \in 1..Len(u) : v[i] = u[i]
  <2>1. v = u \o <<e>> BY <1>2, <1>3
  <2> QED BY ONLY <2>1, <1>1, <1>4, UnitLast
<1>6. /\ Len(v) # 0 /\ v[Len(v)] = e
      /\ \A i \in 1..Len(v) : v[i] = a \/ v[i] = b \/ v[i] = c \/ v[i] = e
  <2>1. \A i \in 1..Len(v) : i \in 1..Len(u) \/ i = Len(u) + 1 BY ONLY <1>4, <1>5
  <2> QED BY ONLY <1>4, <1>5, <2>1
<1>7. \A i \in 1..Len(v) : v[i].is # "text" /\ v[i].is # "done" BY <1>1, <1>6
<1>8. LinesOK(v) /\ NoneIs(v, "text") /\ NoneIs(v, "done") BY <1>7 DEF LinesOK, NoneIs
<1>9. v # << >> BY <1>6
<1>10. EndsLine(v) BY <1>1, <1>6 DEF EndsLine
<1> QED BY <1>5, <1>8, <1>9, <1>10

\* The units of the sentinel's line.
LEMMA DoneSent ==
  ASSUME NEW v, v = Done \o Newline
  PROVE  v \in Seq(Units) /\ LinesOK(v) /\ NoneIs(v, "text")
<1> DEFINE a == U("data", 0)
           b == U("done", 0)
           e == U("nl", 0)
<1>1. /\ a \in Units /\ b \in Units /\ e \in Units
      /\ a.is = "data" /\ b.is = "done" /\ e.is = "nl"
  BY DEF U, Units, UnitKinds
<1>2. v = <<a, b>> \o <<e>> BY DEF Done, Newline
<1> HIDE DEF a, b, e
<1>3. PICK x : x = <<a, b>> OBVIOUS
<1>4. x \in Seq(Units) /\ Len(x) = 2 /\ x[1] = a /\ x[2] = b BY ONLY <1>1, <1>3
<1>5. /\ v \in Seq(Units) /\ Len(v) = Len(x) + 1 /\ v[Len(x) + 1] = e
       /\ \A i \in 1..Len(x) : v[i] = x[i]
  <2>1. v = x \o <<e>> BY <1>2, <1>3
  <2> QED BY ONLY <2>1, <1>1, <1>4, UnitLast
<1>6. Len(v) = 3 /\ v[1] = a /\ v[2] = b /\ v[3] = e
  <2>1. 1 \in 1..Len(x) /\ 2 \in 1..Len(x) BY ONLY <1>4
  <2> QED BY ONLY <2>1, <1>4, <1>5
<1>7. \A i \in 1..Len(v) : i = 1 \/ i = 2 \/ i = 3 BY <1>6
<1>8. \A i \in 1..Len(v) : v[i].is # "text" /\ (v[i].is = "done" => i = 2) BY <1>1, <1>6, <1>7
<1>9. DoneAt(v, 2) BY <1>1, <1>6 DEF DoneAt
<1>10. LinesOK(v)
  <2>1. ASSUME NEW i \in 1..Len(v), v[i].is = "done" PROVE DoneAt(v, i)
    <3>1. i = 2 BY <2>1, <1>8
    <3> QED BY <3>1, <1>9
  <2> QED BY <2>1, <1>8 DEF LinesOK
<1> QED BY <1>5, <1>8, <1>10 DEF NoneIs

\* More is sent on an open line.
LEMMA MoreSent ==
  ASSUME NEW b \in Seq(Units), NEW u \in Seq(Units), NEW us \in Seq(Units),
         NEW o, NEW s \in Nat, NEW t \in Nat, s <= t,
         StreamOK(b \o u, o, s, "open"), LinesOK(us), TextsOK(us, s + 1, t),
         NEW c, c = "open" => us # << >> /\ EndsLine(us) /\ NoneIs(us, "done"),
         NEW z, z = u \o us
  PROVE  z \in Seq(Units) /\ StreamOK(b \o z, o, t, c)
<1>1. PICK w : w = b \o u OBVIOUS
<1>2. w \in Seq(Units) BY <1>1
<1>3. z \in Seq(Units) OBVIOUS
<1>4. b \o z = FollowedBy(w, us)
  <2>1. b \o (u \o us) = (b \o u) \o us BY UnitsAssociate
  <2> QED BY <2>1, <1>1 DEF FollowedBy
<1>5. PICK v : v = FollowedBy(w, us) OBVIOUS
<1>6. /\ LinesOK(w) /\ TextsOK(w, Len(o) + 1, s) /\ HandedInOrder(o, s) /\ EndsLine(w) /\ NoneIs(w, "done")
      /\ o \in Seq(Yielded) /\ Len(o) + 1 \in Nat /\ Len(o) \in Nat /\ Len(o) <= s
  BY <1>1 DEF StreamOK, HandedInOrder
<1>7. LinesOK(v) BY <1>2, <1>5, <1>6, LinesJoined
<1>8. TextsOK(v, Len(o) + 1, t)
  <2>1. PICK f \in Nat : f = Len(o) + 1 BY <1>6
  <2>2. TextsOK(w, f, s) /\ f <= s + 1 BY <2>1, <1>6
  <2>3. TextsOK(v, f, t) BY <2>2, <1>2, <1>5, TextsJoined
  <2> QED BY <2>1, <2>3
<1>9. HandedInOrder(o, t) BY <1>6 DEF HandedInOrder
<1>10. c = "open" => EndsLine(v) /\ NoneIs(v, "done")
  <2> SUFFICES ASSUME c = "open" PROVE EndsLine(v) /\ NoneIs(v, "done") OBVIOUS
  <2>1. us # << >> /\ EndsLine(us) /\ NoneIs(us, "done") OBVIOUS
  <2> QED BY <2>1, <1>2, <1>5, <1>6, EndsJoined, NoneJoined
<1>11. StreamOK(v, o, t, c) BY <1>7, <1>8, <1>9, <1>10 DEF StreamOK
<1> QED BY <1>3, <1>4, <1>5, <1>11

LEMMA CloudInvInit == CloudInit => CloudInv
BY DEF CloudInit, CloudInv, Calls, NotYet

\* The steps of the request, and the end of one without a whole reply.
LEMMA RequestStep ==
  ASSUME CloudInv, Load \/ Ask \/ Refused \/ ReadsError \/ CallerLeaves PROVE CloudInv'
<1>1. phase' \in {"loaded", "asking"} \/ (phase' = "over" /\ result' \in {"error", "dropped"})
  BY DEF Load, Ask, Refused, ReadsError, CallerLeaves, Over
<1>2. Calls' BY DEF CloudInv, Calls, Load, Ask, Refused, ReadsError, CallerLeaves, callVars, providerVars
<1>3. phase' \in {"loaded", "asking"} => NotYet'
  <2> SUFFICES ASSUME phase' \in {"loaded", "asking"} PROVE NotYet' OBVIOUS
  <2>1. Load \/ Ask BY DEF Refused, ReadsError, CallerLeaves, Over
  <2>2. phase \in {"new", "loaded"} /\ UNCHANGED <<buffer, pipe, out, sent, line, result>>
    BY <2>1 DEF Load, Ask, Over, providerVars
  <2> QED BY <2>2 DEF CloudInv, NotYet
<1> QED BY <1>1, <1>2, <1>3 DEF CloudInv

LEMMA AcceptedStep == ASSUME CloudInv, Accepted PROVE CloudInv'
<1>1. /\ phase = "asking" /\ phase' = "reading" /\ mode = "stream"
      /\ UNCHANGED <<callVars, result, asked, providerVars, pipe, buffer, out>>
  BY DEF Accepted
<1>2. Calls' BY <1>1 DEF CloudInv, Calls, callVars, providerVars
<1>3. NotYet BY <1>1 DEF CloudInv
<1>4. Flowing'
  <2>1. buffer' = << >> /\ pipe' = << >> /\ out' = << >> /\ sent' = 0 /\ mode' = "stream"
    BY <1>1, <1>3 DEF NotYet, callVars, providerVars
  <2>2. << >> \o << >> = << >> /\ << >> \in Seq(Units) /\ << >> \in Seq(Yielded) /\ Len(<< >>) = 0
    OBVIOUS
  <2>3. LinesOK(<< >>) /\ TextsOK(<< >>, 0 + 1, 0) /\ EndsLine(<< >>) /\ NoneIs(<< >>, "done")
    BY DEF LinesOK, TextsOK, EndsLine, NoneIs
  <2>4. HandedInOrder(<< >>, 0) BY DEF HandedInOrder
  <2>5. StreamOK(<< >>, << >>, 0, line') BY <2>2, <2>3, <2>4 DEF StreamOK
  <2>6. StreamOK(buffer' \o pipe', out', sent', line') BY <2>1, <2>2, <2>5
  <2> QED BY <2>1, <2>2, <2>6 DEF Flowing
<1> QED BY <1>1, <1>2, <1>4 DEF CloudInv

\* generate: every block of the answer is kept.
LEMMA GenerateStep == ASSUME CloudInv, Generate PROVE CloudInv'
<1>1. /\ phase' = "over" /\ mode' = "generate" /\ protocol' = protocol
      /\ reply' \in Answers(protocol)
      /\ result' = "ended" => out' = Parsed(protocol, reply')
  BY DEF Generate, Over, callVars
<1>2. Calls' BY DEF CloudInv, Calls, Generate, callVars
<1>3. ASSUME EventStream(protocol) PROVE Parsed(protocol, reply') = reply'
  <2>1. protocol \in {"openai", "anthropic"} BY <1>3 DEF EventStream
  <2>2. PICK r : r = reply' OBVIOUS
  <2>3. r \in Answers(protocol) BY <1>1, <2>2
  <2>4. CASE protocol = "openai"
    <3>1. r \in Replies /\ \A i, j \in DOMAIN r : i < j => ~(IsText(r[j]) /\ ~IsText(r[i]))
      BY <2>3, <2>4 DEF Answers
    <3>2. r \in Seq([is : {"text", "tool"}, n : Nat]) BY <3>1, CloudStreamAssumption
    <3>3. TextFirst(r) = r BY <3>1, <3>2, TextsAreFirst
    <3> QED BY <3>3, <2>2, <2>4 DEF Parsed
  <2>5. CASE protocol = "anthropic" BY <2>5 DEF Parsed
  <2> QED BY <2>1, <2>4, <2>5
<1>4. EventStream(protocol') /\ result' = "ended" => Ended' BY <1>1, <1>3 DEF Ended
<1> QED BY <1>1, <1>2, <1>4 DEF CloudInv

\* A chunk is read.
LEMMA ReadsStep == ASSUME CloudInv, Reads PROVE CloudInv'
<1>1. /\ phase = "reading" /\ phase' = "reading"
      /\ UNCHANGED <<callVars, asked, providerVars, out>>
  BY DEF Reads
<1>2. Calls' BY <1>1 DEF CloudInv, Calls, callVars, providerVars
<1>3. ASSUME EventStream(protocol) PROVE Flowing'
  <2>1. Flowing BY <1>1, <1>3 DEF CloudInv
  <2>2. PICK k \in 1..Len(pipe) : /\ buffer' = buffer \o Decoded(SubSeq(pipe, 1, k))
                                  /\ pipe' = SubSeq(pipe, k + 1, Len(pipe))
    BY DEF Reads
  <2>3. /\ buffer \in Seq(Units) /\ pipe \in Seq(Units) /\ mode = "stream"
        /\ StreamOK(buffer \o pipe, out, sent, line)
    BY <2>1 DEF Flowing
  <2>4. /\ buffer' \in Seq(Units) /\ pipe' \in Seq(Units)
        /\ SameUnits(buffer \o pipe, buffer' \o pipe')
    <3>1. PICK b : b = buffer OBVIOUS
    <3>2. PICK p : p = pipe OBVIOUS
    <3>3. b \in Seq(Units) /\ p \in Seq(Units) /\ k \in 1..Len(p) BY <2>3, <3>1, <3>2
    <3>4. /\ b \o Decoded(SubSeq(p, 1, k)) \in Seq(Units) /\ SubSeq(p, k + 1, Len(p)) \in Seq(Units)
          /\ SameUnits(b \o p, (b \o Decoded(SubSeq(p, 1, k))) \o SubSeq(p, k + 1, Len(p)))
      BY ONLY <3>3, ChunkRead
    <3> QED BY <2>2, <3>1, <3>2, <3>4
  <2>5. PICK v : v = buffer \o pipe OBVIOUS
  <2>6. PICK w : w = buffer' \o pipe' OBVIOUS
  <2>7. v \in Seq(Units) /\ w \in Seq(Units) /\ SameUnits(v, w) BY <2>3, <2>4, <2>5, <2>6
  <2>8. /\ LinesOK(v) => LinesOK(w)
        /\ TextsOK(v, Len(out) + 1, sent) => TextsOK(w, Len(out) + 1, sent)
        /\ EndsLine(v) => EndsLine(w)
        /\ NoneIs(v, "done") => NoneIs(w, "done")
    BY <2>7, WindowKept
  <2>9. StreamOK(v, out, sent, line) BY <2>3, <2>5
  <2>10. StreamOK(w, out, sent, line) BY <2>8, <2>9 DEF StreamOK
  <2>11. out' = out /\ sent' = sent /\ line' = line /\ mode' = mode
    BY <1>1 DEF callVars, providerVars
  <2>12. StreamOK(buffer' \o pipe', out', sent', line') BY <2>6, <2>10, <2>11
  <2> QED BY <2>3, <2>4, <2>11, <2>12 DEF Flowing
<1>4. protocol' = protocol BY <1>1 DEF callVars
<1> QED BY <1>1, <1>2, <1>3, <1>4 DEF CloudInv

\* A complete line is parsed.
LEMMA ParsesLineStep == ASSUME CloudInv, ParsesLine PROVE CloudInv'
<1> DEFINE l == SubSeq(buffer, 1, EndOfLine(buffer) - 1)
<1>1. /\ phase = "reading" /\ Lines(buffer) # {}
      /\ out' = out \o TokensOf(protocol, l)
      /\ IF Sentinel(protocol, l) THEN phase' = "over" /\ result' = "ended"
         ELSE phase' = phase /\ result' = result
      /\ buffer' = Rest(buffer)
      /\ UNCHANGED <<callVars, asked, providerVars, pipe>>
  BY DEF ParsesLine, Over
<1>2. Calls' BY <1>1 DEF CloudInv, Calls, callVars, providerVars
<1>3. ASSUME EventStream(protocol)
      PROVE  /\ Sentinel(protocol, l) => Ended'
             /\ ~Sentinel(protocol, l) => Flowing'
  <2>1. /\ buffer \in Seq(Units) /\ pipe \in Seq(Units) /\ mode = "stream" /\ sent \in Nat
        /\ StreamOK(buffer \o pipe, out, sent, line)
    BY <1>1, <1>3 DEF CloudInv, Calls, Flowing
  <2>2. PICK e : e = EndOfLine(buffer) OBVIOUS
  <2>3. PICK b : b = buffer OBVIOUS
  <2>4. PICK u : u = pipe OBVIOUS
  <2>5. b \in Seq(Units) /\ u \in Seq(Units) /\ Len(b) \in Nat /\ Len(u) \in Nat BY <2>1, <2>3, <2>4
  <2>6. e \in 1..Len(b) /\ b[e].is = "nl" /\ \A i \in 1..e - 1 : b[i].is # "nl"
    <3>1. Lines(b) = {i \in 1..Len(b) : b[i].is = "nl"} BY <2>5 DEF Lines
    <3>2. Lines(b) \subseteq Nat /\ Lines(b) # {} BY <3>1, <2>5, <1>1, <2>3
    <3>3. \E i \in Lines(b) : \A j \in Lines(b) : i <= j BY <3>2, LeastNat
    <3>4. e = CHOOSE i \in Lines(b) : \A j \in Lines(b) : i <= j BY <2>2, <2>3 DEF EndOfLine
    <3>5. e \in Lines(b) /\ \A j \in Lines(b) : e <= j BY <3>3, <3>4
    <3>6. e \in 1..Len(b) /\ b[e].is = "nl" BY <3>1, <3>5
    <3>7. ASSUME NEW i \in 1..e - 1 PROVE b[i].is # "nl"
      <4>1. i \in 1..Len(b) /\ ~(e <= i) BY <3>6, <2>5
      <4> QED BY <4>1, <3>1, <3>5
    <3> QED BY <3>6, <3>7
  <2>7. PICK w : w = FollowedBy(b, u) OBVIOUS
  <2>8. /\ w \in Seq(Units) /\ Len(w) = Len(b) + Len(u)
        /\ \A i \in 1..Len(b) : i \in 1..Len(w) /\ w[i] = b[i]
        /\ \A i \in 1..Len(u) : i + Len(b) \in 1..Len(w) /\ w[i + Len(b)] = u[i]
    BY <2>5, <2>7, Joined
  <2>9. e \in 1..Len(w) /\ w[e].is = "nl" /\ \A i \in 1..e - 1 : w[i].is # "nl"
    <3>1. \A i \in 1..e - 1 : i \in 1..Len(b) BY <2>6, <2>5
    <3> QED BY <3>1, <2>6, <2>8
  <2>10. l = SubSeq(w, 1, e - 1)
    <3>1. PICK m : m = SubSeq(b, 1, e - 1) OBVIOUS
    <3>2. m = [i \in 1..e - 1 |-> b[i]] BY <3>1, <2>5, <2>6
    <3>3. SubSeq(w, 1, e - 1) = [i \in 1..e - 1 |-> w[i]] BY <2>8, <2>9
    <3>4. \A i \in 1..e - 1 : w[i] = b[i] BY <2>5, <2>6, <2>8
    <3>5. l = m BY <2>2, <2>3, <3>1
    <3> QED BY <3>2, <3>3, <3>4, <3>5
  <2>11. PICK r : r = SubSeq(b, e + 1, Len(b)) OBVIOUS
  <2>12. r \in Seq(Units) /\ Len(r) = Len(b) - e /\ \A i \in 1..Len(b) - e : r[i] = b[i + e]
    BY <2>5, <2>6, <2>11
  <2>13. r \o u = SubSeq(w, e + 1, Len(w))
    <3>1. PICK x : x = FollowedBy(r, u) OBVIOUS
    <3>2. PICK y : y = SubSeq(w, e + 1, Len(w)) OBVIOUS
    <3>3. /\ x \in Seq(Units) /\ Len(x) = Len(r) + Len(u)
          /\ \A i \in 1..Len(r) : i \in 1..Len(x) /\ x[i] = r[i]
          /\ \A i \in 1..Len(x) : i > Len(r) =>
               i - Len(r) \in 1..Len(u) /\ x[i] = u[i - Len(r)] /\ i = (i - Len(r)) + Len(r)
      <4>1. r \in Seq(Units) /\ u \in Seq(Units) BY <2>5, <2>12
      <4> QED BY ONLY <4>1, <3>1, Joined
    <3>4. y \in Seq(Units) /\ Len(y) = Len(w) - e /\ \A i \in 1..Len(w) - e : y[i] = w[i + e]
      BY <2>8, <2>9, <3>2
    <3>5. Len(x) = Len(y) BY <2>5, <2>6, <2>8, <2>12, <3>3, <3>4
    <3>6. ASSUME NEW i \in 1..Len(x) PROVE x[i] = y[i]
      <4>1. y[i] = w[i + e] BY <3>4, <3>5
      <4>2. CASE i <= Len(r)
        <5>1. i \in 1..Len(r) /\ i + e \in 1..Len(b) BY <4>2, <2>5, <2>6, <2>12
        <5>2. x[i] = r[i] BY <3>3, <5>1
        <5>3. r[i] = b[i + e] BY <5>1, <2>12
        <5>4. w[i + e] = b[i + e] BY <5>1, <2>8
        <5> QED BY <4>1, <5>2, <5>3, <5>4
      <4>3. CASE i > Len(r)
        <5>1. i - Len(r) \in 1..Len(u) /\ x[i] = u[i - Len(r)] BY <3>3, <4>3
        <5>2. (i - Len(r)) + Len(b) = i + e BY <2>5, <2>6, <2>12
        <5>3. w[(i - Len(r)) + Len(b)] = u[i - Len(r)] BY <5>1, <2>8
        <5> QED BY <4>1, <5>1, <5>2, <5>3
      <4> QED BY <4>2, <4>3, <2>5, <2>6, <2>12
    <3>7. x = y
      <4>1. x = [i \in 1..Len(x) |-> x[i]] /\ y = [i \in 1..Len(y) |-> y[i]] BY <3>3, <3>4
      <4> QED BY <4>1, <3>5, <3>6
    <3> QED BY <3>1, <3>2, <3>7 DEF FollowedBy
  <2>14. buffer' = r /\ pipe' = u BY <1>1, <2>2, <2>3, <2>4, <2>11 DEF Rest
  <2>15. out' = out \o TokensOf(protocol, l) /\ protocol \in {"openai", "anthropic"}
    BY <1>1, <1>3 DEF EventStream
  <2>16. StreamOK(w, out, sent, line) BY <2>1, <2>3, <2>4, <2>7 DEF FollowedBy
  <2> HIDE DEF l
  <2>17. PICK v : v = After(w, e) OBVIOUS
  <2>18. StreamOK(v, out', sent, line) /\ (Sentinel(protocol, l) => Len(out') = sent /\ line # "open")
    <3>1. PICK o : o = out OBVIOUS
    <3>2. PICK n \in Nat : n = sent BY <2>1
    <3>3. PICK c : c = line OBVIOUS
    <3>4. PICK p \in {"openai", "anthropic"} : p = protocol BY <2>15
    <3>5. PICK m : m = l OBVIOUS
    <3>6. StreamOK(w, o, n, c) BY <2>16, <3>1, <3>2, <3>3
    <3>7. m = UpTo(w, e) BY <2>10, <3>5 DEF UpTo
    <3>8. /\ StreamOK(After(w, e), o \o TokensOf(p, m), n, c)
          /\ Sentinel(p, m) => Len(o \o TokensOf(p, m)) = n /\ c # "open"
      <4>1. w \in Seq(Units) BY <2>8
      <4>2. FirstEnd(w, e) BY <2>9 DEF FirstEnd
      <4> QED
        BY ONLY <4>1, <4>2, <3>6, <3>7, n \in Nat, p \in {"openai", "anthropic"}, LineParsed
    <3>9. out' = o \o TokensOf(p, m) BY <2>15, <3>1, <3>4, <3>5
    <3> QED BY <2>17, <3>2, <3>3, <3>4, <3>5, <3>8, <3>9
  <2>19. sent' = sent /\ line' = line /\ mode' = mode BY <1>1 DEF callVars, providerVars
  <2>20. StreamOK(buffer' \o pipe', out', sent', line')
    <3>1. v = r \o u BY <2>13, <2>17 DEF After
    <3> QED BY <3>1, <2>14, <2>18, <2>19
  <2>21. Sentinel(protocol, l) => Ended'
    <3>1. HandedInOrder(out', sent') BY <2>20 DEF StreamOK
    <3> QED BY <3>1, <2>1, <2>18, <2>19 DEF Ended
  <2>22. Flowing' BY <2>1, <2>5, <2>12, <2>14, <2>19, <2>20 DEF Flowing
  <2> QED BY <2>21, <2>22
<1>4. protocol' = protocol BY <1>1 DEF callVars
<1> HIDE DEF l
<1> QED BY <1>1, <1>2, <1>3, <1>4 DEF CloudInv

\* The end of the stream: what is left is parsed, and then there is nothing.
LEMMA StreamEndStep == ASSUME CloudInv, ParsesLeftover \/ ReadsEnd PROVE CloudInv'
<1>1. /\ phase = "reading" /\ pipe = << >> /\ line = "closed" /\ Lines(buffer) = {}
      /\ UNCHANGED <<callVars, asked, providerVars>>
  BY DEF ParsesLeftover, ReadsEnd, Lines
<1>2. Calls' BY <1>1 DEF CloudInv, Calls, callVars, providerVars
<1>3. protocol' = protocol /\ sent' = sent /\ line' = line /\ mode' = mode
  BY <1>1 DEF callVars, providerVars
<1>4. ASSUME EventStream(protocol)
      PROVE  /\ buffer \in Seq(Units) /\ mode = "stream" /\ sent \in Nat
             /\ StreamOK(buffer, out, sent, line)
             /\ \A i \in 1..Len(buffer) : buffer[i].is # "nl"
  <2>1. /\ buffer \in Seq(Units) /\ mode = "stream" /\ sent \in Nat
        /\ StreamOK(buffer \o pipe, out, sent, line)
    BY <1>1, <1>4 DEF CloudInv, Calls, Flowing
  <2>2. buffer \o pipe = buffer BY <1>1, <2>1
  <2>3. \A i \in 1..Len(buffer) : buffer[i].is # "nl" BY <1>1, <2>1 DEF Lines
  <2> QED BY <2>1, <2>2, <2>3
<1>5. CASE ParsesLeftover
  <2>1. /\ out' = out \o TokensOf(protocol, buffer) /\ buffer' = << >> /\ pipe' = << >>
        /\ phase' = "reading"
    BY <1>1, <1>5 DEF ParsesLeftover, Leftover
  <2>2. ASSUME EventStream(protocol) PROVE Flowing'
    <3>1. protocol \in {"openai", "anthropic"} BY <2>2 DEF EventStream
    <3>2. HandedInOrder(out', sent) /\ Len(out') = sent
      <4>1. /\ buffer \in Seq(Units) /\ sent \in Nat /\ StreamOK(buffer, out, sent, line)
            /\ \A i \in 1..Len(buffer) : buffer[i].is # "nl"
        BY <1>4, <2>2
      <4> QED BY <2>1, <3>1, <4>1, LeftoverParsed
    <3>3. << >> \o << >> = << >> /\ << >> \in Seq(Units) /\ Len(<< >>) = 0 OBVIOUS
    <3>4. LinesOK(<< >>) BY DEF LinesOK
    <3>5. TextsOK(<< >>, sent + 1, sent)
      <4>1. NoneIs(<< >>, "text") BY DEF NoneIs
      <4>2. sent \in Nat /\ sent + 1 \in Nat /\ sent < sent + 1 BY <1>4, <2>2
      <4>3. PICK n \in Nat : n = sent BY <4>2
      <4>4. TextsOK(<< >>, n + 1, n)
        <5>1. n + 1 \in Nat /\ n < n + 1 /\ << >> \in Seq(Units) OBVIOUS
        <5> QED BY <4>1, <5>1, NoTexts
      <4> QED BY <4>3, <4>4
    <3>6. line # "open" BY <1>1
    <3>7. StreamOK(<< >>, out', sent, line) BY <3>2, <3>4, <3>5, <3>6 DEF StreamOK
    <3>8. StreamOK(buffer' \o pipe', out', sent', line') BY <1>3, <2>1, <3>3, <3>7
    <3>9. mode' = "stream" BY <1>3, <1>4, <2>2
    <3> QED BY <2>1, <3>3, <3>8, <3>9 DEF Flowing
  <2> QED BY <1>2, <1>3, <2>1, <2>2 DEF CloudInv
<1>6. CASE ReadsEnd
  <2>1. buffer = << >> /\ out' = out /\ phase' = "over" BY <1>6 DEF ReadsEnd, Over
  <2>2. ASSUME EventStream(protocol) PROVE Ended'
    <3>1. /\ StreamOK(<< >>, out, sent, line) /\ mode = "stream" /\ sent \in Nat
          /\ protocol \in {"openai", "anthropic"}
      BY <1>4, <2>1, <2>2 DEF EventStream
    <3>2. TextsOK(<< >>, Len(out) + 1, sent) /\ HandedInOrder(out, sent) BY <3>1 DEF StreamOK
    <3>3. Len(out) \in Nat /\ Len(out) <= sent BY <3>2 DEF HandedInOrder
    <3>4. ~(Len(out) + 1 <= sent)
      <4>1. SUFFICES ASSUME Len(out) + 1 <= sent PROVE FALSE OBVIOUS
      <4>2. Len(out) + 1 \in Len(out) + 1..sent BY <3>1, <3>3, <4>1
      <4>3. \E i \in 1..Len(<< >>) : TRUE BY <3>2, <4>2 DEF TextsOK
      <4>4. Len(<< >>) = 0 OBVIOUS
      <4> QED BY <4>3, <4>4
    <3>5. Len(out) = sent BY <3>1, <3>3, <3>4
    <3> QED BY <1>1, <1>3, <2>1, <3>1, <3>2, <3>5 DEF Ended
  <2> QED BY <1>2, <1>3, <2>1, <2>2 DEF CloudInv
<1> QED BY <1>5, <1>6

\* The provider sends on an open line.
LEMMA SendsStep ==
  ASSUME CloudInv, NEW us, Sends(us), sent' \in Nat, sent <= sent',
         EventStream(protocol) =>
           /\ us \in Seq(Units) /\ LinesOK(us) /\ TextsOK(us, sent + 1, sent')
           /\ line' = "open" => us # << >> /\ EndsLine(us) /\ NoneIs(us, "done")
  PROVE  CloudInv'
<1>1. /\ phase \in {"reading", "over"} /\ mode = "stream" /\ line = "open"
      /\ pipe' = IF phase = "over" THEN << >> ELSE pipe \o us
      /\ UNCHANGED <<callVars, phase, result, asked, reply, buffer, out>>
  BY DEF Sends
<1>2. Calls' BY <1>1 DEF CloudInv, Calls, callVars
<1>3. protocol' = protocol /\ mode' = mode /\ buffer' = buffer /\ out' = out /\ phase' = phase
      /\ result' = result
  BY <1>1 DEF callVars
<1>4. EventStream(protocol) /\ phase = "over" => result # "ended" BY <1>1 DEF CloudInv, Ended
<1>5. ASSUME EventStream(protocol), phase = "reading" PROVE Flowing'
  <2>1. /\ buffer \in Seq(Units) /\ pipe \in Seq(Units) /\ sent \in Nat
        /\ StreamOK(buffer \o pipe, out, sent, line)
    BY <1>5 DEF CloudInv, Calls, Flowing
  <2>2. PICK b : b = buffer OBVIOUS
  <2>3. PICK u : u = pipe OBVIOUS
  <2>4. PICK o : o = out OBVIOUS
  <2>5. PICK s \in Nat : s = sent BY <2>1
  <2>6. PICK t \in Nat : t = sent' OBVIOUS
  <2>7. PICK c : c = line' OBVIOUS
  <2>8. PICK z : z = u \o us OBVIOUS
  <2>9. b \in Seq(Units) /\ u \in Seq(Units) /\ s <= t /\ us \in Seq(Units)
    BY <1>5, <2>1, <2>2, <2>3, <2>5, <2>6
  <2>10. StreamOK(b \o u, o, s, "open") BY <1>1, <2>1, <2>2, <2>3, <2>4, <2>5
  <2>11. LinesOK(us) /\ TextsOK(us, s + 1, t) BY <1>5, <2>5, <2>6
  <2>12. c = "open" => us # << >> /\ EndsLine(us) /\ NoneIs(us, "done") BY <1>5, <2>7
  <2>13. z \in Seq(Units) /\ StreamOK(b \o z, o, t, c)
    BY <2>8, <2>9, <2>10, <2>11, <2>12, MoreSent
  <2>14. pipe' = z BY <1>1, <1>5, <2>3, <2>8
  <2>15. StreamOK(buffer' \o pipe', out', sent', line')
    BY <1>3, <2>2, <2>4, <2>6, <2>7, <2>13, <2>14
  <2> QED BY <1>1, <1>3, <2>1, <2>13, <2>14, <2>15 DEF Flowing
<1> QED BY <1>1, <1>2, <1>3, <1>4, <1>5 DEF CloudInv

LEMMA ProviderStep == ASSUME CloudInv, Provider PROVE CloudInv'
<1>0. sent \in Nat BY DEF CloudInv, Calls
<1>1. CASE SendsText
  <2>1. sent' = sent + 1 /\ sent' \in Nat /\ sent <= sent' BY <1>0, <1>1 DEF SendsText
  <2>2. \E us : \E nl \in BOOLEAN :
          /\ us = (IF nl THEN TextEvent(protocol, sent + 1) \o Newline
                   ELSE TextEvent(protocol, sent + 1))
          /\ Sends(us) /\ (~nl => line' = "closed")
    <3>1. CASE Sends(TextEvent(protocol, sent + 1) \o Newline) BY <3>1
    <3>2. CASE Sends(TextEvent(protocol, sent + 1)) /\ line' = "closed" BY <3>2
    <3> QED BY <1>1, <3>1, <3>2 DEF SendsText
  <2>3. PICK us, nl :
           /\ nl \in BOOLEAN
           /\ us = (IF nl THEN TextEvent(protocol, sent + 1) \o Newline
                    ELSE TextEvent(protocol, sent + 1))
           /\ Sends(us) /\ (~nl => line' = "closed")
    BY <2>2
  <2>4. ASSUME EventStream(protocol)
        PROVE  /\ us \in Seq(Units) /\ LinesOK(us) /\ TextsOK(us, sent + 1, sent')
               /\ line' = "open" => us # << >> /\ EndsLine(us) /\ NoneIs(us, "done")
    <3>1. PICK n \in Nat : n = sent + 1 BY <1>0
    <3>2. PICK p \in {"openai", "anthropic"} : p = protocol BY <2>4 DEF EventStream
    <3>3. us = IF nl THEN TextEvent(p, n) \o Newline ELSE TextEvent(p, n) BY <2>3, <3>1, <3>2
    <3>4. /\ us \in Seq(Units) /\ LinesOK(us) /\ TextsOK(us, n, n) /\ NoneIs(us, "done")
          /\ us # << >> /\ (nl => EndsLine(us))
      BY ONLY <3>3, <2>3, n \in Nat, p \in {"openai", "anthropic"}, TextSent
    <3> QED BY <2>1, <2>3, <3>1, <3>4
  <2> QED BY <2>1, <2>3, <2>4, SendsStep
<1>2. CASE SendsOther
  <2>1. sent' = sent /\ line' = line BY <1>2 DEF SendsOther
  <2>2. PICK us \in {<< >>, <<U("comment", 0)>>, Data(protocol, <<U("note", 0)>>)} :
          Sends(us \o Newline)
    BY <1>2 DEF SendsOther
  <2>3. PICK v : v = us \o Newline OBVIOUS
  <2>4. ASSUME EventStream(protocol)
        PROVE  /\ v \in Seq(Units) /\ LinesOK(v) /\ TextsOK(v, sent + 1, sent')
               /\ line' = "open" => v # << >> /\ EndsLine(v) /\ NoneIs(v, "done")
    <3>1. PICK p \in {"openai", "anthropic"} : p = protocol BY <2>4 DEF EventStream
    <3>2. us \in {<< >>, <<U("comment", 0)>>, Data(p, <<U("note", 0)>>)} BY <3>1
    <3>3. /\ v \in Seq(Units) /\ LinesOK(v) /\ NoneIs(v, "text") /\ NoneIs(v, "done")
          /\ v # << >> /\ EndsLine(v)
      BY <2>3, <3>2, OtherSent
    <3>4. PICK n \in Nat : n = sent BY <1>0
    <3>5. TextsOK(v, n + 1, n)
      <4>1. n + 1 \in Nat /\ n < n + 1 OBVIOUS
      <4> QED BY <3>3, <4>1, NoTexts
    <3> QED BY <2>1, <3>3, <3>4, <3>5
  <2>5. sent' \in Nat /\ sent <= sent' BY <1>0, <2>1
  <2> QED BY <2>2, <2>3, <2>4, <2>5, SendsStep
<1>3. CASE Closes \/ Breaks
  <2>1. sent' = sent /\ line' # "open" BY <1>3 DEF Closes, Breaks
  <2>2. PICK us : Sends(us) /\ (us = << >> \/ us = Done \o Newline) BY <1>3 DEF Closes, Breaks
  <2>3. us \in Seq(Units) /\ LinesOK(us) /\ NoneIs(us, "text")
    <3>1. CASE us = << >> BY <3>1 DEF LinesOK, NoneIs
    <3>2. CASE us = Done \o Newline BY <3>2, DoneSent
    <3> QED BY <2>2, <3>1, <3>2
  <2>4. TextsOK(us, sent + 1, sent')
    <3>1. PICK n \in Nat : n = sent BY <1>0
    <3>2. TextsOK(us, n + 1, n)
      <4>1. n + 1 \in Nat /\ n < n + 1 OBVIOUS
      <4> QED BY <2>3, <4>1, NoTexts
    <3> QED BY <2>1, <3>1, <3>2
  <2>5. sent' \in Nat /\ sent <= sent' BY <1>0, <2>1
  <2> QED BY <2>1, <2>2, <2>3, <2>4, <2>5, SendsStep
<1> QED BY <1>1, <1>2, <1>3 DEF Provider

LEMMA CloudInvNext == CloudInv /\ [CloudNext]_cloudVars => CloudInv'
<1> SUFFICES ASSUME CloudInv, [CloudNext]_cloudVars PROVE CloudInv' OBVIOUS
<1>1. CASE Provider BY <1>1, ProviderStep
<1>2. CASE Load \/ Ask \/ Refused \/ ReadsError \/ CallerLeaves BY <1>2, RequestStep
<1>3. CASE Accepted BY <1>3, AcceptedStep
<1>4. CASE Generate BY <1>4, GenerateStep
<1>5. CASE Reads BY <1>5, ReadsStep
<1>6. CASE ParsesLine BY <1>6, ParsesLineStep
<1>7. CASE ParsesLeftover \/ ReadsEnd BY <1>7, StreamEndStep
<1>8. CASE UNCHANGED cloudVars
  <2>1. Calls' BY <1>8 DEF CloudInv, Calls, cloudVars, callVars, providerVars
  <2>2. phase' \in {"new", "loaded", "asking"} => NotYet'
    BY <1>8 DEF CloudInv, NotYet, cloudVars, callVars, providerVars
  <2>3. EventStream(protocol') /\ phase' = "reading" => Flowing'
    BY <1>8 DEF CloudInv, Flowing, cloudVars, callVars, providerVars
  <2>4. EventStream(protocol') /\ phase' = "over" /\ result' = "ended" => Ended'
    BY <1>8 DEF CloudInv, Ended, cloudVars, callVars, providerVars
  <2> QED BY <2>1, <2>2, <2>3, <2>4 DEF CloudInv
<1> QED BY <1>1, <1>2, <1>3, <1>4, <1>5, <1>6, <1>7, <1>8 DEF CloudNext, CloudClient

\* What is on its way between provider and caller is always whole lines with
\* the texts that are not handed on yet (stream_sse_with_parser).
THEOREM CloudInvariant == CloudSpec => []CloudInv
BY CloudInvInit, CloudInvNext, PTL DEF CloudSpec

\* However the network cuts a reply into chunks, through the middle of a
\* character too, a stream that ends without an error has yielded every text
\* the provider sent, once and in order, also when the last line has no end;
\* an answer that is parsed keeps all its blocks (stream_sse_with_parser of
\* engine/cloud/sse.rs, parse_response of the protocols).
THEOREM CloudEndsWhole == CloudSpec => []EndedIsWhole
<1>1. CloudInv => EndedIsWhole
  <2> SUFFICES ASSUME CloudInv, phase = "over", result = "ended", EventStream(protocol)
               PROVE  IF mode = "stream" THEN [i \in DOMAIN out |-> out[i].n] = [i \in 1 .. sent |-> i]
                      ELSE out = reply
    BY DEF EndedIsWhole
  <2>1. Ended BY DEF CloudInv
  <2>2. CASE mode = "stream"
    <3>1. HandedInOrder(out, sent) /\ Len(out) = sent BY <2>1, <2>2 DEF Ended
    <3>2. DOMAIN out = 1..sent /\ \A i \in 1..sent : out[i].n = i BY <3>1 DEF HandedInOrder
    <3> QED BY <2>2, <3>2
  <2>3. CASE mode # "stream" BY <2>1, <2>3 DEF Ended
  <2> QED BY <2>2, <2>3
<1> QED BY <1>1, CloudInvariant, PTL

\* The request holds the conversation it was made of: every message but a
\* second system message once, in the order they were said, the system text in
\* the field of its own where the protocol has one, and as said by the model
\* exactly what the model said (build_request_body of the four protocols).
THEOREM CloudAsksConversation == CloudSpec => []AskedIsConversation
<1>1. CloudInv => AskedIsConversation
  <2> SUFFICES ASSUME CloudInv, asked.turns # << >> PROVE Conversing(messages, asked)
    BY DEF AskedIsConversation, Conversing
  <2>1. asked = Body(protocol, messages) BY DEF CloudInv, Calls
  <2>2. messages \in Seq(Kinds) BY CloudStreamAssumption DEF CloudInv, Calls
  <2> QED BY <2>1, <2>2, BodyConverses
<1> QED BY <1>1, CloudInvariant, PTL

=============================================================================
