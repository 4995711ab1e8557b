-------------------------- MODULE LayerSetup_proofs --------------------------
(***************************************************************************)
(* Proofs about the set-up of layer pipelines for every set of calls,      *)
(* workers and plans, and any number of releases; and below about the      *)
(* registry of models for every set of processes, tasks, models and files. *)
(***************************************************************************)
EXTENDS LayerSetup, RegistryCommands, FiniteSetTheorems, WellFoundedInduction, TLAPS

Within(m, q) == \E i \in 1..Len(q) : q[i] = m
Once(m, q) == \A i, j \in 1..Len(q) : q[i] = m /\ q[j] = m => i = j

Assign(s) == Msg("assign", s)
ReleaseMsg == Msg("release", NoSession)
Ready(s, w) == Ack("ready", s, w)

\* s has sent w its assignment.
Sent(s, w) == \E k \in 1..sent[s] : Plan[s][k] = w

\* An assignment is on its way once, and its task has not begun.
Assignments ==
  \A s \in Sessions, w \in Workers :
    /\ Once(Assign(s), wire[w])
    /\ Within(Assign(s), wire[w]) => Sent(s, w) /\ load[s][w] = "none"
    /\ load[s][w] # "none" => Sent(s, w)

\* A release on its way has been counted.
Releases == \A w \in Workers : Within(ReleaseMsg, wire[w]) => releases[w] > 0

\* An acknowledgement is on its way once, and its task is over.
Answers ==
  \A s \in Sessions, w \in Workers :
    /\ Once(Ready(s, w), inbox)
    /\ Within(Ready(s, w), inbox) => load[s][w] = "acked"

\* The acknowledgements counted are those of that many positions of the plan,
\* none of which is still on its way.
Counts(s, C) ==
  /\ Cardinality(C) = acks[s]
  /\ \A k \in C : load[s][Plan[s][k]] = "acked" /\ ~Within(Ready(s, Plan[s][k]), inbox)
Counted == \A s \in Sessions : \E C \in SUBSET (1..Len(Plan[s])) : Counts(s, C)
AllCounted == \A s \in Sessions : setup[s] = "ready" => acks[s] = Len(Plan[s])

CallInv == Assignments /\ Releases /\ Answers /\ Counted /\ AllCounted

\* A stage that the state or an unload task names has been stored, and one that is
\* to be stored is in the orchestrator only.
Stages ==
  \A s \in Sessions, w \in Workers :
    /\ load[s][w] = "loaded" => s \in held[w]
    /\ stage[w] = s => Stored(s, w) /\ s \in held[w] /\ unloading[w] # s
    /\ unloading[w] = s => Stored(s, w)
StillThere ==
  \A s \in Sessions, w \in Workers :
    Stored(s, w) => stage[w] = s \/ Overwritten(s, w) \/ releases[w] > 0

HandlerInv == Stages /\ StillThere /\ LostOnlyByOverwriting

-----------------------------------------------------------------------------
(* Sequences *)

LEMMA AppendOne ==
  ASSUME NEW S, NEW q \in Seq(S), NEW e \in S, NEW m
  PROVE  /\ Append(q, e) \in Seq(S)
         /\ Within(m, Append(q, e)) <=> Within(m, q) \/ m = e
         /\ Once(m, q) /\ (m = e => ~Within(m, q)) => Once(m, Append(q, e))
<1>1. /\ Append(q, e) \in Seq(S) /\ Len(Append(q, e)) = Len(q) + 1
      /\ \A i \in 1..Len(q) : Append(q, e)[i] = q[i]
      /\ Append(q, e)[Len(q) + 1] = e
  OBVIOUS
<1>2. Within(m, Append(q, e)) <=> Within(m, q) \/ m = e
  <2>1. Within(m, q) => Within(m, Append(q, e))
    BY <1>1 DEF Within
  <2>2. m = e => Within(m, Append(q, e))
    BY <1>1 DEF Within
  <2>3. Within(m, Append(q, e)) => Within(m, q) \/ m = e
    BY <1>1 DEF Within
  <2>4. QED
    BY <2>1, <2>2, <2>3
<1>3. ASSUME Once(m, q), m = e => ~Within(m, q),
             NEW i \in 1..(Len(q) + 1), NEW j \in 1..(Len(q) + 1),
             Append(q, e)[i] = m, Append(q, e)[j] = m
      PROVE  i = j
  BY <1>1, <1>3 DEF Within, Once
<1>4. QED
  BY <1>1, <1>2, <1>3 DEF Once

LEMMA TakeHead ==
  ASSUME NEW S, NEW q \in Seq(S), q # << >>, NEW m
  PROVE  /\ Head(q) \in S /\ Tail(q) \in Seq(S) /\ Within(Head(q), q)
         /\ Within(m, Tail(q)) => Within(m, q)
         /\ Once(m, q) => Once(m, Tail(q)) /\ (m = Head(q) => ~Within(m, Tail(q)))
<1>1. /\ Head(q) \in S /\ Tail(q) \in Seq(S) /\ Len(Tail(q)) = Len(q) - 1
      /\ Len(q) \in Nat /\ Len(q) >= 1
      /\ Head(q) = q[1] /\ \A i \in 1..Len(Tail(q)) : Tail(q)[i] = q[i + 1]
  OBVIOUS
<1>2. Within(m, Tail(q)) => Within(m, q)
  BY <1>1 DEF Within
<1>3. ASSUME Once(m, q), NEW i \in 1..Len(Tail(q)), NEW j \in 1..Len(Tail(q)),
             Tail(q)[i] = m, Tail(q)[j] = m
      PROVE  i = j
  <2>1. i + 1 \in 1..Len(q) /\ j + 1 \in 1..Len(q) /\ q[i + 1] = m /\ q[j + 1] = m
    BY <1>1, <1>3
  <2>2. QED
    BY <1>3, <2>1 DEF Once
<1>4. ASSUME Once(m, q), m = Head(q), NEW i \in 1..Len(Tail(q)), Tail(q)[i] = m
      PROVE  FALSE
  <2>1. 1 \in 1..Len(q) /\ i + 1 \in 1..Len(q) /\ q[1] = m /\ q[i + 1] = m /\ i + 1 # 1
    BY <1>1, <1>4
  <2>2. QED
    BY <1>4, <2>1 DEF Once
<1>5. QED
  BY <1>1, <1>2, <1>3, <1>4 DEF Within, Once

-----------------------------------------------------------------------------
(* Types *)

LEMMA MessageTypes ==
  /\ \A s \in Sessions : Assign(s) \in ToWorker
  /\ ReleaseMsg \in ToWorker
  /\ \A s \in Sessions, w \in Workers :
       Ready(s, w) \in ToInitiator /\ Ack("refused", s, w) \in ToInitiator
  BY DEF Assign, ReleaseMsg, Ready, Msg, Ack, ToWorker, ToInitiator

LEMMA PlanTypes ==
  ASSUME NEW s \in Sessions
  PROVE  /\ Len(Plan[s]) \in Nat
         /\ \A k \in 1..Len(Plan[s]) : Plan[s][k] \in Workers
         /\ \A j, k \in 1..Len(Plan[s]) : Plan[s][j] = Plan[s][k] => j = k
         /\ Peers(s) = {Plan[s][k] : k \in 1..Len(Plan[s])}
<1>1. /\ Plan[s] \in Seq(Workers)
      /\ \A j, k \in 1..Len(Plan[s]) : Plan[s][j] = Plan[s][k] => j = k
  BY LayerSetupAssumption
<1>2. QED
  BY <1>1 DEF Peers

LEMMA TypeInit == Init => TypeOK
<1>1. << >> \in Seq(ToInitiator) /\ << >> \in Seq(ToWorker)
  OBVIOUS
<1>2. ASSUME NEW s \in Sessions PROVE 0 <= Len(Plan[s])
  <2>1. Len(Plan[s]) \in Nat
    BY PlanTypes
  <2>2. QED
    BY <2>1
<1>3. QED
  BY <1>1, <1>2 DEF Init, TypeOK, TaskStates

LEMMA TypeStep == TypeOK /\ Releases /\ [Next]_vars => TypeOK'
<1> SUFFICES ASSUME TypeOK, Releases, [Next]_vars PROVE TypeOK'
  OBVIOUS
<1> USE DEF TypeOK
<1>1. ASSUME NEW s \in Sessions, SetupStarts(s) PROVE TypeOK'
  BY <1>1 DEF SetupStarts, networkVars, workerVars
<1>2. ASSUME NEW s \in Sessions, SendAssign(s) PROVE TypeOK'
  <2> DEFINE w == Plan[s][sent[s] + 1]
  <2>1. w \in Workers /\ sent[s] + 1 <= Len(Plan[s]) /\ sent[s] + 1 \in Nat
    BY <1>2, PlanTypes DEF SendAssign
  <2>2. wire' \in [Workers -> Seq(ToWorker)]
    <3>1. Append(wire[w], Assign(s)) \in Seq(ToWorker)
      BY <2>1, MessageTypes, AppendOne
    <3>2. QED
      BY <1>2, <2>1, <3>1 DEF SendAssign, Assign
  <2>3. sent' \in [Sessions -> Nat] /\ \A q \in Sessions : sent'[q] <= Len(Plan[q])
    <3>1. CASE sent' = [sent EXCEPT ![s] = @ + 1]
      BY <2>1, <3>1
    <3>2. CASE UNCHANGED sent
      BY <3>2
    <3>3. QED
      BY <1>2, <3>1, <3>2 DEF SendAssign
  <2>4. QED
    BY <1>2, <2>2, <2>3 DEF SendAssign, workerVars
<1>3. ASSUME NEW s \in Sessions, SetupReads(s) PROVE TypeOK'
  <2>1. inbox' \in Seq(ToInitiator)
    BY <1>3, TakeHead DEF SetupReads
  <2>2. setup' \in [Sessions -> {"new", "active", "ready", "failed"}] /\ acks' \in [Sessions -> Nat]
    <3>1. CASE UNCHANGED <<setup, acks>>
      BY <3>1
    <3>2. CASE setup' = [setup EXCEPT ![s] = "failed"] /\ UNCHANGED acks
      BY <3>2
    <3>3. CASE /\ acks' = [acks EXCEPT ![s] = @ + 1]
               /\ setup' = setup \/ setup' = [setup EXCEPT ![s] = "ready"]
      <4>1. acks' \in [Sessions -> Nat]
        BY <3>3
      <4>2. setup' \in [Sessions -> {"new", "active", "ready", "failed"}]
        BY <3>3
      <4>3. QED
        BY <4>1, <4>2
    <3>4. QED
      BY <1>3, <3>1, <3>2, <3>3 DEF SetupReads
  <2>3. QED
    BY <1>3, <2>1, <2>2 DEF SetupReads, workerVars
<1>4. ASSUME NEW w \in Workers, DaemonReceives(w) PROVE TypeOK'
  <2> DEFINE m == Head(wire[w])
  <2>1. /\ wire' \in [Workers -> Seq(ToWorker)] /\ m \in ToWorker /\ Within(m, wire[w])
    BY <1>4, TakeHead DEF DaemonReceives
  <2>2. /\ m.kind = "assign" => m.id \in Sessions
        /\ m.kind = "release" => m = ReleaseMsg
    BY <2>1 DEF ToWorker, ReleaseMsg, Msg
  <2>3. load' \in [Sessions -> [Workers -> TaskStates]]
    <3>1. CASE load' = [load EXCEPT ![m.id][w] = "loading"] /\ m.kind = "assign"
      BY <2>2, <3>1 DEF TaskStates
    <3>2. CASE UNCHANGED load
      BY <3>2
    <3>3. QED
      BY <1>4, <3>1, <3>2 DEF DaemonReceives
  <2>4. m.kind = "release" => releases[w] > 0
    BY <2>1, <2>2 DEF Releases
  <2>5. unloads' \in [Workers -> Nat] /\ \A v \in Workers : unloads'[v] > 0 => releases'[v] > 0
    <3>1. CASE unloads' = [unloads EXCEPT ![w] = @ + 1] /\ m.kind = "release" /\ UNCHANGED releases
      BY <2>4, <3>1
    <3>2. CASE UNCHANGED <<unloads, releases>>
      BY <3>2
    <3>3. QED
      BY <1>4, <3>1, <3>2 DEF DaemonReceives
  <2>6. QED
    BY <1>4, <2>1, <2>3, <2>5 DEF DaemonReceives, callVars
<1>5. ASSUME NEW s \in Sessions, NEW w \in Workers, LoadTask(s, w) PROVE TypeOK'
  <2>1. load' \in [Sessions -> [Workers -> TaskStates]]
    <3>1. PICK l \in TaskStates : load' = [load EXCEPT ![s][w] = l]
      BY <1>5 DEF LoadTask, Load, Store, Answer, TaskStates
    <3>2. QED
      BY <3>1
  <2>2. CASE Load(s, w)
    <3>1. held' \in [Workers -> SUBSET Sessions]
      <4>1. held' = [held EXCEPT ![w] = @ \cup {s}] \/ UNCHANGED held
        BY <2>2 DEF Load
      <4>2. held \in [Workers -> SUBSET Sessions]
        OBVIOUS
      <4> HIDE DEF TypeOK
      <4>3. held[w] \cup {s} \in SUBSET Sessions
        BY <4>2
      <4>4. QED
        BY <4>1, <4>2, <4>3
    <3>2. QED
      BY <2>1, <2>2, <3>1 DEF Load, callVars, networkVars
  <2>3. CASE Store(s, w)
    BY <2>1, <2>3 DEF Store, callVars, networkVars
  <2>4. CASE Answer(s, w)
    <3>1. inbox' \in Seq(ToInitiator)
      <4>1. /\ Append(inbox, Ack("ready", s, w)) \in Seq(ToInitiator)
            /\ Append(inbox, Ack("refused", s, w)) \in Seq(ToInitiator)
        BY MessageTypes, AppendOne DEF Ready
      <4>2. QED
        BY <2>4, <4>1 DEF Answer
    <3>2. QED
      BY <2>1, <2>4, <3>1 DEF Answer, callVars
  <2>5. QED
    BY <1>5, <2>2, <2>3, <2>4 DEF LoadTask
<1>6. ASSUME NEW w \in Workers, UnloadTakes(w) PROVE TypeOK'
  <2>1. unloads' \in [Workers -> Nat] /\ \A v \in Workers : unloads'[v] > 0 => unloads[v] > 0
    BY <1>6 DEF UnloadTakes
  <2>2. QED
    BY <1>6, <2>1 DEF UnloadTakes, callVars, networkVars
<1>7. ASSUME NEW w \in Workers, UnloadEnds(w) PROVE TypeOK'
  BY <1>7 DEF UnloadEnds, callVars, networkVars
<1>8. ASSUME NEW w \in Workers, ReplicaReleases(w) PROVE TypeOK'
  <2>1. wire' \in [Workers -> Seq(ToWorker)]
    <3>1. Append(wire[w], ReleaseMsg) \in Seq(ToWorker)
      BY MessageTypes, AppendOne
    <3>2. QED
      BY <1>8, <3>1 DEF ReplicaReleases, ReleaseMsg
  <2>2. /\ releases' \in [Workers -> Nat]
        /\ \A v \in Workers : releases[v] > 0 => releases'[v] > 0
    BY <1>8, LayerSetupAssumption DEF ReplicaReleases
  <2>3. QED
    BY <1>8, <2>1, <2>2 DEF ReplicaReleases, callVars, workerVars
<1>9. ASSUME NEW w \in Workers, LinkBreaks(w) PROVE TypeOK'
  BY <1>9 DEF LinkBreaks, callVars, workerVars
<1>10. CASE UNCHANGED vars
  BY <1>10 DEF vars, callVars, networkVars, workerVars
<1>11. QED
  BY <1>1, <1>2, <1>3, <1>4, <1>5, <1>6, <1>7, <1>8, <1>9, <1>10 DEF Next, UnloadTask

-----------------------------------------------------------------------------
(* Messages *)

LEMMA DistinctMessages ==
  /\ \A s, q : Assign(s) = Assign(q) => s = q
  /\ \A s : Assign(s) # ReleaseMsg
  /\ \A s, q, w, v : Ready(s, w) = Ready(q, v) => s = q /\ w = v
  /\ \A s, q, w, v : Ready(s, w) # Ack("refused", q, v)
  BY DEF Assign, ReleaseMsg, Ready, Msg, Ack

\* What a daemon finds in a message.
LEMMA Received ==
  ASSUME TypeOK, NEW w \in Workers, wire[w] # << >>, NEW s \in Sessions
  PROVE  LET m == Head(wire[w]) IN
         /\ m.kind = "assign" => m = Assign(m.id) /\ m.id \in Sessions
         /\ m.kind = "release" => m = ReleaseMsg
         /\ Within(m, wire[w])
<1>1. Head(wire[w]) \in ToWorker /\ Within(Head(wire[w]), wire[w])
  BY TakeHead DEF TypeOK
<1>2. QED
  BY <1>1 DEF ToWorker, Assign, ReleaseMsg, Msg

LEMMA AssignmentsStep == TypeOK /\ Assignments /\ [Next]_vars => Assignments'
<1> SUFFICES ASSUME TypeOK, Assignments, [Next]_vars,
                    NEW q \in Sessions, NEW v \in Workers
             PROVE  /\ Once(Assign(q), wire'[v])
                    /\ Within(Assign(q), wire'[v]) => Sent(q, v)' /\ load'[q][v] = "none"
                    /\ load'[q][v] # "none" => Sent(q, v)'
  BY DEF Assignments
<1>0. /\ Once(Assign(q), wire[v])
      /\ Within(Assign(q), wire[v]) => Sent(q, v) /\ load[q][v] = "none"
      /\ load[q][v] # "none" => Sent(q, v)
  BY DEF Assignments
<1> DEFINE Goal == /\ Once(Assign(q), wire'[v])
                   /\ Within(Assign(q), wire'[v]) => Sent(q, v)' /\ load'[q][v] = "none"
                   /\ load'[q][v] # "none" => Sent(q, v)'
<1>1. ASSUME NEW s \in Sessions, SendAssign(s) PROVE Goal
  <2>0. /\ sent[s] \in Nat /\ sent[s] + 1 \in 1..Len(Plan[s])
        /\ sent \in [Sessions -> Nat] /\ wire \in [Workers -> Seq(ToWorker)]
        /\ UNCHANGED load
    <3>1. sent \in [Sessions -> Nat] /\ wire \in [Workers -> Seq(ToWorker)]
      BY DEF TypeOK
    <3>2. sent[s] < Len(Plan[s]) /\ UNCHANGED load
      BY <1>1 DEF SendAssign, workerVars
    <3>3. sent[s] \in Nat /\ sent[s] + 1 \in 1..Len(Plan[s])
      BY <3>1, <3>2, PlanTypes
    <3>4. QED
      BY <3>1, <3>2, <3>3
  <2>1. PICK w \in Workers : w = Plan[s][sent[s] + 1]
    BY <2>0, PlanTypes
  <2>2. ~Sent(s, w)
    <3>1. ASSUME NEW k \in 1..sent[s], Plan[s][k] = w PROVE FALSE
      <4>1. k \in 1..Len(Plan[s]) /\ k # sent[s] + 1
        <5>1. Len(Plan[s]) \in Nat
          BY PlanTypes
        <5>2. QED
          BY <2>0, <2>1, <5>1
      <4>2. QED
        BY <2>0, <2>1, <3>1, <4>1, PlanTypes
    <3>2. QED
      BY <3>1 DEF Sent
  <2>3. CASE UNCHANGED <<sent, wire>>
    BY <1>0, <2>0, <2>1, <2>3 DEF Sent
  <2>4. CASE sent' = [sent EXCEPT ![s] = @ + 1]
    <3>1. Sent(q, v) => Sent(q, v)'
      <4>1. sent'[q] \in Nat /\ sent[q] \in Nat /\ sent[q] <= sent'[q]
        BY <2>0, <2>1, <2>4
      <4>2. 1..sent[q] \subseteq 1..sent'[q]
        BY <4>1
      <4>3. QED
        BY <4>2 DEF Sent
    <3>2. Sent(s, w)'
      <4>1. sent'[s] = sent[s] + 1
        BY <2>0, <2>1, <2>4
      <4>2. sent[s] + 1 \in 1..sent'[s]
        BY <2>0, <2>1, <4>1
      <4>3. QED
        BY <2>1, <4>2 DEF Sent
    <3>3. CASE UNCHANGED wire
      BY <1>0, <2>0, <2>1, <3>1, <3>3
    <3>4. CASE wire' = [wire EXCEPT ![w] = Append(@, Assign(s))]
      <4>1. CASE v # w
        <5>1. wire'[v] = wire[v]
          BY <2>0, <2>1, <3>4, <4>1
        <5>2. QED
          BY <1>0, <2>0, <2>1, <3>1, <5>1
      <4>2. CASE v = w
        <5>1. wire'[v] = Append(wire[v], Assign(s)) /\ wire[v] \in Seq(ToWorker) /\ Assign(s) \in ToWorker
          BY <2>0, <2>1, <3>4, <4>2, MessageTypes
        <5>2. /\ Within(Assign(q), wire'[v]) <=> Within(Assign(q), wire[v]) \/ Assign(q) = Assign(s)
              /\ Once(Assign(q), wire[v]) /\ (Assign(q) = Assign(s) => ~Within(Assign(q), wire[v]))
                   => Once(Assign(q), wire'[v])
          BY <5>1, AppendOne
        <5>3. CASE q = s
          <6>1. ~Within(Assign(q), wire[v]) /\ load[q][v] = "none"
            BY <1>0, <2>2, <4>2, <5>3
          <6>2. QED
            BY <1>0, <2>0, <2>1, <3>2, <4>2, <5>2, <5>3, <6>1
        <5>4. CASE q # s
          BY <1>0, <2>0, <2>1, <3>1, <5>2, <5>4, DistinctMessages
        <5>5. QED
          BY <5>3, <5>4
      <4>3. QED
        BY <4>1, <4>2
    <3>5. QED
      BY <1>1, <2>1, <3>3, <3>4 DEF SendAssign, Assign
  <2>5. QED
    BY <1>1, <2>3, <2>4 DEF SendAssign
<1>2. ASSUME NEW w \in Workers, DaemonReceives(w) PROVE Goal
  <2> DEFINE m == Head(wire[w])
  <2>1. /\ wire \in [Workers -> Seq(ToWorker)] /\ wire[w] # << >>
        /\ wire' = [wire EXCEPT ![w] = Tail(@)] /\ UNCHANGED sent
        /\ load \in [Sessions -> [Workers -> TaskStates]]
    BY <1>2 DEF DaemonReceives, TypeOK, callVars
  <2>2. /\ m.kind = "assign" => m = Assign(m.id) /\ m.id \in Sessions
        /\ Within(m, wire[w])
    BY <2>1, Received
  <2>3. Sent(q, v)' <=> Sent(q, v)
    BY <2>1 DEF Sent
  <2>4. load'[q][v] = load[q][v] \/ (v = w /\ m = Assign(q))
    <3>1. UNCHANGED load \/ (m.kind = "assign" /\ load' = [load EXCEPT ![m.id][w] = "loading"])
      BY <1>2 DEF DaemonReceives
    <3>2. QED
      <4>1. CASE UNCHANGED load
        BY <4>1
      <4>2. CASE m.kind = "assign" /\ load' = [load EXCEPT ![m.id][w] = "loading"]
        BY <2>1, <2>2, <4>2
      <4>3. QED
        BY <3>1, <4>1, <4>2
  <2>5. CASE v # w
    BY <1>0, <2>1, <2>3, <2>4, <2>5
  <2>6. CASE v = w
    <3>1. /\ Within(Assign(q), wire'[v]) => Within(Assign(q), wire[v])
          /\ Once(Assign(q), wire[v]) =>
               Once(Assign(q), wire'[v]) /\ (Assign(q) = m => ~Within(Assign(q), wire'[v]))
      BY <2>1, <2>6, TakeHead
    <3>2. QED
      BY <1>0, <2>2, <2>3, <2>4, <2>6, <3>1
  <2>7. QED
    BY <2>5, <2>6
<1>3. ASSUME NEW s \in Sessions, NEW w \in Workers, LoadTask(s, w) PROVE Goal
  <2>1. UNCHANGED <<sent, wire>>
    BY <1>3 DEF LoadTask, Load, Store, Answer, callVars, networkVars
  <2>2. /\ load[s][w] # "none"
        /\ \E l \in TaskStates \ {"none"} : load' = [load EXCEPT ![s][w] = l]
    BY <1>3 DEF LoadTask, Load, Store, Answer, TaskStates
  <2>3. load[q][v] # "none" <=> load'[q][v] # "none"
    <3>1. PICK l \in TaskStates \ {"none"} : load' = [load EXCEPT ![s][w] = l]
      BY <2>2
    <3>2. load \in [Sessions -> [Workers -> TaskStates]]
      BY DEF TypeOK
    <3>3. CASE q = s /\ v = w
      BY <2>2, <3>1, <3>2, <3>3
    <3>4. CASE q # s \/ v # w
      BY <3>1, <3>2, <3>4
    <3>5. QED
      BY <3>3, <3>4
  <2>4. QED
    BY <1>0, <2>1, <2>3 DEF Sent
<1>4. ASSUME NEW w \in Workers, ReplicaReleases(w) PROVE Goal
  <2>1. /\ UNCHANGED <<sent, load>> /\ wire' = [wire EXCEPT ![w] = Append(@, ReleaseMsg)]
        /\ wire \in [Workers -> Seq(ToWorker)]
    BY <1>4 DEF ReplicaReleases, ReleaseMsg, callVars, workerVars, TypeOK
  <2>2. CASE v # w
    BY <1>0, <2>1, <2>2 DEF Sent
  <2>3. CASE v = w
    <3>1. /\ Within(Assign(q), wire'[v]) <=> Within(Assign(q), wire[v]) \/ Assign(q) = ReleaseMsg
          /\ Once(Assign(q), wire[v]) /\ (Assign(q) = ReleaseMsg => ~Within(Assign(q), wire[v]))
               => Once(Assign(q), wire'[v])
      BY <2>1, <2>3, AppendOne, MessageTypes
    <3>2. QED
      BY <1>0, <2>1, <3>1, DistinctMessages DEF Sent
  <2>4. QED
    BY <2>2, <2>3
<1>5. CASE UNCHANGED <<sent, wire, load>>
  BY <1>0, <1>5 DEF Sent
<1>6. QED
  BY <1>1, <1>2, <1>3, <1>4, <1>5
    DEF Next, SetupStarts, SetupReads, UnloadTask, UnloadTakes, UnloadEnds, LinkBreaks,
        vars, callVars, networkVars, workerVars

LEMMA ReleasesStep == TypeOK /\ Releases /\ [Next]_vars => Releases'
<1> SUFFICES ASSUME TypeOK, Releases, [Next]_vars, NEW v \in Workers,
                    Within(ReleaseMsg, wire'[v])
             PROVE  releases'[v] > 0
  BY DEF Releases
<1>0. Within(ReleaseMsg, wire[v]) => releases[v] > 0
  BY DEF Releases
<1>1. ASSUME NEW s \in Sessions, SendAssign(s) PROVE releases'[v] > 0
  <2> DEFINE w == Plan[s][sent[s] + 1]
  <2>1. /\ UNCHANGED wire \/ wire' = [wire EXCEPT ![w] = Append(@, Assign(s))]
        /\ UNCHANGED releases /\ wire \in [Workers -> Seq(ToWorker)]
    BY <1>1 DEF SendAssign, Assign, TypeOK
  <2>2. Assign(s) \in ToWorker /\ Assign(s) # ReleaseMsg
    BY MessageTypes, DistinctMessages
  <2>3. wire'[v] = wire[v] \/ wire'[v] = Append(wire[v], Assign(s))
    BY <2>1
  <2>4. Within(ReleaseMsg, wire[v])
    <3>1. wire[v] \in Seq(ToWorker)
      BY <2>1
    <3>2. Within(ReleaseMsg, Append(wire[v], Assign(s))) => Within(ReleaseMsg, wire[v])
      BY <2>2, <3>1, AppendOne
    <3>3. QED
      BY <2>3, <3>2
  <2>5. QED
    BY <1>0, <2>1, <2>4
<1>2. ASSUME NEW w \in Workers, DaemonReceives(w) PROVE releases'[v] > 0
  <2>1. /\ wire' = [wire EXCEPT ![w] = Tail(@)] /\ wire[w] # << >>
        /\ UNCHANGED releases /\ wire \in [Workers -> Seq(ToWorker)]
    BY <1>2 DEF DaemonReceives, TypeOK
  <2>2. wire'[v] = wire[v] \/ (v = w /\ wire'[v] = Tail(wire[v]))
    BY <2>1
  <2>3. Within(ReleaseMsg, wire[v])
    BY <2>1, <2>2, TakeHead
  <2>4. QED
    BY <1>0, <2>1, <2>3
<1>3. ASSUME NEW w \in Workers, ReplicaReleases(w) PROVE releases'[v] > 0
  <2>1. /\ wire' = [wire EXCEPT ![w] = Append(@, ReleaseMsg)]
        /\ releases' = [releases EXCEPT ![w] = @ + 1]
        /\ releases \in [Workers -> Nat]
    BY <1>3 DEF ReplicaReleases, ReleaseMsg, TypeOK
  <2>2. CASE v = w
    BY <2>1, <2>2
  <2>3. CASE v # w
    <3>1. wire'[v] = wire[v] /\ releases'[v] = releases[v]
      BY <2>1, <2>3 DEF TypeOK
    <3>2. QED
      BY <1>0, <3>1
  <2>4. QED
    BY <2>2, <2>3
<1>4. CASE UNCHANGED <<wire, releases>>
  BY <1>0, <1>4
<1>5. QED
  BY <1>1, <1>2, <1>3, <1>4
    DEF Next, SetupStarts, SetupReads, LoadTask, Load, Store, Answer, UnloadTask, UnloadTakes,
        UnloadEnds, LinkBreaks, vars, callVars, networkVars, workerVars

\* The states a task goes through.
TaskMoves ==
  {<<"none", "loading">>, <<"loading", "loaded">>, <<"loading", "refused">>,
   <<"loaded", "stored">>, <<"stored", "acked">>, <<"refused", "nacked">>}

LEMMA LoadSteps ==
  ASSUME TypeOK, Assignments, [Next]_vars, NEW q \in Sessions, NEW v \in Workers
  PROVE  load'[q][v] = load[q][v] \/ <<load[q][v], load'[q][v]>> \in TaskMoves
<1>0. load \in [Sessions -> [Workers -> TaskStates]]
  BY DEF TypeOK
<1>1. ASSUME NEW w \in Workers, DaemonReceives(w)
      PROVE  load'[q][v] = load[q][v] \/ <<load[q][v], load'[q][v]>> \in TaskMoves
  <2> DEFINE m == Head(wire[w])
  <2>1. /\ m.kind = "assign" => m = Assign(m.id) /\ m.id \in Sessions
        /\ Within(m, wire[w])
    BY <1>1, Received DEF DaemonReceives
  <2>2. CASE UNCHANGED load
    BY <2>2
  <2>3. CASE m.kind = "assign" /\ load' = [load EXCEPT ![m.id][w] = "loading"]
    <3>1. load[m.id][w] = "none"
      BY <2>1, <2>3 DEF Assignments
    <3>2. CASE q = m.id /\ v = w
      BY <1>0, <2>3, <3>1, <3>2 DEF TaskMoves
    <3>3. CASE q # m.id \/ v # w
      BY <1>0, <2>1, <2>3, <3>3
    <3>4. QED
      BY <3>2, <3>3
  <2>4. QED
    BY <1>1, <2>2, <2>3 DEF DaemonReceives
<1>2. ASSUME NEW s \in Sessions, NEW w \in Workers, LoadTask(s, w)
      PROVE  load'[q][v] = load[q][v] \/ <<load[q][v], load'[q][v]>> \in TaskMoves
  <2>1. PICK l \in TaskStates : load' = [load EXCEPT ![s][w] = l] /\ <<load[s][w], l>> \in TaskMoves
    BY <1>2 DEF LoadTask, Load, Store, Answer, TaskStates, TaskMoves
  <2>2. CASE q = s /\ v = w
    BY <1>0, <2>1, <2>2
  <2>3. CASE q # s \/ v # w
    BY <1>0, <2>1, <2>3
  <2>4. QED
    BY <2>2, <2>3
<1>3. CASE UNCHANGED load
  BY <1>3
<1>4. QED
  BY <1>1, <1>2, <1>3
    DEF Next, SetupStarts, SendAssign, SetupReads, UnloadTask, UnloadTakes, UnloadEnds,
        ReplicaReleases, LinkBreaks, vars, callVars, networkVars, workerVars

LEMMA StoredStays ==
  ASSUME TypeOK, Assignments, [Next]_vars, NEW q \in Sessions, NEW v \in Workers
  PROVE  /\ load[q][v] = "acked" => load'[q][v] = "acked"
         /\ Stored(q, v) => Stored(q, v)'
         /\ Overwritten(q, v) => Overwritten(q, v)'
<1>1. ASSUME NEW s \in Sessions
      PROVE  /\ load[s][v] = "acked" => load'[s][v] = "acked"
             /\ Stored(s, v) => Stored(s, v)'
  BY LoadSteps DEF TaskMoves, Stored
<1>2. QED
  BY <1>1 DEF Overwritten

\* What a step does to the inbox.
LEMMA InboxSteps ==
  ASSUME TypeOK, [Next]_vars
  PROVE  \/ UNCHANGED inbox
         \/ inbox # << >> /\ inbox' = Tail(inbox)
         \/ \E s \in Sessions, w \in Workers :
              \/ /\ inbox' = Append(inbox, Ready(s, w))
                 /\ load[s][w] = "stored" /\ load'[s][w] = "acked"
              \/ inbox' = Append(inbox, Ack("refused", s, w))
<1> DEFINE Changed == \/ UNCHANGED inbox
                      \/ inbox # << >> /\ inbox' = Tail(inbox)
                      \/ \E s \in Sessions, w \in Workers :
                           \/ /\ inbox' = Append(inbox, Ready(s, w))
                              /\ load[s][w] = "stored" /\ load'[s][w] = "acked"
                           \/ inbox' = Append(inbox, Ack("refused", s, w))
<1>1. ASSUME NEW s \in Sessions, NEW w \in Workers, Answer(s, w) PROVE Changed
  <2>1. load \in [Sessions -> [Workers -> TaskStates]]
    BY DEF TypeOK
  <2>2. CASE load[s][w] = "stored" /\ load' = [load EXCEPT ![s][w] = "acked"]
             /\ (UNCHANGED inbox \/ inbox' = Append(inbox, Ready(s, w)))
    <3>1. load'[s][w] = "acked"
      BY <2>1, <2>2
    <3>2. QED
      BY <2>2, <3>1
  <2>3. CASE UNCHANGED inbox \/ inbox' = Append(inbox, Ack("refused", s, w))
    BY <2>3
  <2>4. QED
    BY <1>1, <2>2, <2>3 DEF Answer, Ready
<1>2. ASSUME NEW s \in Sessions, SetupReads(s) PROVE Changed
  BY <1>2 DEF SetupReads
<1>3. CASE UNCHANGED inbox
  BY <1>3
<1>4. QED
  BY <1>1, <1>2, <1>3
    DEF Next, SetupStarts, SendAssign, LoadTask, Load, Store, DaemonReceives, UnloadTask,
        UnloadTakes, UnloadEnds, ReplicaReleases, LinkBreaks,
        vars, callVars, networkVars, workerVars

LEMMA AnswersStep == TypeOK /\ Assignments /\ Answers /\ [Next]_vars => Answers'
<1> SUFFICES ASSUME TypeOK, Assignments, Answers, [Next]_vars,
                    NEW q \in Sessions, NEW v \in Workers
             PROVE  /\ Once(Ready(q, v), inbox')
                    /\ Within(Ready(q, v), inbox') => load'[q][v] = "acked"
  BY DEF Answers
<1>1. /\ Once(Ready(q, v), inbox)
      /\ Within(Ready(q, v), inbox) => load[q][v] = "acked"
      /\ load[q][v] = "acked" => load'[q][v] = "acked"
      /\ inbox \in Seq(ToInitiator)
  BY StoredStays DEF Answers, TypeOK
<1>2. CASE UNCHANGED inbox
  BY <1>1, <1>2
<1>3. CASE inbox # << >> /\ inbox' = Tail(inbox)
  BY <1>1, <1>3, TakeHead
<1>4. ASSUME NEW s \in Sessions, NEW w \in Workers,
             inbox' = Append(inbox, Ready(s, w)), load[s][w] = "stored", load'[s][w] = "acked"
      PROVE  /\ Once(Ready(q, v), inbox')
             /\ Within(Ready(q, v), inbox') => load'[q][v] = "acked"
  <2>1. /\ Within(Ready(q, v), inbox') <=> Within(Ready(q, v), inbox) \/ Ready(q, v) = Ready(s, w)
        /\ Once(Ready(q, v), inbox) /\ (Ready(q, v) = Ready(s, w) => ~Within(Ready(q, v), inbox))
             => Once(Ready(q, v), inbox')
    BY <1>1, <1>4, AppendOne, MessageTypes
  <2>2. Ready(q, v) = Ready(s, w) => q = s /\ v = w
    BY DistinctMessages
  <2>3. QED
    BY <1>1, <1>4, <2>1, <2>2
<1>5. ASSUME NEW s \in Sessions, NEW w \in Workers, inbox' = Append(inbox, Ack("refused", s, w))
      PROVE  /\ Once(Ready(q, v), inbox')
             /\ Within(Ready(q, v), inbox') => load'[q][v] = "acked"
  <2>1. /\ Within(Ready(q, v), inbox')
             <=> Within(Ready(q, v), inbox) \/ Ready(q, v) = Ack("refused", s, w)
        /\ Once(Ready(q, v), inbox) /\ (Ready(q, v) = Ack("refused", s, w) => ~Within(Ready(q, v), inbox))
             => Once(Ready(q, v), inbox')
    BY <1>1, <1>5, AppendOne, MessageTypes
  <2>2. QED
    BY <1>1, <2>1, DistinctMessages
<1>6. QED
  BY <1>2, <1>3, <1>4, <1>5, InboxSteps

\* A set of counted positions stays one while its session counts nothing.
LEMMA CountsStay ==
  ASSUME TypeOK, Assignments, Answers, [Next]_vars, NEW q \in Sessions,
         NEW C \in SUBSET (1..Len(Plan[q])), Counts(q, C), acks'[q] = acks[q]
  PROVE  Counts(q, C)'
<1> SUFFICES ASSUME NEW k \in C
             PROVE  load'[q][Plan[q][k]] = "acked" /\ ~Within(Ready(q, Plan[q][k]), inbox')
  BY DEF Counts
<1>1. PICK v \in Workers : v = Plan[q][k]
  BY PlanTypes
<1>2. /\ load[q][v] = "acked" /\ ~Within(Ready(q, v), inbox)
      /\ load'[q][v] = "acked" /\ inbox \in Seq(ToInitiator)
  BY <1>1, StoredStays DEF Counts, TypeOK
<1>3. CASE UNCHANGED inbox
  BY <1>1, <1>2, <1>3
<1>4. CASE inbox # << >> /\ inbox' = Tail(inbox)
  BY <1>1, <1>2, <1>4, TakeHead
<1>5. ASSUME NEW s \in Sessions, NEW w \in Workers,
             inbox' = Append(inbox, Ready(s, w)), load[s][w] = "stored"
      PROVE  ~Within(Ready(q, v), inbox')
  <2>1. Ready(q, v) # Ready(s, w)
    BY <1>2, <1>5, DistinctMessages
  <2>2. QED
    BY <1>2, <1>5, <2>1, AppendOne, MessageTypes
<1>6. ASSUME NEW s \in Sessions, NEW w \in Workers, inbox' = Append(inbox, Ack("refused", s, w))
      PROVE  ~Within(Ready(q, v), inbox')
  <2>1. Ready(q, v) # Ack("refused", s, w)
    BY DistinctMessages
  <2>2. QED
    BY <1>2, <1>6, <2>1, AppendOne, MessageTypes
<1>7. QED
  BY <1>1, <1>2, <1>3, <1>4, <1>5, <1>6, InboxSteps

\* Counting an acknowledgement adds the position of its worker.
LEMMA CountsGrow ==
  ASSUME TypeOK, Assignments, Answers, [Next]_vars, NEW q \in Sessions,
         NEW C \in SUBSET (1..Len(Plan[q])), Counts(q, C),
         SetupReads(q), Mine(Head(inbox), q), Head(inbox).kind = "ready"
  PROVE  \E D \in SUBSET (1..Len(Plan[q])) : Counts(q, D)'
<1> DEFINE m == Head(inbox)
<1>1. inbox \in Seq(ToInitiator) /\ inbox # << >> /\ inbox' = Tail(inbox)
  BY DEF TypeOK, SetupReads
<1>2. m \in ToInitiator /\ Within(m, inbox)
  BY <1>1, TakeHead
<1>3. PICK v \in Workers : m = Ready(q, v)
  BY <1>2 DEF ToInitiator, Ready, Ack, Mine
<1>4. load[q][v] = "acked" /\ Once(Ready(q, v), inbox) /\ Sent(q, v)
  BY <1>2, <1>3 DEF Answers, Assignments
<1>5. PICK k \in 1..Len(Plan[q]) : Plan[q][k] = v
  <2>1. sent[q] \in Nat /\ sent[q] <= Len(Plan[q]) /\ Len(Plan[q]) \in Nat
    BY PlanTypes DEF TypeOK
  <2>2. QED
    BY <1>4, <2>1 DEF Sent
<1>6. k \notin C
  BY <1>2, <1>3, <1>5 DEF Counts
<1>7. acks'[q] = acks[q] + 1
  BY <1>3 DEF SetupReads, TypeOK, Ready, Ack, Mine
<1>8. Cardinality(C \cup {k}) = acks[q] + 1
  <2>1. Len(Plan[q]) \in Nat
    BY PlanTypes
  <2>2. IsFiniteSet(C)
    <3>1. IsFiniteSet(1..Len(Plan[q]))
      BY <2>1, FS_Interval
    <3>2. QED
      BY <3>1, FS_Subset
  <2>3. QED
    BY <1>6, <2>2, FS_AddElement DEF Counts
<1>9. ASSUME NEW j \in C \cup {k}
      PROVE  load'[q][Plan[q][j]] = "acked" /\ ~Within(Ready(q, Plan[q][j]), inbox')
  <2>1. PICK u \in Workers : u = Plan[q][j]
    BY PlanTypes
  <2>2. load[q][u] = "acked"
    BY <1>4, <1>5, <2>1 DEF Counts
  <2>3. load'[q][u] = "acked"
    BY <2>2, StoredStays
  <2>4. CASE j \in C
    <3>1. ~Within(Ready(q, u), inbox)
      BY <2>1, <2>4 DEF Counts
    <3>2. QED
      BY <1>1, <2>1, <2>3, <3>1, TakeHead
  <2>5. CASE j = k
    <3>1. ~Within(Ready(q, v), Tail(inbox))
      BY <1>1, <1>3, <1>4, TakeHead
    <3>2. QED
      BY <1>1, <1>5, <2>1, <2>3, <2>5, <3>1
  <2>6. QED
    BY <2>4, <2>5
<1>10. Counts(q, C \cup {k})'
  BY <1>7, <1>8, <1>9 DEF Counts
<1>11. QED
  BY <1>5, <1>10

LEMMA CountedStep == TypeOK /\ Assignments /\ Answers /\ Counted /\ [Next]_vars => Counted'
<1> SUFFICES ASSUME TypeOK, Assignments, Answers, Counted, [Next]_vars, NEW q \in Sessions
             PROVE  \E D \in SUBSET (1..Len(Plan[q])) : Counts(q, D)'
  BY DEF Counted
<1>1. PICK C \in SUBSET (1..Len(Plan[q])) : Counts(q, C)
  BY DEF Counted
<1>2. CASE acks'[q] = acks[q]
  BY <1>1, <1>2, CountsStay
<1>3. CASE SetupReads(q) /\ Mine(Head(inbox), q) /\ Head(inbox).kind = "ready"
  BY <1>1, <1>3, CountsGrow
<1>4. acks'[q] = acks[q] \/ (SetupReads(q) /\ Mine(Head(inbox), q) /\ Head(inbox).kind = "ready")
  <2>1. ASSUME NEW s \in Sessions, SetupReads(s)
        PROVE  acks'[q] = acks[q] \/ (SetupReads(q) /\ Mine(Head(inbox), q) /\ Head(inbox).kind = "ready")
    <3>1. CASE UNCHANGED acks
      BY <3>1
    <3>2. CASE acks' = [acks EXCEPT ![s] = @ + 1] /\ Mine(Head(inbox), s) /\ Head(inbox).kind = "ready"
      BY <2>1, <3>2 DEF TypeOK
    <3>3. QED
      BY <2>1, <3>1, <3>2 DEF SetupReads
  <2>2. CASE UNCHANGED acks
    BY <2>2
  <2>3. QED
    BY <2>1, <2>2
      DEF Next, SetupStarts, SendAssign, LoadTask, Load, Store, Answer, DaemonReceives, UnloadTask,
          UnloadTakes, UnloadEnds, ReplicaReleases, LinkBreaks,
          vars, callVars, networkVars, workerVars
<1>5. QED
  BY <1>2, <1>3, <1>4

LEMMA AllCountedStep == TypeOK /\ AllCounted /\ [Next]_vars => AllCounted'
<1> SUFFICES ASSUME TypeOK, AllCounted, [Next]_vars, NEW q \in Sessions, setup'[q] = "ready"
             PROVE  acks'[q] = Len(Plan[q])
  BY DEF AllCounted
<1>1. /\ setup[q] = "ready" => acks[q] = Len(Plan[q])
      /\ setup \in [Sessions -> {"new", "active", "ready", "failed"}]
      /\ acks \in [Sessions -> Nat]
  BY DEF AllCounted, TypeOK
<1>2. ASSUME NEW s \in Sessions, SetupReads(s) PROVE acks'[q] = Len(Plan[q])
  <2>1. setup[s] = "active"
    BY <1>2 DEF SetupReads, Active
  <2>2. CASE q = s
    BY <1>1, <1>2, <2>1, <2>2 DEF SetupReads
  <2>3. CASE q # s
    <3>1. setup'[q] = setup[q] /\ acks'[q] = acks[q]
      BY <1>1, <1>2, <2>3 DEF SetupReads
    <3>2. QED
      BY <1>1, <3>1
  <2>4. QED
    BY <2>2, <2>3
<1>3. ASSUME NEW s \in Sessions, SetupStarts(s) \/ SendAssign(s) PROVE acks'[q] = Len(Plan[q])
  <2>1. UNCHANGED acks
    BY <1>3 DEF SetupStarts, SendAssign
  <2>2. setup[q] = "ready"
    BY <1>1, <1>3 DEF SetupStarts, SendAssign
  <2>3. QED
    BY <1>1, <2>1, <2>2
<1>4. CASE UNCHANGED <<setup, acks>>
  BY <1>1, <1>4
<1>5. QED
  BY <1>2, <1>3, <1>4
    DEF Next, LoadTask, Load, Store, Answer, DaemonReceives, UnloadTask, UnloadTakes, UnloadEnds,
        ReplicaReleases, LinkBreaks, vars, callVars, networkVars, workerVars

-----------------------------------------------------------------------------
(* Handlers *)

\* What a step may do to a worker's handler: nothing but move tasks that have no
\* stage to store; or load layers, store a stage, take it, or free it.
QuietMoves == {<<"none", "loading">>, <<"loading", "refused">>, <<"stored", "acked">>, <<"refused", "nacked">>}
SameHandler(v) == stage'[v] = stage[v] /\ held'[v] = held[v] /\ unloading'[v] = unloading[v]
SameTasks(v, S) == \A q \in S : load'[q][v] = load[q][v]
Quiet(v) ==
  /\ SameHandler(v)
  /\ \A q \in Sessions : load'[q][v] = load[q][v] \/ <<load[q][v], load'[q][v]>> \in QuietMoves
Loads(s, v) ==
  /\ load[s][v] = "loading" /\ load'[s][v] = "loaded" /\ SameTasks(v, Sessions \ {s})
  /\ held'[v] = held[v] \cup {s} /\ stage'[v] = stage[v] /\ unloading'[v] = unloading[v]
Stores(s, v) ==
  /\ load[s][v] = "loaded" /\ load'[s][v] = "stored" /\ SameTasks(v, Sessions \ {s})
  /\ unloading[v] = NoSession /\ unloading'[v] = unloading[v]
  /\ stage'[v] = s /\ held'[v] = held[v]
Takes(v) ==
  /\ unloads[v] > 0 /\ SameTasks(v, Sessions)
  /\ unloading[v] = NoSession /\ unloading'[v] = stage[v]
  /\ stage'[v] = NoSession /\ held'[v] = held[v]
Frees(v) ==
  /\ SameTasks(v, Sessions)
  /\ held'[v] = held[v] \ {unloading[v]} /\ unloading'[v] = NoSession
  /\ stage'[v] = stage[v]

HandlerMove(v) ==
  \/ Quiet(v) \/ Takes(v) \/ Frees(v)
  \/ \E s \in Sessions : Loads(s, v) \/ Stores(s, v)

LEMMA HandlerSteps ==
  ASSUME TypeOK, Assignments, [Next]_vars, NEW v \in Workers
  PROVE  HandlerMove(v)
<1>0. /\ load \in [Sessions -> [Workers -> TaskStates]]
      /\ stage \in [Workers -> Sessions \cup {NoSession}]
      /\ unloading \in [Workers -> Sessions \cup {NoSession}]
      /\ held \in [Workers -> SUBSET Sessions]
  BY DEF TypeOK
<1>1. ASSUME UNCHANGED <<stage, held, unloading, load>> PROVE HandlerMove(v)
  BY <1>1 DEF HandlerMove, Quiet, SameHandler
<1>2. ASSUME NEW s \in Sessions, NEW w \in Workers, LoadTask(s, w) PROVE HandlerMove(v)
  <2>1. PICK l \in TaskStates : load' = [load EXCEPT ![s][w] = l]
    BY <1>2 DEF LoadTask, Load, Store, Answer, TaskStates
  <2>2. \A q \in Sessions : q # s \/ v # w => load'[q][v] = load[q][v]
    BY <1>0, <2>1
  <2>3. CASE v # w
    <3>1. SameHandler(v)
      BY <1>0, <1>2, <2>3 DEF LoadTask, Load, Store, Answer, SameHandler
    <3>2. QED
      BY <2>2, <2>3, <3>1 DEF HandlerMove, Quiet
  <2>4. CASE v = w /\ Load(s, v)
    <3>1. UNCHANGED <<stage, unloading>> /\ load[s][v] = "loading"
      BY <2>4 DEF Load
    <3>2. CASE load' = [load EXCEPT ![s][v] = "loaded"] /\ held' = [held EXCEPT ![v] = @ \cup {s}]
      BY <1>0, <2>2, <3>1, <3>2 DEF HandlerMove, Loads, SameTasks
    <3>3. CASE load' = [load EXCEPT ![s][v] = "refused"] /\ UNCHANGED held
      BY <1>0, <2>2, <3>1, <3>3 DEF HandlerMove, Quiet, SameHandler, QuietMoves
    <3>4. QED
      BY <2>4, <3>2, <3>3 DEF Load
  <2>5. CASE v = w /\ Store(s, v)
    <3>1. load'[s][v] = "stored" /\ stage'[v] = s
      BY <1>0, <2>5 DEF Store
    <3>2. QED
      BY <2>2, <2>5, <3>1 DEF Store, HandlerMove, Stores, SameTasks
  <2>6. CASE v = w /\ Answer(s, v)
    <3>1. SameHandler(v)
      BY <2>6 DEF Answer, SameHandler
    <3>2. <<load[s][v], load'[s][v]>> \in QuietMoves
      BY <1>0, <2>6 DEF Answer, QuietMoves
    <3>3. QED
      BY <2>2, <3>1, <3>2 DEF HandlerMove, Quiet
  <2>7. QED
    BY <1>2, <2>3, <2>4, <2>5, <2>6 DEF LoadTask
<1>3. ASSUME NEW w \in Workers, DaemonReceives(w) PROVE HandlerMove(v)
  <2>1. SameHandler(v)
    BY <1>3 DEF DaemonReceives, SameHandler
  <2>2. ASSUME NEW q \in Sessions
        PROVE  load'[q][v] = load[q][v] \/ <<load[q][v], load'[q][v]>> \in QuietMoves
    <3> DEFINE m == Head(wire[w])
    <3>1. (m.kind = "assign" => m = Assign(m.id) /\ m.id \in Sessions) /\ Within(m, wire[w])
      BY <1>3, Received DEF DaemonReceives
    <3>2. CASE UNCHANGED load
      BY <3>2
    <3>3. CASE m.kind = "assign" /\ load' = [load EXCEPT ![m.id][w] = "loading"]
      <4>1. load[m.id][w] = "none"
        BY <3>1, <3>3 DEF Assignments
      <4>2. CASE q = m.id /\ v = w
        BY <1>0, <3>3, <4>1, <4>2 DEF QuietMoves
      <4>3. CASE q # m.id \/ v # w
        BY <1>0, <3>1, <3>3, <4>3
      <4>4. QED
        BY <4>2, <4>3
    <3>4. QED
      BY <1>3, <3>2, <3>3 DEF DaemonReceives
  <2>3. QED
    BY <2>1, <2>2 DEF HandlerMove, Quiet
<1>4. ASSUME NEW w \in Workers, UnloadTakes(w) PROVE HandlerMove(v)
  <2>1. CASE v = w
    <3>1. unloading'[v] = stage[v] /\ stage'[v] = NoSession
      BY <1>0, <1>4, <2>1 DEF UnloadTakes
    <3>2. QED
      BY <1>4, <2>1, <3>1 DEF UnloadTakes, HandlerMove, Takes, SameTasks
  <2>2. CASE v # w
    BY <1>0, <1>4, <2>2 DEF UnloadTakes, HandlerMove, Quiet, SameHandler
  <2>3. QED
    BY <2>1, <2>2
<1>5. ASSUME NEW w \in Workers, UnloadEnds(w) PROVE HandlerMove(v)
  <2>1. CASE v = w
    <3>1. unloading'[v] = NoSession /\ held'[v] = held[v] \ {unloading[v]}
      BY <1>0, <1>5, <2>1 DEF UnloadEnds
    <3>2. QED
      BY <1>5, <2>1, <3>1 DEF UnloadEnds, HandlerMove, Frees, SameTasks
  <2>2. CASE v # w
    BY <1>0, <1>5, <2>2 DEF UnloadEnds, HandlerMove, Quiet, SameHandler
  <2>3. QED
    BY <2>1, <2>2
<1>6. QED
  BY <1>1, <1>2, <1>3, <1>4, <1>5
    DEF Next, SetupStarts, SendAssign, SetupReads, UnloadTask, ReplicaReleases, LinkBreaks,
        vars, callVars, networkVars, workerVars

LEMMA StagesStep == TypeOK /\ Assignments /\ Stages /\ [Next]_vars => Stages'
<1> SUFFICES ASSUME TypeOK, Assignments, Stages, [Next]_vars,
                    NEW q \in Sessions, NEW v \in Workers
             PROVE  /\ load'[q][v] = "loaded" => q \in held'[v]
                    /\ stage'[v] = q => Stored(q, v)' /\ q \in held'[v] /\ unloading'[v] # q
                    /\ unloading'[v] = q => Stored(q, v)'
  BY DEF Stages
<1> DEFINE Goal == /\ load'[q][v] = "loaded" => q \in held'[v]
                   /\ stage'[v] = q => Stored(q, v)' /\ q \in held'[v] /\ unloading'[v] # q
                   /\ unloading'[v] = q => Stored(q, v)'
<1>0. /\ load[q][v] = "loaded" => q \in held[v]
      /\ stage[v] = q => Stored(q, v) /\ q \in held[v] /\ unloading[v] # q
      /\ unloading[v] = q => Stored(q, v)
      /\ Stored(q, v) => Stored(q, v)'
      /\ q # NoSession
  BY StoredStays, LayerSetupAssumption DEF Stages
<1>1. CASE Quiet(v)
  <2>1. load'[q][v] = "loaded" => load[q][v] = "loaded"
    BY <1>1 DEF Quiet, QuietMoves
  <2>2. QED
    BY <1>0, <1>1, <2>1 DEF Quiet, SameHandler
<1>2. CASE Takes(v)
  BY <1>0, <1>2 DEF Takes, SameTasks
<1>3. CASE Frees(v)
  <2>1. load[q][v] = "loaded" => unloading[v] # q
    BY <1>0 DEF Stored
  <2>2. QED
    BY <1>0, <1>3, <2>1 DEF Frees, SameTasks
<1>4. ASSUME NEW s \in Sessions, Loads(s, v) PROVE Goal
  BY <1>0, <1>4 DEF Loads, SameTasks
<1>5. ASSUME NEW s \in Sessions, Stores(s, v) PROVE Goal
  <2>1. CASE q = s
    BY <1>0, <1>5, <2>1 DEF Stores, Stored
  <2>2. CASE q # s
    BY <1>0, <1>5, <2>2 DEF Stores, SameTasks
  <2>3. QED
    BY <2>1, <2>2
<1>6. QED
  BY <1>1, <1>2, <1>3, <1>4, <1>5, HandlerSteps DEF HandlerMove

LEMMA StillThereStep == TypeOK /\ Assignments /\ StillThere /\ [Next]_vars => StillThere'
<1> SUFFICES ASSUME TypeOK, Assignments, StillThere, [Next]_vars,
                    NEW q \in Sessions, NEW v \in Workers, Stored(q, v)'
             PROVE  stage'[v] = q \/ Overwritten(q, v)' \/ releases'[v] > 0
  BY DEF StillThere
<1>0. /\ Stored(q, v) => stage[v] = q \/ Overwritten(q, v) \/ releases[v] > 0
      /\ Overwritten(q, v) => Overwritten(q, v)'
  BY StoredStays DEF StillThere
<1>1. releases[v] > 0 => releases'[v] > 0
  <2>1. ASSUME NEW w \in Workers, ReplicaReleases(w) PROVE releases[v] > 0 => releases'[v] > 0
    BY <2>1 DEF ReplicaReleases, TypeOK
  <2>2. QED
    BY <2>1
      DEF Next, SetupStarts, SendAssign, SetupReads, LoadTask, Load, Store, Answer, DaemonReceives,
          UnloadTask, UnloadTakes, UnloadEnds, LinkBreaks, vars, callVars, networkVars, workerVars
<1>2. CASE Quiet(v)
  BY <1>0, <1>1, <1>2 DEF Quiet, SameHandler, QuietMoves, Stored
<1>3. CASE Takes(v)
  <2>1. releases[v] > 0
    BY <1>3 DEF Takes, TypeOK
  <2>2. QED
    BY <1>1, <2>1
<1>4. CASE Frees(v)
  BY <1>0, <1>1, <1>4 DEF Frees, SameTasks, Stored
<1>5. ASSUME NEW s \in Sessions, Loads(s, v)
      PROVE  stage'[v] = q \/ Overwritten(q, v)' \/ releases'[v] > 0
  BY <1>0, <1>1, <1>5 DEF Loads, SameTasks, Stored
<1>6. ASSUME NEW s \in Sessions, Stores(s, v)
      PROVE  stage'[v] = q \/ Overwritten(q, v)' \/ releases'[v] > 0
  BY <1>6 DEF Stores, Overwritten, Stored
<1>7. QED
  BY <1>2, <1>3, <1>4, <1>5, <1>6, HandlerSteps DEF HandlerMove

LEMMA LostStep ==
  TypeOK /\ Assignments /\ LostOnlyByOverwriting /\ [Next]_vars => LostOnlyByOverwriting'
<1> SUFFICES ASSUME TypeOK, Assignments, LostOnlyByOverwriting, [Next]_vars
             PROVE  LostOnlyByOverwriting'
  OBVIOUS
<1>a. ASSUME NEW v \in Workers PROVE held'[v] \subseteq Sessions
  <2>1. held[v] \subseteq Sessions
    BY DEF TypeOK
  <2>2. \/ held'[v] \subseteq held[v]
        \/ \E s \in Sessions : held'[v] = held[v] \cup {s}
    BY HandlerSteps DEF HandlerMove, Quiet, SameHandler, Takes, Frees, Loads, Stores
  <2>3. QED
    BY <2>1, <2>2
<1> SUFFICES ASSUME NEW v \in Workers, NEW q \in Sessions, q \in held'[v]
             PROVE  stage'[v] = q \/ unloading'[v] = q \/ load'[q][v] = "loaded" \/ Overwritten(q, v)'
  BY <1>a DEF LostOnlyByOverwriting
<1> DEFINE Goal == stage'[v] = q \/ unloading'[v] = q \/ load'[q][v] = "loaded" \/ Overwritten(q, v)'
<1>0. /\ q \in held[v] => stage[v] = q \/ unloading[v] = q \/ load[q][v] = "loaded" \/ Overwritten(q, v)
      /\ Overwritten(q, v) => Overwritten(q, v)'
      /\ q # NoSession
  BY StoredStays, LayerSetupAssumption DEF LostOnlyByOverwriting
<1>1. CASE Quiet(v)
  BY <1>0, <1>1 DEF Quiet, SameHandler, QuietMoves
<1>2. CASE Takes(v)
  BY <1>0, <1>2 DEF Takes, SameTasks
<1>3. CASE Frees(v)
  BY <1>0, <1>3 DEF Frees, SameTasks
<1>4. ASSUME NEW s \in Sessions, Loads(s, v) PROVE Goal
  BY <1>0, <1>4 DEF Loads, SameTasks
<1>5. ASSUME NEW s \in Sessions, Stores(s, v) PROVE Goal
  BY <1>5 DEF Stores, Overwritten, Stored
<1>6. QED
  BY <1>1, <1>2, <1>3, <1>4, <1>5, HandlerSteps DEF HandlerMove

-----------------------------------------------------------------------------
(* Theorems *)

LEMMA InvInit == Init => CallInv /\ HandlerInv
<1> SUFFICES ASSUME Init PROVE CallInv /\ HandlerInv
  OBVIOUS
<1>1. Assignments /\ Releases /\ Answers /\ AllCounted
  BY DEF Init, Assignments, Releases, Answers, AllCounted, Within, Once
<1>2. Counted
  <2>1. ASSUME NEW s \in Sessions PROVE {} \in SUBSET (1..Len(Plan[s])) /\ Counts(s, {})
    BY FS_EmptySet DEF Init, Counts
  <2>2. QED
    BY <2>1 DEF Counted
<1>3. HandlerInv
  BY LayerSetupAssumption
    DEF Init, HandlerInv, Stages, StillThere, LostOnlyByOverwriting, Stored
<1>4. QED
  BY <1>1, <1>2, <1>3 DEF CallInv

Inv == TypeOK /\ CallInv /\ HandlerInv

LEMMA Invariance == Spec => []Inv
<1>1. Init => Inv
  BY TypeInit, InvInit DEF Inv
<1>2. Inv /\ [Next]_vars => Inv'
  BY TypeStep, AssignmentsStep, ReleasesStep, AnswersStep, CountedStep, AllCountedStep,
     StagesStep, StillThereStep, LostStep DEF Inv, CallInv, HandlerInv
<1>3. QED
  BY <1>1, <1>2, PTL DEF Spec

\* Types of the set-up, the daemons and the handlers, for every plan.
THEOREM TypeCorrect == Spec => []TypeOK
<1>1. Inv => TypeOK
  BY DEF Inv
<1>2. QED
  BY <1>1, Invariance, PTL

\* CliPipelineHandler: the stage its state names is loaded and not being unloaded.
THEOREM StageIsHeld == Spec => []StageHeld
<1>1. Inv => StageHeld
  BY DEF Inv, HandlerInv, Stages, StageHeld, TypeOK
<1>2. QED
  BY <1>1, Invariance, PTL

\* setup: as many acknowledgements as the plan has workers are those of all of
\* them, and what a worker acknowledged is still its stage unless another
\* session's layers or a release came.
THEOREM ReadyMeansLoaded == Spec => []ReadyIsLoaded
<1>1. Inv => ReadyIsLoaded
  <2> SUFFICES ASSUME Inv, NEW s \in Sessions, setup[s] = "ready", NEW w \in Peers(s)
               PROVE  load[s][w] = "acked" /\ (stage[w] = s \/ Overwritten(s, w) \/ releases[w] > 0)
    BY DEF ReadyIsLoaded
  <2>1. PICK C \in SUBSET (1..Len(Plan[s])) : Counts(s, C)
    BY DEF Inv, CallInv, Counted
  <2>2. Cardinality(C) = Len(Plan[s]) /\ Len(Plan[s]) \in Nat
    BY <2>1, PlanTypes DEF Inv, CallInv, AllCounted, Counts
  <2>3. C = 1..Len(Plan[s])
    <3>1. IsFiniteSet(1..Len(Plan[s])) /\ Cardinality(1..Len(Plan[s])) = Len(Plan[s])
      <4>1. 1 \in Int /\ Len(Plan[s]) \in Int
        BY <2>2
      <4>2. /\ IsFiniteSet(1..Len(Plan[s]))
            /\ Cardinality(1..Len(Plan[s])) =
                 IF 1 > Len(Plan[s]) THEN 0 ELSE Len(Plan[s]) - 1 + 1
        BY <4>1, FS_Interval
      <4>3. QED
        BY <2>2, <4>2
    <3>2. QED
      BY <2>2, <3>1, FS_Subset
  <2>4. PICK k \in 1..Len(Plan[s]) : w = Plan[s][k]
    BY DEF Peers
  <2>5. load[s][w] = "acked" /\ w \in Workers
    BY <2>1, <2>3, <2>4, PlanTypes DEF Counts
  <2>6. QED
    BY <2>5 DEF Inv, HandlerInv, StillThere, Stored
<1>2. QED
  BY <1>1, Invariance, PTL

\* load_layers and unload_layers lose track of layers only by storing a stage over
\* another.
THEOREM OnlyOverwritingLoses == Spec => []LostOnlyByOverwriting
<1>1. Inv => LostOnlyByOverwriting
  BY DEF Inv, HandlerInv
<1>2. QED
  BY <1>1, Invariance, PTL

-----------------------------------------------------------------------------
(* The registry of models: its types, and what reconciling an index with the *)
(* disk does to an entry.                                                     *)

Mades == {"none", "bare", "known"}
InstallCalls == [at : {"look", "fresh", "asking"}, id : Models, want : Ggufs \cup {AnyFile}]
ModelLoads == [at : {"loading"}, id : Models, file : Here, stage : {"resume", "fresh"}]
TokenizerLoads == [at : {"loading"}, id : Models, file : Here, stage : {"tokenizer"},
                   model : Here, made : Mades, left : Nat]
FileCalls == [at : {"tokenize", "record"}, id : Models, file : Here, made : Mades,
              left : Nat \ {0}]
ScanCalls == [at : {"scanned"}, snap : [Tops -> Here \cup {NoFile}]]
RemoveCalls == [at : {"removing", "removed"}, id : Ids]
BareCalls == [at : {"idle", "searching", "found", "new"}]
RegistryCalls == UNION {InstallCalls, ModelLoads, TokenizerLoads, FileCalls, ScanCalls,
                        RemoveCalls, BareCalls}

Snaps == [Tops -> Here \cup {NoFile}]
Indexes == [Ids \cup Blobs -> Entries]

RegistryTypes ==
  /\ whole \subseteq Here /\ partial \subseteq Here /\ meta \subseteq Here
  /\ blobs \subseteq Blobs
  /\ index \in [Procs -> Indexes] /\ saved \in Indexes
  /\ lock \in [Procs -> Tasks \cup {NoTask}]
  /\ task \in [Tasks -> RegistryCalls]
  /\ calls \in Nat /\ outside \in Nat /\ cancelled \subseteq Tasks
  /\ shell \in [Shells -> {"none", "made", "asked"}]

LEMMA LeastNat ==
  ASSUME NEW T, T \subseteq Nat, T # {}
  PROVE  \E x \in T : \A y \in T : x <= y
<1>1. \E x \in T : \A y \in T : <<y, x>> \notin OpToRel(<, Nat)
  BY NatLessThanWellFounded, WFMin, Zenon
<1>2. PICK x \in T : \A y \in T : <<y, x>> \notin OpToRel(<, Nat)
  BY <1>1
<1>3. \A y \in T : ~(y < x)
  BY <1>2 DEF OpToRel
<1> QED BY <1>3

\* The largest of some files is there: the one that has the fewest above it.
LEMMA LargestFile ==
  ASSUME NEW S, S \subseteq Here, S # {}
  PROVE  \E f \in S : \A g \in S : Weight[g] <= Weight[f]
<1> DEFINE Above(f) == {g \in S : Weight[g] > Weight[f]}
           AboveCount(f) == Cardinality(Above(f))
<1>1. \A f \in S : Weight[f] \in Nat BY RegistryAssumption
<1>2. IsFiniteSet(S) BY FS_Subset, RegistryAssumption
<1>3. ASSUME NEW f \in S PROVE IsFiniteSet(Above(f)) /\ AboveCount(f) \in Nat
  BY <1>2, FS_Subset, FS_CardinalityType
<1>4. PICK n \in {AboveCount(f) : f \in S} : \A y \in {AboveCount(f) : f \in S} : n <= y
  <2> HIDE DEF AboveCount
  <2>1. {AboveCount(f) : f \in S} \subseteq Nat BY <1>3
  <2> QED BY <2>1, LeastNat
<1>5. PICK f \in S : n = AboveCount(f) BY <1>4
<1>6. ASSUME NEW g \in S, Weight[g] > Weight[f] PROVE FALSE
  <2>1. Above(g) \subseteq Above(f) /\ g \in Above(f) /\ g \notin Above(g)
    BY <1>1, <1>6
  <2>2. AboveCount(g) < AboveCount(f)
    <3> HIDE DEF Above
    <3>1. Cardinality(Above(g)) <= Cardinality(Above(f))
          /\ (Cardinality(Above(f)) = Cardinality(Above(g)) => Above(f) = Above(g))
      BY <2>1, <1>3, FS_Subset
    <3> QED BY <3>1, <2>1, <1>3
  <2>3. AboveCount(f) <= AboveCount(g) BY <1>4, <1>5
  <2> HIDE DEF AboveCount, Above
  <2> QED BY <2>2, <2>3, <1>3
<1>7. \A g \in S : Weight[g] <= Weight[f] BY <1>6, <1>1
<1> QED BY <1>7

\* pick_gguf takes one of the files found, if there are any.
LEMMA PickedIsFound ==
  ASSUME NEW found, found \subseteq Here, \A f \in found : f.name \in Ggufs
  PROVE  Picked(found) \in found \cup {NoFile}
<1> DEFINE single == {f \in found : Shard[f.name] = 0}
<1>1. CASE found = {} BY <1>1 DEF Picked
<1>2. CASE found # {} /\ single # {}
  <2>1. \E f \in single : \A g \in single : Weight[g] <= Weight[f] BY <1>2, LargestFile
  <2>2. Picked(found) = CHOOSE f \in single : \A g \in single : Weight[g] <= Weight[f]
    BY <1>2 DEF Picked
  <2> QED BY <2>1, <2>2
<1>3. CASE found # {} /\ single = {}
  <2> DEFINE Shards == {Shard[f.name] : f \in found}
  <2>1. Shards \subseteq Nat /\ Shards # {} BY <1>3, RegistryAssumption
  <2>2. PICK n \in Shards : \A y \in Shards : n <= y
    <3> HIDE DEF Shards
    <3> QED BY <2>1, LeastNat
  <2>3. \E f \in found : \A g \in found : Shard[f.name] <= Shard[g.name] BY <2>2
  <2>4. Picked(found) = CHOOSE f \in found : \A g \in found : Shard[f.name] <= Shard[g.name]
    BY <1>3 DEF Picked
  <2> QED BY <2>3, <2>4
<1> QED BY <1>1, <1>2, <1>3

\* A scan finds files that are there.
LEMMA DiscoveredTypes ==
  ASSUME whole \subseteq Here
  PROVE  Discovered \in Snaps
<1>1. ASSUME NEW id \in Tops
      PROVE  Picked({f \in whole \cap Below(id) : f.name \in Ggufs}) \in Here \cup {NoFile}
  <2> DEFINE found == {f \in whole \cap Below(id) : f.name \in Ggufs}
  <2>1. found \subseteq Here /\ \A f \in found : f.name \in Ggufs OBVIOUS
  <2> HIDE DEF found
  <2>2. Picked(found) \in found \cup {NoFile} BY <2>1, PickedIsFound
  <2>3. Picked(found) \in Here \cup {NoFile} BY <2>1, <2>2
  <2> QED BY <2>3 DEF found
<1> QED BY <1>1 DEF Discovered, Snaps

LEMMA EntryFields ==
  /\ NoEntry \notin Listed /\ NoFile \notin Here
  /\ \A e \in Entries : Installed(e) => e \in Listed /\ e.file \in Here \cup {Misplaced}
                                        /\ e.file # NoFile
BY RegistryAssumption DEF Entries, Listed, Installed

LEMMA AdoptedTypes ==
  ASSUME NEW old \in Entries, NEW id, NEW found \in Here \cup {NoFile}
  PROVE  /\ Adopted(old, id, found) \in Entries
         /\ found # NoFile => Installed(Adopted(old, id, found))
         /\ found # NoFile => Adopted(old, id, found).file \in whole \cup {found}
         /\ found = NoFile => Adopted(old, id, found) = old
<1> DEFINE new == [worth |-> IF old = NoEntry THEN FALSE ELSE old.worth, file |-> found]
<1>1. CASE found = NoFile \/ (Installed(old) /\ old.file \in whole)
  BY <1>1 DEF Adopted
<1>2. CASE ~(found = NoFile \/ (Installed(old) /\ old.file \in whole))
  <2>1. Adopted(old, id, found) = new BY <1>2 DEF Adopted
  <2>2. new \in Listed
    <3>1. (IF old = NoEntry THEN FALSE ELSE old.worth) \in BOOLEAN BY DEF Entries, Listed
    <3> QED BY <3>1 DEF Listed
  <2>3. new.file = found OBVIOUS
  <2> HIDE DEF new
  <2> QED BY <1>2, <2>1, <2>2, <2>3, EntryFields DEF Entries, Installed
<1> QED BY <1>1, <1>2

\* What is left of an entry: hidden, or with a file that is there or was found.
LEMMA HiddenTypes ==
  ASSUME NEW old \in Entries, NEW id, NEW found
  PROVE  /\ Hidden(old, id, found) \in Entries
         /\ found # NoFile => Hidden(old, id, found) = old
         /\ Installed(Hidden(old, id, found)) =>
              Hidden(old, id, found) = old /\ (found # NoFile \/ old.file \in whole)
<1>1. CASE ~Installed(old) \/ found # NoFile \/ old.file \in whole
  BY <1>1 DEF Hidden
<1>2. CASE ~(~Installed(old) \/ found # NoFile \/ old.file \in whole)
  <2>1. old \in Listed BY <1>2, EntryFields
  <2>2. Hidden(old, id, found) = IF old.worth THEN [old EXCEPT !.file = NoFile] ELSE NoEntry
    BY <1>2 DEF Hidden
  <2>3. /\ [old EXCEPT !.file = NoFile] \in Listed
        /\ [old EXCEPT !.file = NoFile].file = NoFile
    BY <2>1 DEF Listed
  <2> QED BY <1>2, <2>2, <2>3, EntryFields DEF Entries, Installed
<1> QED BY <1>1, <1>2

FoundFor(snap, id) == IF id \in Tops THEN snap[id] ELSE NoFile

LEMMA ReconciledIs ==
  ASSUME NEW e \in Indexes, NEW snap \in Snaps, NEW id \in Ids \cup Blobs
  PROVE  /\ FoundFor(snap, id) \in Here \cup {NoFile}
         /\ Reconciled(e, snap)[id] =
              IF id \in Blobs THEN e[id]
              ELSE Hidden(Adopted(e[id], id, FoundFor(snap, id)), id, FoundFor(snap, id))
<1>1. DOMAIN e = Ids \cup Blobs BY DEF Indexes
<1>2. FoundFor(snap, id) \in Here \cup {NoFile} BY DEF Snaps, FoundFor
<1> QED BY <1>1, <1>2 DEF Reconciled, FoundFor

LEMMA ReconciledTypes ==
  ASSUME NEW e \in Indexes, NEW snap \in Snaps
  PROVE  Reconciled(e, snap) \in Indexes
<1>1. ASSUME NEW id \in Ids \cup Blobs PROVE Reconciled(e, snap)[id] \in Entries
  <2>1. e[id] \in Entries BY DEF Indexes
  <2>2. Adopted(e[id], id, FoundFor(snap, id)) \in Entries BY <2>1, ReconciledIs, AdoptedTypes
  <2>3. Hidden(Adopted(e[id], id, FoundFor(snap, id)), id, FoundFor(snap, id)) \in Entries
    BY <2>2, HiddenTypes
  <2> QED BY <2>1, <2>3, ReconciledIs
<1>2. Reconciled(e, snap) = [id \in Ids \cup Blobs |-> Reconciled(e, snap)[id]]
  <2>1. DOMAIN e = Ids \cup Blobs BY DEF Indexes
  <2> QED BY <2>1 DEF Reconciled
<1> QED BY <1>1, <1>2 DEF Indexes

\* reconcile keeps an entry whose file is there.
LEMMA ReconciledKeeps ==
  ASSUME NEW e \in Indexes, NEW snap \in Snaps, NEW id \in Ids,
         Installed(e[id]), e[id].file \in whole
  PROVE  Reconciled(e, snap)[id] = e[id]
<1>1. id \notin Blobs BY RegistryAssumption
<1>2. \A found : Adopted(e[id], id, found) = e[id] BY DEF Adopted
<1>3. \A found : Hidden(e[id], id, found) = e[id] BY DEF Hidden
<1> QED BY <1>1, <1>2, <1>3, ReconciledIs

\* reconcile with a scan of the disk as it is puts an index in line with it.
LEMMA ReconciledInLine ==
  ASSUME NEW e \in Indexes, whole \subseteq Here
  PROVE  InLine(Reconciled(e, Discovered))
<1> DEFINE r == Reconciled(e, Discovered)
           found(id) == FoundFor(Discovered, id)
           kept(id) == Adopted(e[id], id, found(id))
<1>1. Discovered \in Snaps BY DiscoveredTypes
<1>2. ASSUME NEW id \in Ids
      PROVE  /\ r[id] = Hidden(kept(id), id, found(id))
             /\ found(id) \in Here \cup {NoFile} /\ e[id] \in Entries /\ kept(id) \in Entries
  <2>1. id \notin Blobs BY RegistryAssumption
  <2>2. e[id] \in Entries BY DEF Indexes
  <2>3. found(id) \in Here \cup {NoFile} BY <1>1, ReconciledIs
  <2>4. r[id] = Hidden(kept(id), id, found(id)) BY <1>1, <2>1, ReconciledIs
  <2> HIDE DEF found, r
  <2>5. kept(id) \in Entries BY <2>2, <2>3, AdoptedTypes
  <2> HIDE DEF kept
  <2> QED BY <2>2, <2>3, <2>4, <2>5
<1>3. ASSUME NEW id \in Tops, Discovered[id] # NoFile
      PROVE  Installed(r[id]) /\ id \notin Orphaned(r)
  <2>1. id \in Ids BY DEF Ids
  <2>2. found(id) # NoFile BY <1>3 DEF FoundFor
  <2>3. Installed(kept(id))
    <3> HIDE DEF found
    <3> QED BY <1>2, <2>1, <2>2, AdoptedTypes
  <2>4. r[id] = kept(id)
    <3> HIDE DEF found, r, kept
    <3> QED BY <1>2, <2>1, <2>2, HiddenTypes
  <2>5. Installed(r[id])
    <3> HIDE DEF found, r, kept
    <3> QED BY <2>3, <2>4
  <2> HIDE DEF r
  <2> QED BY <2>5 DEF Orphaned
<1>4. ASSUME NEW id \in Ids, Installed(r[id])
      PROVE  Resolved(r, id) = r[id].file
  <2>1. r[id] = kept(id) /\ (found(id) # NoFile \/ kept(id).file \in whole)
    <3> HIDE DEF found, kept
    <3>1. Installed(Hidden(kept(id), id, found(id))) BY <1>2, <1>4
    <3> HIDE DEF r
    <3> QED BY <1>2, <3>1, HiddenTypes
  <2>2. CASE r[id].file \in whole
    <3> HIDE DEF r
    <3> QED BY <1>4, <2>2 DEF Resolved
  <2>3. CASE r[id].file \notin whole
    <3>1. found(id) # NoFile
      <4> HIDE DEF found, kept, r
      <4> QED BY <2>1, <2>3
    <3>2. r[id].file = found(id)
      <4>1. kept(id).file \in whole \cup {found(id)}
        <5> HIDE DEF found
        <5> QED BY <1>2, <3>1, AdoptedTypes
      <4> HIDE DEF found, kept, r
      <4> QED BY <4>1, <2>1, <2>3
    <3>3. id \in Tops /\ Discovered[id] = found(id) BY <3>1 DEF FoundFor
    <3> HIDE DEF found, r
    <3> QED BY <2>3, <3>2, <3>3 DEF Resolved
  <2> QED BY <2>2, <2>3
<1> HIDE DEF r
<1>5. InLine(r) BY <1>3, <1>4 DEF InLine
<1> QED BY <1>5 DEF r

\* What a task does, by where it is.
LEMMA CallFields ==
  ASSUME NEW c \in RegistryCalls
  PROVE  /\ c.at \in {"look", "fresh", "asking"} => c \in InstallCalls
         /\ c.at = "loading" /\ c.stage = "tokenizer" => c \in TokenizerLoads
         /\ c.at = "loading" /\ c.stage # "tokenizer" => c \in ModelLoads
         /\ c.at \in {"tokenize", "record"} => c \in FileCalls
         /\ c.at = "scanned" => c \in ScanCalls
         /\ c.at \in {"removing", "removed"} => c \in RemoveCalls
BY DEF RegistryCalls, InstallCalls, ModelLoads, TokenizerLoads, FileCalls, ScanCalls,
       RemoveCalls, BareCalls

LEMMA CallIs ==
  /\ InstallCalls \subseteq RegistryCalls /\ ModelLoads \subseteq RegistryCalls
  /\ TokenizerLoads \subseteq RegistryCalls /\ FileCalls \subseteq RegistryCalls
  /\ ScanCalls \subseteq RegistryCalls /\ RemoveCalls \subseteq RegistryCalls
  /\ BareCalls \subseteq RegistryCalls /\ Idle \in BareCalls
BY DEF RegistryCalls, BareCalls, Idle

LEMMA BecomesTypes ==
  ASSUME RegistryTypes, NEW t \in Tasks, NEW c \in RegistryCalls, Becomes(t, c)
  PROVE  task' \in [Tasks -> RegistryCalls]
BY DEF RegistryTypes, Becomes

LEMMA SaveIndexTypes ==
  ASSUME RegistryTypes, NEW t \in Tasks, NEW e \in Indexes, SaveIndex(t, e)
  PROVE  index' \in [Procs -> Indexes] /\ saved' \in Indexes
BY RegistryAssumption DEF RegistryTypes, SaveIndex, P

LEMMA EntryChanged ==
  ASSUME NEW e \in Indexes, NEW id, NEW v \in Entries
  PROVE  [e EXCEPT ![id] = v] \in Indexes
BY DEF Indexes

LEMMA IndexOf ==
  ASSUME RegistryTypes, NEW t \in Tasks
  PROVE  /\ P(t) \in Procs /\ index[P(t)] \in Indexes
         /\ task[t] \in RegistryCalls
BY RegistryAssumption DEF RegistryTypes, P

LEMMA EmptyTypes == Empty \in Indexes
BY DEF Empty, Indexes, Entries

\* A call that starts or goes on without the index.
LEMMA StartTypes ==
  ASSUME RegistryTypes, NEW t \in Tasks, NEW c \in RegistryCalls, Begin(t, c)
  PROVE  task' \in [Tasks -> RegistryCalls] /\ calls' \in Nat /\ cancelled' \subseteq Tasks
<1>1. Becomes(t, c) BY DEF Begin
<1>2. calls' \in Nat /\ cancelled' \subseteq Tasks BY DEF Begin, RegistryTypes
<1> QED BY <1>1, <1>2, BecomesTypes

LEMMA InstallTypes ==
  ASSUME RegistryTypes, NEW t \in Tasks, NEW id \in Models, NEW want \in Ggufs \cup {AnyFile},
         Install(t, id, want), shell' \in [Shells -> {"none", "made", "asked"}]
  PROVE  RegistryTypes'
<1> DEFINE c == [at |-> "look", id |-> id, want |-> want]
<1>1. c \in RegistryCalls BY CallIs DEF InstallCalls
<1>2. Begin(t, c) BY DEF Install
<1> HIDE DEF c
<1>3. task' \in [Tasks -> RegistryCalls] /\ calls' \in Nat /\ cancelled' \subseteq Tasks
  BY <1>1, <1>2, StartTypes
<1> QED BY <1>3 DEF Install, RegistryTypes, disk

LEMMA StartLoadTypes ==
  ASSUME RegistryTypes, NEW t \in Tasks, task[t] \in InstallCalls,
         NEW f \in Here, NEW after \in {"resume", "fresh"}, StartLoad(t, f, after)
  PROVE  /\ task' \in [Tasks -> RegistryCalls]
         /\ partial' \subseteq Here /\ meta' \subseteq Here
<1> DEFINE c == [at |-> "loading", id |-> task[t].id, file |-> f, stage |-> after]
<1>1. task[t].id \in Models BY DEF InstallCalls
<1>2. c \in RegistryCalls BY <1>1, CallIs DEF ModelLoads
<1>3. Becomes(t, c) /\ partial' = partial \cup {f} /\ meta' = meta \cup {f}
  BY DEF StartLoad
<1> HIDE DEF c
<1>4. task' \in [Tasks -> RegistryCalls] BY <1>2, <1>3, BecomesTypes
<1> QED BY <1>3, <1>4 DEF RegistryTypes

LEMMA LookTypes ==
  ASSUME RegistryTypes, NEW t \in Tasks, Look(t), UNCHANGED shell
  PROVE  RegistryTypes'
<1>1. task[t] \in InstallCalls BY IndexOf, CallFields DEF Look
<1>2. /\ task' \in [Tasks -> RegistryCalls]
      /\ partial' \subseteq Here /\ meta' \subseteq Here
  <2>1. CASE task[t].want = AnyFile /\ Resumable(task[t].id) # {}
    <3>1. PICK f \in Resumable(task[t].id) : StartLoad(t, f, "resume") BY <2>1 DEF Look
    <3>2. f \in Here BY DEF Resumable, RegistryTypes
    <3> QED BY <1>1, <3>1, <3>2, StartLoadTypes
  <2>2. CASE ~(task[t].want = AnyFile /\ Resumable(task[t].id) # {})
    <3>1. Becomes(t, [task[t] EXCEPT !.at = "fresh"]) /\ UNCHANGED <<partial, meta>>
      BY <2>2 DEF Look
    <3>2. [task[t] EXCEPT !.at = "fresh"] \in RegistryCalls BY <1>1, CallIs DEF InstallCalls
    <3>3. task' \in [Tasks -> RegistryCalls] BY <3>1, <3>2, BecomesTypes
    <3> QED BY <3>1, <3>3 DEF RegistryTypes
  <2> QED BY <2>1, <2>2
<1> QED BY <1>2 DEF Look, RegistryTypes

LEMMA FreshTypes ==
  ASSUME RegistryTypes, NEW t \in Tasks, Fresh(t), UNCHANGED shell
  PROVE  RegistryTypes'
<1>1. task[t] \in InstallCalls BY IndexOf, CallFields DEF Fresh
<1>2. [task[t] EXCEPT !.at = "asking"] \in RegistryCalls BY <1>1, CallIs DEF InstallCalls
<1>3. task' \in [Tasks -> RegistryCalls] BY <1>2, BecomesTypes DEF Fresh
<1> QED BY <1>3 DEF Fresh, RegistryTypes, disk

LEMMA FilesListedTypes ==
  ASSUME RegistryTypes, NEW t \in Tasks, FilesListed(t), UNCHANGED shell
  PROVE  RegistryTypes'
<1>1. task[t] \in InstallCalls BY IndexOf, CallFields DEF FilesListed
<1>2. /\ task' \in [Tasks -> RegistryCalls]
      /\ partial' \subseteq Here /\ meta' \subseteq Here
  <2>1. CASE \E f \in ToLoad(t) : StartLoad(t, f, "fresh")
    <3>1. PICK f \in ToLoad(t) : StartLoad(t, f, "fresh") BY <2>1
    <3>2. f \in Here
      <4>1. task[t].id \in Models /\ task[t].want \in Ggufs \cup {AnyFile}
        BY <1>1 DEF InstallCalls
      <4> QED BY <4>1 DEF ToLoad, RegistryTypes, Here, Names
    <3> QED BY <1>1, <3>1, <3>2, StartLoadTypes
  <2>2. CASE Becomes(t, Idle) /\ UNCHANGED <<partial, meta>>
    <3>1. task' \in [Tasks -> RegistryCalls] BY <2>2, CallIs, BecomesTypes
    <3> QED BY <2>2, <3>1 DEF RegistryTypes
  <2> QED BY <2>1, <2>2 DEF FilesListed
<1> QED BY <1>2 DEF FilesListed, RegistryTypes

LEMMA TokenizerFile ==
  ASSUME NEW id \in Models PROVE [dir |-> id, name |-> Tokenizer] \in Here
BY DEF Here, Names

LEMMA TokenizeTypes ==
  ASSUME RegistryTypes, NEW t \in Tasks, Tokenize(t), UNCHANGED shell
  PROVE  RegistryTypes'
<1> DEFINE f == [dir |-> task[t].id, name |-> Tokenizer]
           c == [at |-> "loading", id |-> task[t].id, file |-> f, stage |-> "tokenizer",
                 model |-> task[t].file, made |-> task[t].made, left |-> task[t].left - 1]
<1>1. task[t] \in FileCalls BY IndexOf, CallFields DEF Tokenize
<1>2. f \in Here BY <1>1, TokenizerFile DEF FileCalls
<1>3. Becomes(t, c) /\ partial' = partial \cup {f} /\ meta' = meta \cup {f} BY DEF Tokenize
<1>4. c \in RegistryCalls
  <2>1. c \in TokenizerLoads
    <3> HIDE DEF f
    <3> QED BY <1>1, <1>2 DEF FileCalls, TokenizerLoads
  <2> QED BY <2>1, CallIs
<1> HIDE DEF f, c
<1>5. task' \in [Tasks -> RegistryCalls] BY <1>3, <1>4, BecomesTypes
<1>6. partial' \subseteq Here /\ meta' \subseteq Here BY <1>2, <1>3 DEF RegistryTypes
<1> QED BY <1>5, <1>6 DEF Tokenize, RegistryTypes

LEMMA HasTokenizerTypes ==
  ASSUME RegistryTypes, NEW t \in Tasks, HasTokenizer(t), UNCHANGED shell
  PROVE  RegistryTypes'
<1>1. task[t] \in FileCalls BY IndexOf, CallFields DEF HasTokenizer
<1>2. [task[t] EXCEPT !.at = "record"] \in FileCalls BY <1>1 DEF FileCalls
<1>3. task' \in [Tasks -> RegistryCalls]
  BY <1>2, CallIs, BecomesTypes DEF HasTokenizer
<1> QED BY <1>3 DEF HasTokenizer, RegistryTypes, disk

LEMMA ThenTypes ==
  ASSUME NEW t, task[t].id \in Models, NEW at \in {"tokenize", "record"}, NEW f \in Here,
         NEW made \in Mades
  PROVE  Then(t, at, f, made) \in FileCalls
BY RegistryAssumption DEF Then, FileCalls

LEMMA AfterTypes ==
  ASSUME RegistryTypes, NEW t \in Tasks, task[t].at = "loading"
  PROVE  AfterLoad(t) \in RegistryCalls /\ AfterFailure(t) \in RegistryCalls
         /\ task[t].file \in Here
<1>1. CASE task[t].stage = "tokenizer"
  <2>1. task[t] \in TokenizerLoads BY <1>1, IndexOf, CallFields
  <2>2. /\ task[t].id \in Models /\ task[t].model \in Here /\ task[t].made \in Mades
        /\ task[t].left \in Nat /\ task[t].file \in Here
    BY <2>1 DEF TokenizerLoads
  <2>3. Done(t, task[t].made) \in RegistryCalls
    <3>1. Then(t, "record", task[t].model, task[t].made) \in FileCalls BY <2>2, ThenTypes
    <3> QED BY <3>1, CallIs DEF Done
  <2>4. task[t].left # 0 =>
          [Then(t, "tokenize", task[t].model, task[t].made) EXCEPT !.left = task[t].left]
            \in RegistryCalls
    <3>1. Then(t, "tokenize", task[t].model, task[t].made) \in FileCalls BY <2>2, ThenTypes
    <3>2. task[t].left # 0 =>
            [Then(t, "tokenize", task[t].model, task[t].made) EXCEPT !.left = task[t].left]
              \in FileCalls
      BY <2>2, <3>1 DEF FileCalls
    <3> QED BY <3>2, CallIs
  <2>5. AfterLoad(t) = Done(t, task[t].made) BY <1>1 DEF AfterLoad
  <2>6. AfterFailure(t) =
          IF task[t].left = 0 THEN Done(t, task[t].made)
          ELSE [Then(t, "tokenize", task[t].model, task[t].made) EXCEPT !.left = task[t].left]
    BY <1>1 DEF AfterFailure
  <2> QED BY <2>2, <2>3, <2>4, <2>5, <2>6
<1>2. CASE task[t].stage # "tokenizer"
  <2>1. task[t] \in ModelLoads BY <1>2, IndexOf, CallFields
  <2>2. /\ task[t].id \in Models /\ task[t].file \in Here
        /\ task[t].stage \in {"resume", "fresh"}
    BY <2>1 DEF ModelLoads
  <2>3. /\ Then(t, "record", task[t].file, "bare") \in FileCalls
        /\ Then(t, "tokenize", task[t].file, "known") \in FileCalls
    BY <2>2, ThenTypes DEF Mades
  <2>4. [at |-> "fresh", id |-> task[t].id, want |-> AnyFile] \in InstallCalls
    BY <2>2 DEF InstallCalls
  <2>5. AfterLoad(t) \in RegistryCalls
    BY <2>2, <2>3, CallIs DEF AfterLoad
  <2>6. AfterFailure(t) \in RegistryCalls
    BY <2>2, <2>4, CallIs DEF AfterFailure
  <2> QED BY <2>2, <2>5, <2>6
<1> QED BY <1>1, <1>2

LEMMA LoadingTypes ==
  ASSUME RegistryTypes, NEW t \in Tasks, Loaded(t) \/ LoadFails(t) \/ Cancel(t),
         UNCHANGED shell
  PROVE  RegistryTypes'
<1>1. task[t].at = "loading" BY DEF Loaded, LoadFails, Cancel
<1>2. AfterLoad(t) \in RegistryCalls /\ AfterFailure(t) \in RegistryCalls
      /\ task[t].file \in Here
  BY <1>1, AfterTypes
<1>3. task' \in [Tasks -> RegistryCalls]
  BY <1>2, BecomesTypes DEF Loaded, LoadFails, Cancel
<1>4. whole' \subseteq Here /\ partial' \subseteq Here /\ meta' \subseteq Here
      /\ cancelled' \subseteq Tasks
  BY <1>2 DEF Loaded, LoadFails, Cancel, RegistryTypes
<1> QED BY <1>3, <1>4 DEF Loaded, LoadFails, Cancel, RegistryTypes

LEMMA RecordTypes ==
  ASSUME RegistryTypes, NEW t \in Tasks, Record(t), UNCHANGED shell
  PROVE  RegistryTypes'
<1> DEFINE old == index[P(t)][task[t].id]
           new == [worth |-> IF old = NoEntry THEN task[t].made = "known" ELSE old.worth,
                   file |-> task[t].file]
<1>1. task[t] \in FileCalls BY IndexOf, CallFields DEF Record
<1>2. task[t].id \in Models /\ task[t].file \in Here BY <1>1 DEF FileCalls
<1>3. new \in Entries
  <2>1. old \in Entries BY <1>2, IndexOf DEF Indexes, Ids
  <2>2. (IF old = NoEntry THEN task[t].made = "known" ELSE old.worth) \in BOOLEAN
    BY <2>1 DEF Entries, Listed
  <2> QED BY <1>2, <2>2 DEF Entries, Listed
<1>4. SaveIndex(t, [index[P(t)] EXCEPT ![task[t].id] = new]) BY DEF Record
<1> HIDE DEF new
<1>5. [index[P(t)] EXCEPT ![task[t].id] = new] \in Indexes BY <1>3, IndexOf, EntryChanged
<1>6. index' \in [Procs -> Indexes] /\ saved' \in Indexes BY <1>4, <1>5, SaveIndexTypes
<1>7. task' \in [Tasks -> RegistryCalls] BY CallIs, BecomesTypes DEF Record
<1> QED BY <1>6, <1>7 DEF Record, RegistryTypes, disk

LEMMA EnsureTokenizerTypes ==
  ASSUME RegistryTypes, NEW t \in Tasks, NEW id \in Ids, EnsureTokenizer(t, id), UNCHANGED shell
  PROVE  RegistryTypes'
<1> DEFINE f == index[P(t)][id].file
           c == [at |-> "tokenize", id |-> f.dir, file |-> f, made |-> "none",
                 left |-> Candidates]
<1>1. f \in Here BY DEF EnsureTokenizer, RegistryTypes
<1>2. Begin(t, c) BY DEF EnsureTokenizer
<1>3. c \in FileCalls
  <2> HIDE DEF f
  <2>1. f.dir \in Models BY <1>1 DEF Here
  <2> QED BY <1>1, <2>1, RegistryAssumption DEF FileCalls, Mades
<1> HIDE DEF f, c
<1>4. c \in RegistryCalls BY <1>3, CallIs
<1>5. task' \in [Tasks -> RegistryCalls] /\ calls' \in Nat /\ cancelled' \subseteq Tasks
  BY <1>2, <1>4, StartTypes
<1> QED BY <1>5 DEF EnsureTokenizer, RegistryTypes, disk

LEMMA ScanTypes ==
  ASSUME RegistryTypes, NEW t \in Tasks, Scan(t),
         shell' \in [Shells -> {"none", "made", "asked"}]
  PROVE  RegistryTypes'
<1> DEFINE c == [at |-> "scanned", snap |-> Discovered]
<1>1. Discovered \in Snaps BY DiscoveredTypes DEF RegistryTypes
<1>2. c \in RegistryCalls
  <2> HIDE DEF RegistryCalls
  <2>1. c \in ScanCalls BY <1>1 DEF ScanCalls, Snaps
  <2> QED BY <2>1, CallIs
<1>3. Begin(t, c) BY DEF Scan
<1> HIDE DEF c
<1>4. task' \in [Tasks -> RegistryCalls] /\ calls' \in Nat /\ cancelled' \subseteq Tasks
  BY <1>2, <1>3, StartTypes
<1> QED BY <1>4 DEF Scan, RegistryTypes, disk

LEMMA ScanFirstTypes ==
  ASSUME RegistryTypes, NEW t \in Tasks, ScanFirst(t), UNCHANGED shell
  PROVE  RegistryTypes'
<1> DEFINE c == [at |-> "scanned", snap |-> Discovered]
<1>1. Discovered \in Snaps BY DiscoveredTypes DEF RegistryTypes
<1>2. c \in RegistryCalls
  <2> HIDE DEF RegistryCalls
  <2>1. c \in ScanCalls BY <1>1 DEF ScanCalls, Snaps
  <2> QED BY <2>1, CallIs
<1>3. Becomes(t, c) BY DEF ScanFirst
<1> HIDE DEF c
<1>4. task' \in [Tasks -> RegistryCalls] BY <1>2, <1>3, BecomesTypes
<1> QED BY <1>4 DEF ScanFirst, RegistryTypes, disk

\* The process's index after a call that lists: reconciled with what it scanned.
LEMMA MergeIs ==
  ASSUME RegistryTypes, NEW t \in Tasks, Merge(t)
  PROVE  /\ task[t].snap \in Snaps
         /\ index' = [index EXCEPT ![P(t)] = Reconciled(index[P(t)], task[t].snap)]
         /\ saved' \in {saved, Reconciled(index[P(t)], task[t].snap)}
<1>1. task[t] \in ScanCalls BY IndexOf, CallFields DEF Merge
<1>2. task[t].snap \in Snaps BY <1>1 DEF ScanCalls, Snaps
<1> DEFINE e == Reconciled(index[P(t)], task[t].snap)
<1>3. IF e = index[P(t)] THEN UNCHANGED <<index, saved>> ELSE SaveIndex(t, e) BY DEF Merge
<1>4. index = [index EXCEPT ![P(t)] = index[P(t)]] BY DEF RegistryTypes
<1> HIDE DEF e
<1>5. index' = [index EXCEPT ![P(t)] = e] /\ saved' \in {saved, e}
  <2>1. CASE e = index[P(t)] BY <1>3, <1>4, <2>1
  <2>2. CASE e # index[P(t)] BY <1>3, <2>2 DEF SaveIndex
  <2> QED BY <2>1, <2>2
<1> QED BY <1>2, <1>5 DEF e

LEMMA MergeTypes ==
  ASSUME RegistryTypes, NEW t \in Tasks, Merge(t), UNCHANGED shell
  PROVE  RegistryTypes'
<1>1. Reconciled(index[P(t)], task[t].snap) \in Indexes
  BY MergeIs, IndexOf, ReconciledTypes
<1>2. index' \in [Procs -> Indexes] /\ saved' \in Indexes
  BY <1>1, MergeIs DEF RegistryTypes
<1>3. task' \in [Tasks -> RegistryCalls] BY CallIs, BecomesTypes DEF Merge
<1> QED BY <1>2, <1>3 DEF Merge, RegistryTypes, disk

LEMMA RemoveModelTypes ==
  ASSUME RegistryTypes, NEW t \in Tasks, NEW id, RemoveModel(t, id),
         shell' \in [Shells -> {"none", "made", "asked"}]
  PROVE  RegistryTypes'
<1> DEFINE c == [at |-> "removing", id |-> id]
<1>1. c \in RegistryCalls BY CallIs DEF RemoveModel, RemoveCalls
<1>2. Begin(t, c) BY DEF RemoveModel
<1> HIDE DEF c
<1>3. task' \in [Tasks -> RegistryCalls] /\ calls' \in Nat /\ cancelled' \subseteq Tasks
  BY <1>1, <1>2, StartTypes
<1> QED BY <1>3 DEF RemoveModel, RegistryTypes, disk

LEMMA DeleteFilesTypes ==
  ASSUME RegistryTypes, NEW t \in Tasks, DeleteFiles(t), UNCHANGED shell
  PROVE  RegistryTypes'
<1>1. task[t] \in RemoveCalls BY IndexOf, CallFields DEF DeleteFiles
<1>2. [task[t] EXCEPT !.at = "removed"] \in RemoveCalls BY <1>1 DEF RemoveCalls
<1>3. task' \in [Tasks -> RegistryCalls] BY <1>2, CallIs, BecomesTypes DEF DeleteFiles
<1>4. whole' \subseteq Here /\ partial' \subseteq Here /\ meta' \subseteq Here
  BY DEF DeleteFiles, RegistryTypes
<1>5. lock' \in [Procs -> Tasks \cup {NoTask}] BY DEF DeleteFiles, RegistryTypes
<1> QED BY <1>3, <1>4, <1>5 DEF DeleteFiles, RegistryTypes

LEMMA ForgetTypes ==
  ASSUME RegistryTypes, NEW t \in Tasks, Forget(t), UNCHANGED shell
  PROVE  RegistryTypes'
<1>1. [index[P(t)] EXCEPT ![task[t].id] = NoEntry] \in Indexes
  BY IndexOf, EntryChanged DEF Entries
<1>2. index' \in [Procs -> Indexes] /\ saved' \in Indexes
  BY <1>1, SaveIndexTypes DEF Forget
<1>3. task' \in [Tasks -> RegistryCalls] BY CallIs, BecomesTypes DEF Forget
<1> QED BY <1>2, <1>3 DEF Forget, RegistryTypes, disk

LEMMA RemoveEntryTypes ==
  ASSUME RegistryTypes, NEW t \in Tasks, NEW id, RemoveEntry(t, id),
         shell' \in [Shells -> {"none", "made", "asked"}]
  PROVE  RegistryTypes'
<1>1. [index[P(t)] EXCEPT ![id] = NoEntry] \in Indexes
  BY IndexOf, EntryChanged DEF Entries
<1>2. index' \in [Procs -> Indexes] /\ saved' \in Indexes
  BY <1>1, SaveIndexTypes DEF RemoveEntry
<1> QED BY <1>2 DEF RemoveEntry, RegistryTypes, disk

LEMMA ImportTypes ==
  ASSUME RegistryTypes, NEW t \in Tasks, NEW b, ImportOllama(t, b),
         shell' \in [Shells -> {"none", "made", "asked"}]
  PROVE  RegistryTypes'
<1> DEFINE new == [worth |-> TRUE, file |-> Misplaced]
<1>1. new \in Entries BY DEF Entries, Listed
<1>2. SaveIndex(t, [index[P(t)] EXCEPT ![b] = new]) BY DEF ImportOllama
<1> HIDE DEF new
<1>3. [index[P(t)] EXCEPT ![b] = new] \in Indexes BY <1>1, IndexOf, EntryChanged
<1>4. index' \in [Procs -> Indexes] /\ saved' \in Indexes BY <1>2, <1>3, SaveIndexTypes
<1> QED BY <1>4 DEF ImportOllama, RegistryTypes, disk

LEMMA SearchTypes ==
  ASSUME RegistryTypes, NEW t \in Tasks, Search(t) \/ Answered(t) \/ SearchEnds(t),
         shell' \in [Shells -> {"none", "made", "asked"}]
  PROVE  RegistryTypes'
<1>1. CASE Search(t)
  <2> DEFINE c == [at |-> "searching"]
  <2>1. c \in RegistryCalls BY CallIs DEF BareCalls
  <2>2. Begin(t, c) BY <1>1 DEF Search
  <2> HIDE DEF c
  <2>3. task' \in [Tasks -> RegistryCalls] /\ calls' \in Nat /\ cancelled' \subseteq Tasks
    BY <2>1, <2>2, StartTypes
  <2> QED BY <1>1, <2>3 DEF Search, RegistryTypes, disk
<1>2. CASE SearchEnds(t)
  <2>1. task' \in [Tasks -> RegistryCalls] BY <1>2, CallIs, BecomesTypes DEF SearchEnds
  <2> QED BY <1>2, <2>1 DEF SearchEnds, RegistryTypes, disk
<1>3. CASE Answered(t)
  <2>1. [at |-> "found"] \in RegistryCalls BY CallIs DEF BareCalls
  <2>2. task' \in [Tasks -> RegistryCalls] BY <1>3, <2>1, BecomesTypes DEF Answered
  <2>3. lock' \in [Procs -> Tasks \cup {NoTask}] BY <1>3 DEF Answered, RegistryTypes
  <2> QED BY <1>3, <2>2, <2>3 DEF Answered, RegistryTypes, disk
<1> QED BY <1>1, <1>2, <1>3

LEMMA CleanupTypes ==
  ASSUME RegistryTypes, NEW t \in Tasks, CleanupPartial(t),
         shell' \in [Shells -> {"none", "made", "asked"}]
  PROVE  RegistryTypes'
<1>1. partial' \subseteq Here /\ meta' \subseteq Here BY DEF CleanupPartial, RegistryTypes
<1> QED BY <1>1 DEF CleanupPartial, RegistryTypes

LEMMA UserTypes ==
  ASSUME RegistryTypes, NEW f \in Here, UserCopies(f) \/ UserDeletes(f), UNCHANGED shell
  PROVE  RegistryTypes'
BY DEF UserCopies, UserDeletes, Outside, RegistryTypes

LEMMA OllamaTypes ==
  ASSUME RegistryTypes, NEW b \in Blobs, OllamaChanges(b), UNCHANGED shell
  PROVE  RegistryTypes'
BY DEF OllamaChanges, Outside, RegistryTypes, disk

LEMMA RestartTypes ==
  ASSUME RegistryTypes, NEW p \in Procs, Restart(p), UNCHANGED shell
  PROVE  RegistryTypes'
<1>1. Reconciled(saved, Discovered) \in Indexes
  BY DiscoveredTypes, ReconciledTypes DEF RegistryTypes
<1>2. index' \in [Procs -> Indexes] /\ saved' \in Indexes BY <1>1 DEF Restart, RegistryTypes
<1>3. task' \in [Tasks -> RegistryCalls] BY CallIs DEF Restart, RegistryTypes
<1>4. lock' \in [Procs -> Tasks \cup {NoTask}] /\ outside' \in Nat
  BY DEF Restart, Outside, RegistryTypes
<1> QED BY <1>2, <1>3, <1>4 DEF Restart, RegistryTypes, disk

LEMMA ShellTypes ==
  ASSUME RegistryTypes, NEW t \in Shells, MakeRegistry(t) \/ Exits(t) \/ Killed(t)
  PROVE  RegistryTypes'
<1>1. t \in Tasks BY RegistryCommandsAssumption
<1>2. CASE MakeRegistry(t)
  <2>1. index' \in [Procs -> Indexes] BY <1>2 DEF MakeRegistry, RegistryTypes
  <2>2. [at |-> "new"] \in RegistryCalls BY CallIs DEF BareCalls
  <2>3. task' \in [Tasks -> RegistryCalls] BY <1>1, <1>2, <2>2, BecomesTypes DEF MakeRegistry
  <2> QED BY <1>2, <2>1, <2>3 DEF MakeRegistry, RegistryTypes, disk
<1>3. CASE Exits(t)
  <2>1. index' \in [Procs -> Indexes] BY <1>3, EmptyTypes DEF Exits, Ends, RegistryTypes
  <2> QED BY <1>3, <2>1 DEF Exits, Ends, RegistryTypes, disk
<1>4. CASE Killed(t)
  <2>1. index' \in [Procs -> Indexes] BY <1>4, EmptyTypes DEF Killed, Ends, RegistryTypes
  <2>2. task' \in [Tasks -> RegistryCalls] BY <1>1, <1>4, CallIs, BecomesTypes DEF Killed
  <2>3. lock' = [lock EXCEPT ![P(t)] = NoTask] /\ outside' = outside + 1
    BY <1>4 DEF Killed, Outside
  <2>4. lock' \in [Procs -> Tasks \cup {NoTask}] /\ outside' \in Nat
    <3>1. lock \in [Procs -> Tasks \cup {NoTask}] /\ outside \in Nat BY DEF RegistryTypes
    <3>2. [lock EXCEPT ![P(t)] = NoTask] \in [Procs -> Tasks \cup {NoTask}]
      BY ONLY <3>1
    <3>3. outside + 1 \in Nat BY ONLY <3>1
    <3> QED BY ONLY <2>3, <3>2, <3>3
  <2> QED BY <1>4, <2>1, <2>2, <2>4 DEF Killed, Ends, RegistryTypes, disk
<1> QED BY <1>2, <1>3, <1>4

LEMMA RegistryTypesInit == RegistryInit => RegistryTypes
<1> SUFFICES ASSUME RegistryInit PROVE RegistryTypes OBVIOUS
<1>1. whole \subseteq Here BY RegistryAssumption DEF RegistryInit, InitWith
<1>2. saved \in Indexes
  BY <1>1, EmptyTypes, DiscoveredTypes, ReconciledTypes DEF RegistryInit, InitWith
<1>3. index \in [Procs -> Indexes] BY <1>2, EmptyTypes DEF RegistryInit, InitWith
<1>4. task \in [Tasks -> RegistryCalls] BY CallIs DEF RegistryInit, InitWith
<1> QED BY <1>1, <1>2, <1>3, <1>4 DEF RegistryInit, InitWith, RegistryTypes

LEMMA RegistryTypesNext == RegistryTypes /\ [RegistryNext]_shellVars => RegistryTypes'
<1> SUFFICES ASSUME RegistryTypes, [RegistryNext]_shellVars PROVE RegistryTypes' OBVIOUS
<1>1. shell \in [Shells -> {"none", "made", "asked"}] BY DEF RegistryTypes
<1>2. ASSUME NEW f \in Here, UserCopies(f) \/ UserDeletes(f), Apart PROVE RegistryTypes'
  BY <1>2, UserTypes DEF Apart
<1>3. ASSUME NEW b \in Blobs, OllamaChanges(b), Apart PROVE RegistryTypes'
  BY <1>3, OllamaTypes DEF Apart
<1>4. ASSUME NEW t \in Tasks, AppCall(t) PROVE RegistryTypes'
  <2>1. UNCHANGED shell BY <1>4 DEF AppCall
  <2>2. CASE \E id \in Models : Install(t, id, AnyFile) BY <1>1, <2>1, <2>2, InstallTypes
  <2>3. CASE \E id \in Ids : EnsureTokenizer(t, id) BY <2>1, <2>3, EnsureTokenizerTypes
  <2>4. CASE \E id \in Ids : RemoveModel(t, id) BY <1>1, <2>1, <2>4, RemoveModelTypes
  <2>5. CASE \E id \in Ids \cup Blobs : RemoveEntry(t, id)
    BY <1>1, <2>1, <2>5, RemoveEntryTypes
  <2>6. CASE Scan(t) BY <1>1, <2>1, <2>6, ScanTypes
  <2>7. CASE Search(t) BY <1>1, <2>1, <2>7, SearchTypes
  <2> QED BY <1>4, <2>2, <2>3, <2>4, <2>5, <2>6, <2>7 DEF AppCall
<1>5. ASSUME NEW t \in Tasks, AppCancel(t) PROVE RegistryTypes'
  BY <1>5, LoadingTypes DEF AppCancel
<1>6. ASSUME NEW t \in Tasks, Look(t), Apart PROVE RegistryTypes'
  BY <1>6, LookTypes DEF Apart
<1>7. ASSUME NEW t \in Tasks, Fresh(t), Apart PROVE RegistryTypes'
  BY <1>7, FreshTypes DEF Apart
<1>19. ASSUME NEW t \in Tasks, FilesListed(t), Apart PROVE RegistryTypes'
  BY <1>19, FilesListedTypes DEF Apart
<1>20. ASSUME NEW t \in Tasks, ScanFirst(t), Apart PROVE RegistryTypes'
  BY <1>20, ScanFirstTypes DEF Apart
<1>8. ASSUME NEW t \in Tasks, Loaded(t) \/ LoadFails(t), Apart PROVE RegistryTypes'
  BY <1>8, LoadingTypes DEF Apart
<1>9. ASSUME NEW t \in Tasks, Tokenize(t), Apart PROVE RegistryTypes'
  BY <1>9, TokenizeTypes DEF Apart
<1>10. ASSUME NEW t \in Tasks, HasTokenizer(t), Apart PROVE RegistryTypes'
  BY <1>10, HasTokenizerTypes DEF Apart
<1>11. ASSUME NEW t \in Tasks, Record(t), Apart PROVE RegistryTypes'
  BY <1>11, RecordTypes DEF Apart
<1>12. ASSUME NEW t \in Tasks, Merge(t), Apart PROVE RegistryTypes'
  BY <1>12, MergeTypes DEF Apart
<1>13. ASSUME NEW t \in Tasks, DeleteFiles(t), Apart PROVE RegistryTypes'
  BY <1>13, DeleteFilesTypes DEF Apart
<1>14. ASSUME NEW t \in Tasks, Forget(t), Apart PROVE RegistryTypes'
  BY <1>14, ForgetTypes DEF Apart
<1>15. ASSUME NEW t \in Tasks, Answered(t) \/ SearchEnds(t), Apart PROVE RegistryTypes'
  BY <1>1, <1>15, SearchTypes DEF Apart
<1>16. ASSUME NEW p \in Procs, AppRestarts(p) PROVE RegistryTypes'
  BY <1>16, RestartTypes DEF AppRestarts
<1>17. ASSUME NEW t \in Shells, Command(t) PROVE RegistryTypes'
  <2>1. t \in Tasks BY RegistryCommandsAssumption
  <2>2. Asks(t) => shell' \in [Shells -> {"none", "made", "asked"}] BY <1>1 DEF Asks
  <2>3. CASE MakeRegistry(t) \/ Exits(t) \/ Killed(t) BY <2>3, ShellTypes
  <2>4. CASE \E id \in Models, want \in Ggufs \cup {AnyFile} : CmdInstall(t, id, want)
    BY <2>1, <2>2, <2>4, InstallTypes DEF CmdInstall
  <2>5. CASE \E id \in Ids \cup Blobs : CmdRemove(t, id)
    BY <2>1, <2>2, <2>5, RemoveEntryTypes, RemoveModelTypes DEF CmdRemove
  <2>6. CASE \E b \in Blobs : CmdImportOllama(t, b)
    BY <2>1, <2>2, <2>6, ImportTypes DEF CmdImportOllama
  <2>7. CASE CmdList(t) BY <2>1, <2>2, <2>7, ScanTypes DEF CmdList
  <2>8. CASE CmdSearch(t) BY <2>1, <2>2, <2>8, SearchTypes DEF CmdSearch
  <2>9. CASE CmdStorage(t) BY <2>1, <2>2, <2>9, CleanupTypes DEF CmdStorage
  <2> QED BY <1>17, <2>3, <2>4, <2>5, <2>6, <2>7, <2>8, <2>9 DEF Command
<1>18. CASE UNCHANGED shellVars
  BY <1>18 DEF RegistryTypes, shellVars, registryVars, disk
<1> QED BY <1>2, <1>3, <1>4, <1>5, <1>6, <1>7, <1>8, <1>9, <1>10, <1>11, <1>12, <1>13, <1>14,
           <1>15, <1>16, <1>17, <1>18, <1>19, <1>20 DEF RegistryNext

\* The registry's tables hold entries, its disk files, its tasks calls (mod.rs).
THEOREM RegistryTypeCorrect == RegistrySpec => []RegistryTypes
BY RegistryTypesInit, RegistryTypesNext, PTL DEF RegistrySpec

\* What each step makes of the indexes: nothing, one process's index by a call of
\* one of its tasks, or an index reconciled or emptied.
Changes(p) ==
  \/ index'[p] = index[p]
  \/ \E snap \in Snaps : index'[p] = Reconciled(index[p], snap)
  \/ \E snap \in Snaps : index'[p] = Reconciled(saved, snap)
  \/ index'[p] = Empty \/ index'[p] = saved
  \/ \E id : index'[p] = [index[p] EXCEPT ![id] = NoEntry]
  \/ \E b \in Blobs : index'[p] = [index[p] EXCEPT ![b] = [worth |-> TRUE, file |-> Misplaced]]
  \/ \E t \in Tasks : P(t) = p /\ task[t].at = "record"

LEMMA ChangesOf ==
  ASSUME RegistryTypes, [RegistryNext]_shellVars, NEW p \in Procs
  PROVE  Changes(p)
<1>1. CASE UNCHANGED index BY <1>1 DEF Changes
<1>2. ASSUME NEW t \in Tasks, Record(t) PROVE Changes(p)
  <2>1. task[t].at = "record" BY <1>2 DEF Record
  <2>2. P(t) # p => index'[p] = index[p] BY <1>2 DEF Record, SaveIndex, RegistryTypes
  <2> QED BY <2>1, <2>2 DEF Changes
<1>3. ASSUME NEW t \in Tasks, Merge(t) PROVE Changes(p)
  <2>1. /\ task[t].snap \in Snaps
        /\ index' = [index EXCEPT ![P(t)] = Reconciled(index[P(t)], task[t].snap)]
    BY <1>3, MergeIs
  <2>2. CASE P(t) = p
    <3>1. index'[p] = Reconciled(index[p], task[t].snap) BY <2>1, <2>2 DEF RegistryTypes
    <3> QED BY <2>1, <3>1 DEF Changes
  <2>3. CASE P(t) # p BY <2>1, <2>3 DEF Changes, RegistryTypes
  <2> QED BY <2>2, <2>3
<1>4. ASSUME NEW t \in Tasks, NEW id, SaveIndex(t, [index[P(t)] EXCEPT ![id] = NoEntry])
      PROVE  Changes(p)
  <2>1. index' = [index EXCEPT ![P(t)] = [index[P(t)] EXCEPT ![id] = NoEntry]]
    BY <1>4 DEF SaveIndex
  <2>2. CASE P(t) = p
    <3>1. index'[p] = [index[p] EXCEPT ![id] = NoEntry] BY <2>1, <2>2 DEF RegistryTypes
    <3> QED BY <3>1 DEF Changes
  <2>3. CASE P(t) # p BY <2>1, <2>3 DEF Changes, RegistryTypes
  <2> QED BY <2>2, <2>3
<1>5. ASSUME NEW t \in Tasks, NEW b \in Blobs, ImportOllama(t, b) PROVE Changes(p)
  <2> DEFINE new == [worth |-> TRUE, file |-> Misplaced]
  <2>1. index' = [index EXCEPT ![P(t)] = [index[P(t)] EXCEPT ![b] = new]]
    BY <1>5 DEF ImportOllama, SaveIndex
  <2>2. CASE P(t) = p
    <3> HIDE DEF new
    <3>1. index'[p] = [index[p] EXCEPT ![b] = new] BY <2>1, <2>2 DEF RegistryTypes
    <3> QED BY <3>1 DEF Changes, new
  <2>3. CASE P(t) # p
    <3> HIDE DEF new
    <3> QED BY <2>1, <2>3 DEF Changes, RegistryTypes
  <2> QED BY <2>2, <2>3
<1>6. ASSUME NEW q \in Procs,
             index' = [index EXCEPT ![q] = Reconciled(saved, Discovered)]
                \/ index' = [index EXCEPT ![q] = Empty] \/ index' = [index EXCEPT ![q] = saved]
      PROVE  Changes(p)
  <2>1. Discovered \in Snaps BY DiscoveredTypes DEF RegistryTypes
  <2>2. CASE q # p BY <1>6, <2>2 DEF Changes, RegistryTypes
  <2>3. CASE q = p
    <3>1. \/ index'[p] = Reconciled(saved, Discovered) \/ index'[p] = Empty
          \/ index'[p] = saved
      BY <1>6, <2>3 DEF RegistryTypes
    <3> QED BY <2>1, <3>1 DEF Changes
  <2> QED BY <2>2, <2>3
<1>7. ASSUME NEW q \in Procs, Restart(q) PROVE Changes(p)
  BY <1>6, <1>7 DEF Restart
<1>8. ASSUME NEW t \in Shells, MakeRegistry(t) \/ Exits(t) \/ Killed(t) PROVE Changes(p)
  <2>1. P(t) \in Procs BY RegistryCommandsAssumption, IndexOf
  <2> QED BY <1>6, <1>8, <2>1 DEF MakeRegistry, Exits, Killed, Ends
<1>9. ASSUME NEW t \in Tasks, NEW id, RemoveEntry(t, id) PROVE Changes(p)
  BY <1>4, <1>9 DEF RemoveEntry
<1>10. ASSUME NEW t \in Tasks, Forget(t) PROVE Changes(p)
  BY <1>4, <1>10 DEF Forget
<1>11. ASSUME NEW t \in Tasks, Scan(t) \/ ScanFirst(t) \/ Search(t) \/ Answered(t) \/ SearchEnds(t)
              \/ CleanupPartial(t) \/ Look(t) \/ Fresh(t) \/ FilesListed(t) \/ Loaded(t) \/ LoadFails(t) \/ Cancel(t)
              \/ Tokenize(t) \/ HasTokenizer(t) \/ DeleteFiles(t)
       PROVE  Changes(p)
  BY <1>1, <1>11 DEF Scan, ScanFirst, Search, Answered, SearchEnds, CleanupPartial, Look, Fresh,
                     FilesListed, Loaded, LoadFails,
                     Cancel, Tokenize, HasTokenizer, DeleteFiles
<1>12. ASSUME NEW t \in Tasks, NEW id,
              (\E want : Install(t, id, want)) \/ EnsureTokenizer(t, id) \/ RemoveModel(t, id)
       PROVE  Changes(p)
  BY <1>1, <1>12 DEF Install, EnsureTokenizer, RemoveModel
<1>13. ASSUME NEW t \in Shells, Command(t) PROVE Changes(p)
  <2>1. t \in Tasks BY RegistryCommandsAssumption
  <2>2. CASE MakeRegistry(t) \/ Exits(t) \/ Killed(t) BY <1>8, <2>2
  <2>3. CASE \E id \in Models, want \in Ggufs \cup {AnyFile} : CmdInstall(t, id, want)
    BY <2>1, <2>3, <1>12 DEF CmdInstall
  <2>4. CASE \E id \in Ids \cup Blobs : CmdRemove(t, id)
    BY <2>1, <2>4, <1>9, <1>12 DEF CmdRemove
  <2>5. CASE \E b \in Blobs : CmdImportOllama(t, b) BY <2>1, <2>5, <1>5 DEF CmdImportOllama
  <2>6. CASE CmdList(t) \/ CmdSearch(t) \/ CmdStorage(t)
    BY <2>1, <2>6, <1>11 DEF CmdList, CmdSearch, CmdStorage
  <2> QED BY <1>13, <2>2, <2>3, <2>4, <2>5, <2>6 DEF Command
<1>14. ASSUME NEW t \in Tasks, AppCall(t) PROVE Changes(p)
  BY <1>14, <1>9, <1>11, <1>12 DEF AppCall
<1>15. CASE \E f \in Here : UserCopies(f) \/ UserDeletes(f)
  BY <1>1, <1>15 DEF UserCopies, UserDeletes
<1>16. CASE \E b \in Blobs : OllamaChanges(b) BY <1>1, <1>16 DEF OllamaChanges
<1>17. CASE UNCHANGED shellVars BY <1>1, <1>17 DEF shellVars, registryVars
<1>18. CASE \E t \in Tasks : AppCancel(t) BY <1>11, <1>18 DEF AppCancel
<1>19. CASE \E q \in Procs : AppRestarts(q) BY <1>7, <1>19 DEF AppRestarts
<1> QED BY <1>2, <1>3, <1>10, <1>11, <1>13, <1>14, <1>15, <1>16, <1>17, <1>18, <1>19 DEF RegistryNext

\* Reconciling, in list_installed or Registry::new, takes no other file for one that is
\* named and there; nor does anything else but the end of an install (reconcile of mod.rs).
THEOREM RegistryKeepsChoice == RegistrySpec => ChoiceKept
<1> DEFINE Kept(p, id) ==
             (/\ Installed(index[p][id]) /\ Installed(index'[p][id])
              /\ index[p][id].file \in whole \cap whole' /\ saved = index[p])
             => \/ index'[p][id].file = index[p][id].file
                \/ \E t \in Tasks : P(t) = p /\ task[t].at = "record"
<1>1. ASSUME RegistryTypes, [RegistryNext]_shellVars, NEW p \in Procs, NEW id \in Ids
      PROVE  Kept(p, id)
  <2> SUFFICES ASSUME Installed(index[p][id]), Installed(index'[p][id]),
                      index[p][id].file \in whole, saved = index[p],
                      ~\E t \in Tasks : P(t) = p /\ task[t].at = "record"
               PROVE  index'[p][id].file = index[p][id].file
    OBVIOUS
  <2>1. index[p] \in Indexes /\ saved \in Indexes BY <1>1 DEF RegistryTypes
  <2>2. \A snap \in Snaps : Reconciled(index[p], snap)[id] = index[p][id]
    BY <2>1, ReconciledKeeps
  <2>3. DOMAIN index[p] = Ids \cup Blobs /\ id \notin Blobs
    BY <2>1, RegistryAssumption DEF Indexes
  <2>4. ~Installed(NoEntry) /\ Empty[id] = NoEntry BY DEF Installed, Empty
  <2>5. Changes(p) BY <1>1, ChangesOf
  <2>6. \A x : [index[p] EXCEPT ![x] = NoEntry][id] \in {NoEntry, index[p][id]}
    BY <2>3
  <2>7. \A b \in Blobs : \A v : [index[p] EXCEPT ![b] = v][id] = index[p][id] BY <2>3
  <2> QED BY <2>2, <2>4, <2>5, <2>6, <2>7 DEF Changes
<1>2. RegistryTypes /\ [RegistryNext]_shellVars
        => [\A p \in Procs, id \in Ids : Kept(p, id)]_registryVars
  BY <1>1
<1> QED BY <1>2, RegistryTypeCorrect, PTL DEF RegistrySpec, ChoiceKept

\* list_installed: what it found of a disk that has not changed since makes a listing of
\* what is there, of every directory with a model, and no other (reconcile, resolve and
\* StorageManager::report).
THEOREM RegistryListsDisk == RegistrySpec => ListIsDisk
<1> DEFINE Lists(t) == (/\ task[t].at = "scanned" /\ task[t].snap = Discovered
                        /\ task'[t] = Idle /\ outside' = outside)
                       => InLine(index'[P(t)])
<1>1. ASSUME RegistryTypes, [RegistryNext]_shellVars, NEW t \in Tasks,
             task[t].at = "scanned", task[t].snap = Discovered, task'[t] = Idle,
             outside' = outside
      PROVE  Merge(t)
  <2>1. task'[t] # task[t] BY <1>1 DEF Idle
  <2>2. outside \in Nat /\ outside + 1 # outside BY <1>1 DEF RegistryTypes
  <2>3. ~(\E f \in Here : UserCopies(f) \/ UserDeletes(f)) /\ ~(\E b \in Blobs : OllamaChanges(b))
    BY <1>1, <2>2 DEF UserCopies, UserDeletes, OllamaChanges, Outside
  <2>4. ~(\E p \in Procs : AppRestarts(p)) BY <1>1, <2>2 DEF AppRestarts, Restart, Outside
  <2>5. ASSUME NEW u \in Tasks, NEW c, Becomes(u, c) PROVE u = t
    BY <1>1, <2>1, <2>5 DEF Becomes, RegistryTypes
  <2>6. ASSUME NEW u \in Tasks, NEW c, Begin(u, c) PROVE FALSE
    BY <1>1, <2>5, <2>6 DEF Begin, Idle
  <2>7. task' # task BY <2>1
  <2>8. ASSUME NEW u \in Tasks PROVE ~AppCall(u)
    BY <2>1, <2>6 DEF AppCall, Install, EnsureTokenizer, RemoveModel, RemoveEntry, Scan, Search
  <2>9. ASSUME NEW u \in Tasks PROVE ~AppCancel(u)
    BY <1>1, <2>5 DEF AppCancel, Cancel
  <2>10. ASSUME NEW u \in Shells PROVE ~Command(u)
    <3>1. u \in Tasks BY RegistryCommandsAssumption
    <3>2. ~MakeRegistry(u) /\ ~Exits(u)
      <4>1. ASSUME MakeRegistry(u) PROVE FALSE
        <5>1. Becomes(u, [at |-> "new"]) BY <4>1 DEF MakeRegistry
        <5>2. u = t BY <3>1, <5>1, <2>5
        <5>3. task'[t] = [at |-> "new"] BY <1>1, <5>1, <5>2 DEF Becomes, RegistryTypes
        <5> QED BY <1>1, <5>3 DEF Idle
      <4> QED BY <4>1, <2>1 DEF Exits
    <3>3. ~Killed(u) BY <1>1, <2>2 DEF Killed, Outside
    <3>4. \A id, want : ~CmdInstall(u, id, want) BY <3>1, <2>6 DEF CmdInstall, Install
    <3>5. \A id : ~CmdRemove(u, id) BY <3>1, <2>1, <2>6 DEF CmdRemove, RemoveEntry, RemoveModel
    <3>6. \A b : ~CmdImportOllama(u, b) BY <2>1 DEF CmdImportOllama, ImportOllama
    <3>7. ~CmdList(u) /\ ~CmdSearch(u) /\ ~CmdStorage(u)
      BY <3>1, <2>1, <2>6 DEF CmdList, CmdSearch, CmdStorage, Scan, Search, CleanupPartial
    <3> QED BY <3>2, <3>3, <3>4, <3>5, <3>6, <3>7 DEF Command
  <2>11. ASSUME NEW u \in Tasks, Look(u) \/ Fresh(u) \/ FilesListed(u) \/ ScanFirst(u) PROVE FALSE
    BY <1>1, <2>5, <2>11 DEF Look, Fresh, FilesListed, ScanFirst, StartLoad
  <2>12. ASSUME NEW u \in Tasks, Loaded(u) \/ LoadFails(u) \/ Tokenize(u) \/ HasTokenizer(u)
         PROVE FALSE
    BY <1>1, <2>5, <2>12 DEF Loaded, LoadFails, Tokenize, HasTokenizer
  <2>13. ASSUME NEW u \in Tasks, Record(u) \/ Forget(u) \/ Answered(u) \/ SearchEnds(u) PROVE FALSE
    BY <1>1, <2>5, <2>13 DEF Record, Forget, Answered, SearchEnds
  <2>14. ASSUME NEW u \in Tasks, DeleteFiles(u) PROVE FALSE
    BY <1>1, <2>5, <2>14 DEF DeleteFiles
  <2>15. ASSUME NEW u \in Tasks, Merge(u) PROVE Merge(t)
    BY <2>5, <2>15 DEF Merge
  <2>16. ~UNCHANGED shellVars BY <2>1 DEF shellVars, registryVars
  <2>17. RegistryNext BY <1>1, <2>16
  <2> QED BY <2>3, <2>4, <2>8, <2>9, <2>10, <2>11, <2>12, <2>13, <2>14, <2>15, <2>17
             DEF RegistryNext
<1>2. ASSUME RegistryTypes, [RegistryNext]_shellVars, NEW t \in Tasks PROVE Lists(t)
  <2> SUFFICES ASSUME task[t].at = "scanned", task[t].snap = Discovered, task'[t] = Idle,
                      outside' = outside
               PROVE  InLine(index'[P(t)])
    OBVIOUS
  <2>1. Merge(t) BY <1>1, <1>2
  <2>2. index' = [index EXCEPT ![P(t)] = Reconciled(index[P(t)], Discovered)]
    BY <1>2, <2>1, MergeIs
  <2>3. P(t) \in Procs /\ index[P(t)] \in Indexes /\ whole \subseteq Here
    BY <1>2, IndexOf DEF RegistryTypes
  <2>4. index'[P(t)] = Reconciled(index[P(t)], Discovered)
    BY <1>2, <2>2, <2>3 DEF RegistryTypes
  <2>5. InLine(Reconciled(index[P(t)], Discovered)) BY <2>3, ReconciledInLine
  <2> QED BY <2>4, <2>5
<1>3. RegistryTypes /\ [RegistryNext]_shellVars => [\A t \in Tasks : Lists(t)]_registryVars
  BY <1>2
<1> QED BY <1>3, RegistryTypeCorrect, PTL DEF RegistrySpec, ListIsDisk
=============================================================================
