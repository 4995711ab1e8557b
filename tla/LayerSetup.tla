------------------------------ MODULE LayerSetup ------------------------------
(***************************************************************************)
(* Setting up a layer pipeline: the calls of PipelineInitiator::setup      *)
(* (pipeline/initiator.rs) that MeshBackend::load_model makes on one node, *)
(* the tasks in which MeshWorkerDaemon (pipeline/daemon.rs) loads and      *)
(* unloads layers, and CliPipelineHandler (hivebear-cli,                   *)
(* pipeline_handler.rs), which keeps one stage and loads it with the       *)
(* worker's orchestrator.                                                  *)
(*                                                                         *)
(* The node's sessions share its inbox and drop what is not theirs.  A     *)
(* worker keeps whatever stage was stored last, whoever asked for it, and  *)
(* any ReleaseSession unloads it: replicated sessions of any node send one *)
(* when they end.                                                          *)
(***************************************************************************)
EXTENDS Naturals, Sequences

CONSTANTS
  Sessions,    \* calls of setup, each with the session id of its plan
  Workers,     \* peers that run a daemon
  Pipelining,  \* those whose daemon has a pipeline handler
  Plan,        \* session |-> the workers of its plan, in order
  NoSession,   \* no stage
  MaxReleases, \* bound: worker |-> ReleaseSession messages it receives
  Fragile      \* bound: workers the connection to which may break

ASSUME LayerSetupAssumption ==
  /\ Pipelining \subseteq Workers
  /\ Plan \in [Sessions -> Seq(Workers)]
  /\ \A s \in Sessions :
       /\ Plan[s] # << >>
       /\ \A i, j \in 1..Len(Plan[s]) : Plan[s][i] = Plan[s][j] => i = j
  /\ NoSession \notin Sessions
  /\ MaxReleases \in [Workers -> Nat]
  /\ Fragile \subseteq Workers

VARIABLES
  setup,      \* session |-> where its call stands
  sent,       \* session |-> assignments sent
  acks,       \* session |-> acknowledgements counted
  disturbed,  \* session |-> another call was under way while it was
  inbox,      \* messages the transport has for the node, in order
  wire,       \* worker |-> messages its daemon has yet to receive, in order
  link,       \* worker |-> state of the connection to it
  load,       \* session |-> worker |-> where the task for its assignment stands
  stage,      \* worker |-> session whose layers the handler's state names
  held,       \* worker |-> sessions whose layers its orchestrator holds
  unloads,    \* worker |-> unload tasks that wait for the state's lock
  unloading,  \* worker |-> stage being unloaded by the task that has the lock
  releases    \* worker |-> ReleaseSession messages sent to it

callVars    == <<setup, sent, acks, disturbed>>
networkVars == <<inbox, wire, link, releases>>
workerVars  == <<load, stage, held, unloads, unloading>>
vars == <<callVars, networkVars, workerVars>>

Msg(k, s) == [kind |-> k, id |-> s]
Ack(k, s, w) == [kind |-> k, id |-> s, from |-> w]
Peers(s) == {Plan[s][i] : i \in 1..Len(Plan[s])}
Active(s) == setup[s] = "active"

-----------------------------------------------------------------------------
(* Slips a change of the code could make, each the mutant of the definition  *)
(* it is named after                                                         *)

\* The session id of an answer is not compared.
MineAny(m, s) == TRUE

\* A failed load is logged and not answered.
AnswerOnlyReady(s, w) ==
  /\ load[s][w] = "stored"
  /\ load' = [load EXCEPT ![s][w] = "acked"]
  /\ inbox' = IF link[w] = "up" THEN Append(inbox, Ack("ready", s, w)) ELSE inbox
  /\ UNCHANGED <<callVars, wire, link, releases, stage, held, unloads, unloading>>

\* The state is taken and the orchestrator not told.
UnloadForgets(w) ==
  /\ unloads[w] > 0 /\ unloading[w] = NoSession
  /\ unloads' = [unloads EXCEPT ![w] = @ - 1]
  /\ stage' = [stage EXCEPT ![w] = NoSession]
  /\ UNCHANGED <<callVars, networkVars, load, held, unloading>>

-----------------------------------------------------------------------------
Init ==
  /\ setup = [s \in Sessions |-> "new"]
  /\ sent = [s \in Sessions |-> 0]
  /\ acks = [s \in Sessions |-> 0]
  /\ disturbed = [s \in Sessions |-> FALSE]
  /\ inbox = << >>
  /\ wire = [w \in Workers |-> << >>]
  /\ link = [w \in Workers |-> "up"]
  /\ load = [s \in Sessions |-> [w \in Workers |-> "none"]]
  /\ stage = [w \in Workers |-> NoSession]
  /\ held = [w \in Workers |-> {}]
  /\ unloads = [w \in Workers |-> 0]
  /\ unloading = [w \in Workers |-> NoSession]
  /\ releases = [w \in Workers |-> 0]

-----------------------------------------------------------------------------
(* The initiator *)

\* load_model has found peers and made its plan; calls under way disturb each
\* other.
SetupStarts(s) ==
  /\ setup[s] = "new"
  /\ setup' = [setup EXCEPT ![s] = "active"]
  /\ disturbed' = [q \in Sessions |->
       disturbed[q] \/ (q # s /\ Active(q)) \/ (q = s /\ \E r \in Sessions : Active(r))]
  /\ UNCHANGED <<sent, acks, networkVars, workerVars>>

\* AssignLayers to the next worker of the plan: lost on a broken connection; one
\* known to be closed ends the call, whatever was sent before.
SendAssign(s) ==
  LET w == Plan[s][sent[s] + 1] IN
  /\ Active(s) /\ sent[s] < Len(Plan[s])
  /\ \/ /\ link[w] # "down"
        /\ sent' = [sent EXCEPT ![s] = @ + 1]
        /\ wire' = IF link[w] = "up" THEN [wire EXCEPT ![w] = Append(@, Msg("assign", s))] ELSE wire
        /\ UNCHANGED setup
     \/ /\ link[w] = "down"
        /\ setup' = [setup EXCEPT ![s] = "failed"]
        /\ UNCHANGED <<sent, wire>>
  /\ UNCHANGED <<acks, disturbed, inbox, link, releases, workerVars>>

\* The message names the session of the plan.
Mine(m, s) == m.id = s

\* One round of the loop that waits for the acknowledgements: a refusal ends the
\* call, what is not for it is dropped.
SetupReads(s) ==
  LET m == Head(inbox) IN
  /\ Active(s) /\ sent[s] = Len(Plan[s]) /\ inbox # << >>
  /\ inbox' = Tail(inbox)
  /\ \/ /\ Mine(m, s) /\ m.kind = "ready"
        /\ acks' = [acks EXCEPT ![s] = @ + 1]
        /\ setup' = IF acks[s] + 1 = Len(Plan[s]) THEN [setup EXCEPT ![s] = "ready"] ELSE setup
     \/ /\ Mine(m, s) /\ m.kind = "refused"
        /\ setup' = [setup EXCEPT ![s] = "failed"]
        /\ UNCHANGED acks
     \/ ~Mine(m, s) /\ UNCHANGED <<setup, acks>>
  /\ UNCHANGED <<sent, disturbed, wire, link, releases, workerVars>>

-----------------------------------------------------------------------------
(* The daemon and its handler *)

\* A task per assignment and per release; without a pipeline handler an
\* assignment is logged and never answered.
DaemonReceives(w) ==
  LET m == Head(wire[w]) IN
  /\ wire[w] # << >>
  /\ wire' = [wire EXCEPT ![w] = Tail(@)]
  /\ \/ /\ m.kind = "assign" /\ w \in Pipelining
        /\ load' = [load EXCEPT ![m.id][w] = "loading"]
        /\ UNCHANGED unloads
     \/ /\ m.kind = "release" /\ w \in Pipelining
        /\ unloads' = [unloads EXCEPT ![w] = @ + 1]
        /\ UNCHANGED load
     \/ w \notin Pipelining /\ UNCHANGED <<load, unloads>>
  /\ UNCHANGED <<callVars, inbox, link, releases, stage, held, unloading>>

\* load_layers: the model is missing, does not load, or is loaded and tracked.
Load(s, w) ==
  /\ load[s][w] = "loading"
  /\ \/ /\ load' = [load EXCEPT ![s][w] = "loaded"]
        /\ held' = [held EXCEPT ![w] = @ \cup {s}]
     \/ /\ load' = [load EXCEPT ![s][w] = "refused"]
        /\ UNCHANGED held
  /\ UNCHANGED <<callVars, networkVars, stage, unloads, unloading>>

\* The stage is stored over the one there was.
Store(s, w) ==
  /\ load[s][w] = "loaded" /\ unloading[w] = NoSession
  /\ load' = [load EXCEPT ![s][w] = "stored"]
  /\ stage' = [stage EXCEPT ![w] = s]
  /\ UNCHANGED <<callVars, networkVars, held, unloads, unloading>>

\* AssignLayersAck; that it cannot be sent is ignored.
Answer(s, w) ==
  /\ \/ /\ load[s][w] = "stored"
        /\ load' = [load EXCEPT ![s][w] = "acked"]
        /\ inbox' = IF link[w] = "up" THEN Append(inbox, Ack("ready", s, w)) ELSE inbox
     \/ /\ load[s][w] = "refused"
        /\ load' = [load EXCEPT ![s][w] = "nacked"]
        /\ inbox' = IF link[w] = "up" THEN Append(inbox, Ack("refused", s, w)) ELSE inbox
  /\ UNCHANGED <<callVars, wire, link, releases, stage, held, unloads, unloading>>

\* unload_layers takes the stage, whosever it is, and keeps the lock.
UnloadTakes(w) ==
  /\ unloads[w] > 0 /\ unloading[w] = NoSession
  /\ unloads' = [unloads EXCEPT ![w] = @ - 1]
  /\ unloading' = [unloading EXCEPT ![w] = stage[w]]
  /\ stage' = [stage EXCEPT ![w] = NoSession]
  /\ UNCHANGED <<callVars, networkVars, load, held>>

\* The orchestrator has unloaded its model.
UnloadEnds(w) ==
  /\ unloading[w] # NoSession
  /\ held' = [held EXCEPT ![w] = @ \ {unloading[w]}]
  /\ unloading' = [unloading EXCEPT ![w] = NoSession]
  /\ UNCHANGED <<callVars, networkVars, load, stage, unloads>>

-----------------------------------------------------------------------------
\* A replicated session of some node that used w ends.
ReplicaReleases(w) ==
  /\ releases[w] < MaxReleases[w]
  /\ releases' = [releases EXCEPT ![w] = @ + 1]
  /\ wire' = [wire EXCEPT ![w] = Append(@, Msg("release", NoSession))]
  /\ UNCHANGED <<callVars, inbox, link, workerVars>>

\* The connection breaks, and later both ends know.
LinkBreaks(w) ==
  /\ w \in Fragile /\ link[w] # "down"
  /\ link' = [link EXCEPT ![w] = IF @ = "up" THEN "broken" ELSE "down"]
  /\ UNCHANGED <<callVars, inbox, wire, releases, workerVars>>

-----------------------------------------------------------------------------
LoadTask(s, w) == Load(s, w) \/ Store(s, w) \/ Answer(s, w)
UnloadTask(w) == UnloadTakes(w) \/ UnloadEnds(w)

Next ==
  \/ \E s \in Sessions : SetupStarts(s) \/ SendAssign(s) \/ SetupReads(s)
  \/ \E s \in Sessions, w \in Workers : LoadTask(s, w)
  \/ \E w \in Workers : DaemonReceives(w) \/ UnloadTask(w) \/ ReplicaReleases(w) \/ LinkBreaks(w)

Spec == Init /\ [][Next]_vars

\* Tasks are scheduled, loading and unloading end, and the locks of the inbox
\* and of the handler's state, fair ones, pass to every task that waits.
Fairness ==
  /\ \A s \in Sessions : WF_vars(SendAssign(s)) /\ WF_vars(SetupReads(s))
  /\ \A s \in Sessions, w \in Workers : WF_vars(LoadTask(s, w))
  /\ \A w \in Workers : WF_vars(DaemonReceives(w)) /\ WF_vars(UnloadTask(w))
FairSpec == Spec /\ Fairness

-----------------------------------------------------------------------------
ToWorker == [kind : {"assign"}, id : Sessions] \cup [kind : {"release"}, id : {NoSession}]
ToInitiator == [kind : {"ready", "refused"}, id : Sessions, from : Workers]
TaskStates == {"none", "loading", "loaded", "stored", "acked", "refused", "nacked"}

\* Types of the calls, the transport, the daemons' tasks and the handlers; there
\* are unload tasks only where a release came.
TypeOK ==
  /\ setup \in [Sessions -> {"new", "active", "ready", "failed"}]
  /\ sent \in [Sessions -> Nat] /\ \A s \in Sessions : sent[s] <= Len(Plan[s])
  /\ acks \in [Sessions -> Nat]
  /\ disturbed \in [Sessions -> BOOLEAN]
  /\ inbox \in Seq(ToInitiator)
  /\ wire \in [Workers -> Seq(ToWorker)]
  /\ link \in [Workers -> {"up", "broken", "down"}]
  /\ load \in [Sessions -> [Workers -> TaskStates]]
  /\ stage \in [Workers -> Sessions \cup {NoSession}]
  /\ held \in [Workers -> SUBSET Sessions]
  /\ unloads \in [Workers -> Nat] /\ \A w \in Workers : unloads[w] > 0 => releases[w] > 0
  /\ unloading \in [Workers -> Sessions \cup {NoSession}]
  /\ releases \in [Workers -> Nat]

\* The layers of s have been stored on w.
Stored(s, w) == load[s][w] \in {"stored", "acked"}

\* Another session has stored its layers on w.
Overwritten(s, w) == \E q \in Sessions \ {s} : Stored(q, w)

\* CliPipelineHandler: the stage in the handler's state is loaded, and nobody is
\* unloading it.
StageHeld ==
  \A w \in Workers : stage[w] # NoSession => stage[w] \in held[w] /\ unloading[w] # stage[w]

\* setup: "All {} workers ready": every worker of the plan has stored and
\* acknowledged its layers; the ones that no other session and no release came
\* to since still serve them.
ReadyIsLoaded ==
  \A s \in Sessions : setup[s] = "ready" =>
    \A w \in Peers(s) :
      /\ load[s][w] = "acked"
      /\ stage[w] = s \/ Overwritten(s, w) \/ releases[w] > 0

\* load_layers, unload_layers: layers that the orchestrator holds and no state or
\* task names were replaced by another session's: nothing else leaks.
LostOnlyByOverwriting ==
  \A w \in Workers : \A s \in held[w] :
    \/ stage[w] = s \/ unloading[w] = s \/ load[s][w] = "loaded"
    \/ Overwritten(s, w)

\* A call that has the inbox to itself ends, also when a worker refuses, provided
\* that the connections hold and that every worker has a pipeline handler.
UndisturbedSetupEnds ==
  \A s \in Sessions :
    Active(s) ~> \/ ~Active(s) \/ disturbed[s]
                 \/ \E w \in Peers(s) : link[w] # "up" \/ w \notin Pipelining

=============================================================================
