------------------------------ MODULE Pipeline ------------------------------
(***************************************************************************)
(* A model whose layers lie on several peers: PipelineInitiator's setup    *)
(* and stream_tokens with its checkpoints (pipeline/initiator.rs,          *)
(* pipeline/checkpoint.rs), the PipelineWorker that runs on each peer      *)
(* (pipeline/worker.rs), and what a stage does with an activation          *)
(* (CliPipelineHandler::forward_layers, SplittableLlama).                  *)
(*                                                                         *)
(* A worker handles one message after another; it keeps a routing entry    *)
(* for each session but one stage for all of them.  A stage is the layers  *)
(* loaded for a session and the positions in its attention cache.  An      *)
(* activation carries its position and how many stages have computed it as *)
(* a single machine would have.  A connection keeps the order of its       *)
(* messages; messages of different connections overtake each other.        *)
(***************************************************************************)
EXTENDS Naturals, Sequences, FiniteSets

CONSTANTS
  Sessions,    \* initiators, each with its plan
  Workers,     \* peers that run a PipelineWorker with a handler
  Home,        \* session |-> the node its initiator runs on
  Plan,        \* session |-> the workers of its stages, in order
  MaxTokens,   \* session |-> max_tokens
  Interval,    \* CHECKPOINT_INTERVAL
  StoreSize,   \* max_per_session of the checkpoint store
  Fragile,     \* bound: the workers that may end
  NoStage

Homes == {Home[s] : s \in Sessions}
Crew(s) == {Plan[s][i] : i \in DOMAIN Plan[s]}

ASSUME PipelineAssumption ==
  /\ Home \in [Sessions -> Homes]
  /\ Homes \cap Workers = {}
  /\ \A s \in Sessions :
       /\ Plan[s] \in Seq(Workers) /\ Plan[s] # << >>
       /\ \A i, j \in DOMAIN Plan[s] : Plan[s][i] = Plan[s][j] => i = j
  /\ MaxTokens \in [Sessions -> Nat \ {0}]
  /\ Interval \in Nat \ {0} /\ StoreSize \in Nat \ {0}
  /\ Fragile \subseteq Workers

VARIABLES
  call,      \* session |-> where its initiator stands
  count,     \* session |-> workers assigned, acknowledged or released so far
  result,    \* session |-> how it ended
  got,       \* session |-> what each token handed to the caller was sampled from
  gone,      \* session |-> the caller has dropped the channel
  saved,     \* session |-> positions in the checkpoint store, oldest first
  chan,      \* connection |-> messages on their way, in order
  stage,     \* worker |-> the layers its handler holds
  entries,   \* worker |-> sessions it has a routing entry for
  down,      \* workers that have ended
  lost,      \* session |-> a message of it never arrived at a node that runs
  disturbed  \* session |-> another one shared its workers or its inbox

callVars   == <<call, count, result, got, gone, saved>>
workerVars == <<stage, entries>>
vars == <<callVars, chan, workerVars, down, lost, disturbed>>

Links == (Homes \X Workers) \cup (Workers \X Homes) \cup (Workers \X Workers)

\* via: the stages that computed an activation; of an ack, 1 when ready.
Msg(k, s, p, via) == [kind |-> k, id |-> s, pos |-> p, via |-> via]
Stage(s, cache) == [of |-> s, cache |-> cache]

-----------------------------------------------------------------------------
(* Slips a change of the code could make, each the mutant of the definition  *)
(* it is named after                                                         *)

\* The stage that has a next peer is taken for the last one.
OnwardEarly(w, m, via) ==
  [to |-> Home[m.id], msg |-> Msg("logits", m.id, m.pos, via)]

\* A failed forward pass is logged and not reported.
WorkerRefusesSilently(from, w) ==
  /\ chan[<<from, w>>] # << >> /\ Head(chan[<<from, w>>]).kind = "act"
  /\ chan' = [chan EXCEPT ![<<from, w>>] = Tail(@)]
  /\ UNCHANGED <<callVars, workerVars, down, lost, disturbed>>

-----------------------------------------------------------------------------
Init ==
  /\ call = [s \in Sessions |-> "new"]
  /\ count = [s \in Sessions |-> 0]
  /\ result = [s \in Sessions |-> "none"]
  /\ got = [s \in Sessions |-> << >>]
  /\ gone = [s \in Sessions |-> FALSE]
  /\ saved = [s \in Sessions |-> << >>]
  /\ chan = [l \in Links |-> << >>]
  /\ stage = [w \in Workers |-> NoStage]
  /\ entries = [w \in Workers |-> {}]
  /\ down = {}
  /\ lost = [s \in Sessions |-> FALSE]
  /\ disturbed = [s \in Sessions |-> FALSE]

-----------------------------------------------------------------------------
(* Sending.  Nothing arrives at a worker that has ended.  Between two nodes    *)
(* that run the connection may be missing or break: the sender is told, or the *)
(* message is gone with the connection; nobody sends it again.                 *)

Post(c, from, to, m) ==
  IF to \in down THEN c ELSE [c EXCEPT ![<<from, to>>] = Append(@, m)]

Sends(c, from, to, m) ==
  \/ chan' = Post(c, from, to, m) /\ UNCHANGED lost
  \/ chan' = c /\ lost' = [lost EXCEPT ![m.id] = TRUE]

\* The first message of a connection is taken.
Takes(from, to) == [chan EXCEPT ![<<from, to>>] = Tail(@)]

-----------------------------------------------------------------------------
(* The initiator: setup                                                       *)

Under(t) ==
  \/ call[t] \notin {"new", "over"}
  \/ \E l \in Links : \E i \in DOMAIN chan[l] : chan[l][i].id = t

Meet(s, t) == s # t /\ (Home[s] = Home[t] \/ Crew(s) \cap Crew(t) # {})

\* s starts: what is under way for a session it meets can reach it, and it
\* can reach that session.
Disturb(s) ==
  disturbed' = [q \in Sessions |->
    \/ disturbed[q]
    \/ q # s /\ Meet(q, s) /\ Under(q)
    \/ q = s /\ \E t \in Sessions : Meet(s, t) /\ Under(t)]

Over(s, how) ==
  /\ call' = [call EXCEPT ![s] = "over"]
  /\ result' = [result EXCEPT ![s] = how]

\* setup sends the next AssignLayers; a failure it is told ends it.
SendAssign(s) ==
  LET w == Plan[s][count[s] + 1] IN
  /\ call[s] \in {"new", "assigning"}
  /\ IF call[s] = "new" THEN Disturb(s) ELSE UNCHANGED disturbed
  /\ \/ LET last == count[s] + 1 = Len(Plan[s]) IN
        /\ Sends(chan, Home[s], w, Msg("assign", s, 0, 0))
        /\ call' = [call EXCEPT ![s] = IF last THEN "acking" ELSE "assigning"]
        /\ count' = [count EXCEPT ![s] = IF last THEN 0 ELSE @ + 1]
        /\ UNCHANGED result
     \/ /\ Over(s, "failed")
        /\ UNCHANGED <<chan, count, lost>>
  /\ UNCHANGED <<got, gone, saved, workerVars, down>>

\* setup's receive loop counts acknowledgements and drops what is not for it.
SetupReads(s, w) ==
  LET c == chan[<<w, Home[s]>>]
      m == Head(c)
  IN
  /\ call[s] = "acking" /\ c # << >>
  /\ chan' = Takes(w, Home[s])
  /\ \/ /\ m.id = s /\ m.kind = "ack" /\ m.via = 1
        /\ count' = [count EXCEPT ![s] = @ + 1]
        /\ call' = [call EXCEPT ![s] = IF count'[s] = Len(Plan[s]) THEN "ready" ELSE @]
        /\ UNCHANGED result
     \/ /\ m.id = s /\ (m.kind = "error" \/ (m.kind = "ack" /\ m.via = 0))
        /\ Over(s, "failed")
        /\ UNCHANGED count
     \/ /\ m.id # s \/ m.kind = "logits"
        /\ UNCHANGED <<call, count, result>>
  /\ UNCHANGED <<got, gone, saved, workerVars, down, lost, disturbed>>

-----------------------------------------------------------------------------
(* The initiator: stream_tokens                                               *)

\* The loop is left: the checkpoints are cleared, the releases come next.
Leave(s, how) ==
  /\ call' = [call EXCEPT ![s] = "releasing"]
  /\ count' = [count EXCEPT ![s] = 0]
  /\ result' = [result EXCEPT ![s] = how]
  /\ saved' = [saved EXCEPT ![s] = << >>]

\* CheckpointStore::save evicts the oldest when the session has its number.
Saved(s, p) ==
  IF p % Interval # 0 THEN saved[s]
  ELSE Append(IF Len(saved[s]) >= StoreSize THEN Tail(saved[s]) ELSE saved[s], p)

\* The activation of position p is on its way to the first stage, and the
\* loop waits for its logits or is over.
Awaits(s, p) ==
  IF p = MaxTokens[s] THEN Leave(s, "complete")
  ELSE /\ call' = [call EXCEPT ![s] = "waiting"]
       /\ saved' = [saved EXCEPT ![s] = Saved(s, p)]
       /\ UNCHANGED <<count, result>>

\* The prompt is embedded and sent; when either fails nothing is released.
StreamStarts(s) ==
  LET w == Plan[s][1] IN
  /\ call[s] = "ready"
  /\ \/ /\ Sends(chan, Home[s], w, Msg("act", s, 0, 0))
        /\ call' = [call EXCEPT ![s] = "waiting"]
        /\ UNCHANGED <<count, result, saved>>
     \/ /\ Over(s, "failed")
        /\ UNCHANGED <<chan, count, saved, lost>>
  /\ UNCHANGED <<got, gone, workerVars, down, disturbed>>

\* Logits for this session: sample, hand the token on, embed it, save a
\* checkpoint and send the next activation.  Sampling, embedding and sending
\* can fail; the end-of-sequence token is the last.
TakeLogits(s, w, m) ==
  LET p == Len(got[s]) + 1
      first == Plan[s][1]
      c == Takes(w, Home[s])
  IN
  \/ /\ Leave(s, IF gone[s] THEN "dropped" ELSE "failed")
     /\ chan' = c
     /\ UNCHANGED <<got, lost>>
  \/ /\ ~gone[s]
     /\ got' = [got EXCEPT ![s] = Append(@, [pos |-> m.pos, via |-> m.via])]
     /\ \/ (Leave(s, "complete") \/ Leave(s, "failed")) /\ chan' = c /\ UNCHANGED lost
        \/ Awaits(s, p) /\ Sends(c, Home[s], first, Msg("act", s, p, 0))

\* One round of the receive loop: an Error ends it, whatever session it names;
\* the checkpoints are then left where they are.
StreamReads(s, w) ==
  LET c == chan[<<w, Home[s]>>]
      m == Head(c)
  IN
  /\ call[s] = "waiting" /\ c # << >>
  /\ \/ m.id = s /\ m.kind = "logits" /\ TakeLogits(s, w, m)
     \/ /\ m.kind = "error"
        /\ call' = [call EXCEPT ![s] = "releasing"]
        /\ count' = [count EXCEPT ![s] = 0]
        /\ result' = [result EXCEPT ![s] = "error"]
        /\ chan' = Takes(w, Home[s])
        /\ UNCHANGED <<got, saved, lost>>
     \/ /\ m.kind = "ack" \/ (m.kind = "logits" /\ m.id # s)
        /\ chan' = Takes(w, Home[s])
        /\ UNCHANGED <<call, count, result, got, saved, lost>>
  /\ UNCHANGED <<gone, workerVars, down, disturbed>>

\* ReleaseSession to the next worker of the plan; a failure is ignored.
Release(s) ==
  LET w == Plan[s][count[s] + 1] IN
  /\ call[s] = "releasing"
  /\ Sends(chan, Home[s], w, Msg("release", s, 0, 0))
  /\ count' = [count EXCEPT ![s] = @ + 1]
  /\ call' = [call EXCEPT ![s] = IF count'[s] = Len(Plan[s]) THEN "over" ELSE @]
  /\ UNCHANGED <<result, got, gone, saved, workerVars, down, disturbed>>

CallerLeaves(s) ==
  /\ call[s] = "waiting" /\ ~gone[s]
  /\ gone' = [gone EXCEPT ![s] = TRUE]
  /\ UNCHANGED <<call, count, result, got, saved, chan, workerVars, down, lost, disturbed>>

-----------------------------------------------------------------------------
(* The worker's loop                                                          *)

\* load_layers replaces the stage, or fails and leaves it; the entry is made
\* and the assignment acknowledged in either case.
WorkerLoads(from, w) ==
  LET c == chan[<<from, w>>]
      s == Head(c).id
  IN
  /\ c # << >> /\ Head(c).kind = "assign"
  /\ \E ready \in 0 .. 1 :
       /\ stage' = [stage EXCEPT ![w] = IF ready = 1 THEN Stage(s, << >>) ELSE @]
       /\ Sends(Takes(from, w), w, from, Msg("ack", s, 0, ready))
  /\ entries' = [entries EXCEPT ![w] = @ \cup {s}]
  /\ UNCHANGED <<callVars, down, disturbed>>

\* The attention cache after an activation: position 0 starts it anew.
Cached(cache, s, p) ==
  IF p = 0 THEN <<[id |-> s, pos |-> 0]>> ELSE Append(cache, [id |-> s, pos |-> p])

\* What the cache of a machine that computes s alone holds after position p.
Alone(s, p) == [i \in 1 .. p + 1 |-> [id |-> s, pos |-> i - 1]]

\* The stage of a worker in the plan of a session, which its routing entry knows.
Place(w, s) == CHOOSE i \in DOMAIN Plan[s] : Plan[s][i] = w

\* Where the routing entry sends the output of a stage, and as what: the last
\* stage answers the initiator, the others their next peer.
Onward(w, m, via) ==
  LET i == Place(w, m.id) IN
  IF i = Len(Plan[m.id])
  THEN [to |-> Home[m.id], msg |-> Msg("logits", m.id, m.pos, via)]
  ELSE [to |-> Plan[m.id][i + 1], msg |-> Msg("act", m.id, m.pos, via)]

\* forward_partial: the stage's layers compute what the next ones need when they
\* are those of the session, with its cache, and the ones before have.
Computed(w, m, cache) ==
  IF stage[w].of = m.id /\ cache = Alone(m.id, m.pos) /\ m.via + 1 = Place(w, m.id)
  THEN m.via + 1
  ELSE 0

\* forward_layers runs the stage there is, whosever it is; without a routing
\* entry the output is dropped.
WorkerForwards(from, w) ==
  LET c == chan[<<from, w>>]
      m == Head(c)
      cache == Cached(stage[w].cache, m.id, m.pos)
      out == Onward(w, m, Computed(w, m, cache))
  IN
  /\ c # << >> /\ m.kind = "act"
  /\ stage[w] # NoStage
  /\ stage' = [stage EXCEPT ![w].cache = cache]
  /\ IF m.id \in entries[w] THEN Sends(Takes(from, w), w, out.to, out.msg)
     ELSE chan' = Takes(from, w) /\ UNCHANGED lost
  /\ UNCHANGED <<callVars, entries, down, disturbed>>

\* A forward pass that fails is reported to the initiator of the entry.
WorkerRefuses(from, w) ==
  LET c == chan[<<from, w>>]
      m == Head(c)
  IN
  /\ c # << >> /\ m.kind = "act"
  /\ IF m.id \in entries[w]
     THEN Sends(Takes(from, w), w, Home[m.id], Msg("error", m.id, 0, 0))
     ELSE chan' = Takes(from, w) /\ UNCHANGED lost
  /\ UNCHANGED <<callVars, workerVars, down, disturbed>>

\* A release unloads the stage there is, whosever it is.
WorkerReleases(from, w) ==
  LET c == chan[<<from, w>>] IN
  /\ c # << >> /\ Head(c).kind = "release"
  /\ chan' = Takes(from, w)
  /\ stage' = [stage EXCEPT ![w] = NoStage]
  /\ entries' = [entries EXCEPT ![w] = @ \ {Head(c).id}]
  /\ UNCHANGED <<callVars, down, lost, disturbed>>

\* The process of a worker ends, and nobody is told.
WorkerEnds(w) ==
  /\ w \in Fragile \ down
  /\ down' = down \cup {w}
  /\ chan' = [l \in Links |-> IF l[2] = w THEN << >> ELSE chan[l]]
  /\ stage' = [stage EXCEPT ![w] = NoStage]
  /\ entries' = [entries EXCEPT ![w] = {}]
  /\ UNCHANGED <<callVars, lost, disturbed>>

-----------------------------------------------------------------------------
WorkerHandles(w) ==
  \E from \in Homes \cup Workers :
    /\ <<from, w>> \in Links
    /\ \/ WorkerLoads(from, w) \/ WorkerForwards(from, w)
       \/ WorkerRefuses(from, w) \/ WorkerReleases(from, w)

Initiates(s) ==
  \/ SendAssign(s) \/ StreamStarts(s) \/ Release(s)
  \/ \E w \in Workers : SetupReads(s, w) \/ StreamReads(s, w)

Next ==
  \/ \E s \in Sessions : Initiates(s) \/ CallerLeaves(s)
  \/ \E w \in Workers : WorkerHandles(w) \/ WorkerEnds(w)

Spec == Init /\ [][Next]_vars

\* Tasks that can run are scheduled; loads and forward passes end.
FairSpec ==
  /\ Spec
  /\ \A s \in Sessions : WF_vars(Initiates(s))
  /\ \A w \in Workers : WF_vars(WorkerHandles(w))

-----------------------------------------------------------------------------
(* Properties                                                                 *)

\* The n-th token of a session that nothing disturbed was sampled from the
\* logits of the n-th activation, which went through every stage of the plan
\* with an attention cache of exactly the positions before it -- although
\* stream_tokens does not look at the position of the logits it takes.
UndisturbedIsComputed ==
  \A s \in Sessions : ~disturbed[s] =>
    \A n \in DOMAIN got[s] : got[s][n] = [pos |-> n - 1, via |-> Len(Plan[s])]

\* A session whose workers live, that lost no message and that nothing disturbs
\* ends, whatever loads and forward passes fail: the receive loops wait without
\* a time-out, and a worker that cannot send its acknowledgement, its activation,
\* its logits or its error only logs that.  One that streamed leaves no routing
\* entry at its workers, and no checkpoint either unless an Error ended it.
UndisturbedPipelineEnds ==
  \A s \in Sessions :
    call[s] # "new" ~>
      \/ disturbed[s] \/ Crew(s) \cap down # {} \/ lost[s]
      \/ /\ call[s] = "over"
         /\ result[s] # "failed" => \A w \in Crew(s) : s \notin entries[w]
         /\ result[s] # "error" => saved[s] = << >>

=============================================================================
