------------------------------- MODULE Serving -------------------------------
(***************************************************************************)
(* The HTTP server of `hivebear serve` and `hivebear run --api`            *)
(* (cli/src/api/mod.rs, cli/src/api/ollama.rs): the map from names to      *)
(* loaded models, the calls that answer a chat, pull a model, delete one   *)
(* and list them, and the client, which may go away at any await of its    *)
(* call.  The OpenAI and the Ollama routes differ in wording only.  What   *)
(* starts the server, and what uses the same orchestrator from a terminal, *)
(* is in Commands.                                                         *)
(*                                                                         *)
(* The registry is a set of installed names here: Registry and Download    *)
(* say what an installation does.                                          *)
(***************************************************************************)
EXTENDS Inference

CONSTANTS
  Local,    \* names of local models
  Cloud,    \* names of models of a cloud provider
  Key,      \* the server asks for an API key
  NoName, NoCall

ASSUME ServingAssumption ==
  /\ NoName \notin Local \cup Cloud /\ NoCall \notin Calls
  /\ Local \cap Cloud = {} /\ Key \in BOOLEAN

Names == Local \cup Cloud
\* What a client asks, whether it wants the answer streamed, and of which model.
Requests == {"chat", "pull", "delete", "list", "tags"} \X BOOLEAN \X (Names \cup {NoName})

VARIABLES
  server,   \* whether it is open and has a registry, its default_model, and, as a
            \* bound, call |-> the requests it may be
  call,     \* call |-> its request and where it stands
  models,   \* name |-> handle, or 0
  writer,   \* the call that holds the map's write lock over an await, or NoCall
  disk,     \* names installed
  got,      \* call |-> tokens the client has received
  notes     \* call |-> the lines a pull's first task has yet to send

callVars == <<call, models, writer, disk, got, notes>>
servingVars == <<inferenceVars, callVars, server>>

None == [op |-> "none", name |-> NoName, streamed |-> FALSE, at |-> "new",
         handle |-> 0, engine |-> NoEngine, result |-> "none"]

ServingInit ==
  /\ InferenceInit
  /\ call = [c \in Calls |-> None]
  /\ models = [n \in Names |-> 0]
  /\ writer = NoCall
  /\ disk \in SUBSET Local
  /\ got = [c \in Calls |-> 0]
  /\ notes = [c \in Calls |-> 0]

At(c, place) == call[c].at = place
Go(c, place) == call' = [call EXCEPT ![c].at = place]
GoWith(c, place, h) == call' = [call EXCEPT ![c].at = place, ![c].handle = h]
Over(c) == At(c, "over")
\* The call is over; what it knew is forgotten, but for what its task may need.
End(c, how) ==
  call' = [call EXCEPT ![c] = [None EXCEPT !.at = "over", !.name = call[c].name,
                                           !.engine = call[c].engine, !.result = how]]
Listed == {n \in Names : models[n] # 0}

\* Nobody has the map locked for writing, or for reading over an await.
MayRead == writer = NoCall
MayWrite == writer = NoCall /\ \A c \in Calls : ~At(c, "tags")

-----------------------------------------------------------------------------
(* Slips a change of the code could make                                     *)

\* The handle is looked up and not removed.
DeleteKeeps(c) ==
  /\ At(c, "delete") /\ MayWrite
  /\ IF models[call[c].name] = 0 THEN Go(c, "remove") /\ UNCHANGED writer
     ELSE GoWith(c, "unload", models[call[c].name]) /\ writer' = c
  /\ UNCHANGED <<inferenceVars, models, disk, got, notes>>


-----------------------------------------------------------------------------
(* The handlers begin                                                      *)

May(c, op, n, s) == server.open /\ At(c, "new") /\ <<op, s, n>> \in server.asks[c]
Asked(c, op, n, s, place) ==
  call' = [call EXCEPT ![c] = [@ EXCEPT !.op = op, !.name = n, !.streamed = s, !.at = place]]

\* auth_middleware: no key, or another one.
Refused(c) ==
  /\ Key /\ server.open /\ At(c, "new") /\ server.asks[c] # {}
  /\ End(c, "error")
  /\ UNCHANGED <<inferenceVars, models, writer, disk, got, notes>>

\* A chat of the model it names, or of the server's default_model.
Chat(c) == \E n \in Names, s \in BOOLEAN :
  /\ \/ May(c, "chat", n, s)
     \/ May(c, "chat", NoName, s) /\ server.default = n
  /\ Asked(c, "chat", n, s, "look")
  /\ UNCHANGED <<inferenceVars, models, writer, disk, got, notes>>

\* With neither: of the only model that is loaded.
ChatAny(c) == \E s \in BOOLEAN :
  /\ May(c, "chat", NoName, s) /\ server.default = NoName /\ MayRead
  /\ \/ \E n \in Listed :
          /\ Listed = {n}
          /\ call' = [call EXCEPT ![c] = [@ EXCEPT !.op = "chat", !.streamed = s, !.name = n,
                                                 !.handle = models[n], !.at = "dispatch"]]
     \/ Cardinality(Listed) # 1 /\ End(c, "error")
  /\ UNCHANGED <<inferenceVars, models, writer, disk, got, notes>>

\* Ollama's routes have a model's name always.
OllamaChat(c) == \E n \in Names, s \in BOOLEAN :
  /\ May(c, "chat", n, s)
  /\ Asked(c, "chat", n, s, "look")
  /\ UNCHANGED <<inferenceVars, models, writer, disk, got, notes>>
OllamaGenerate(c) == OllamaChat(c)

\* ollama_pull: nothing to do for a model that is installed; else the download
\* is a task of its own if the answer is streamed, and another names it.
Pull(c) == \E n \in Names, s \in BOOLEAN :
  /\ May(c, "pull", n, s)
  /\ IF ~server.registry \/ n \in disk
     THEN /\ End(c, IF server.registry THEN "ok" ELSE "error")
          /\ UNCHANGED <<inferenceVars, notes>>
     ELSE /\ Asked(c, "pull", n, s, IF s THEN "follow" ELSE "pull")
          /\ notes' = [notes EXCEPT ![c] = IF s THEN 2 ELSE 0]
          /\ job' = [job EXCEPT ![c] = IF s THEN "pulling" ELSE "none"]
          /\ listens' = [listens EXCEPT ![c] = s]
          /\ UNCHANGED <<tables, meshPeers, held, chan, made>>
  /\ UNCHANGED <<models, writer, disk, got>>

Delete(c) == \E n \in Names :
  /\ May(c, "delete", n, FALSE)
  /\ Asked(c, "delete", n, FALSE, "delete")
  /\ UNCHANGED <<inferenceVars, models, writer, disk, got, notes>>

\* The names in the map, and the providers with a key; ollama_ps, the names.
ListModels(c) ==
  /\ May(c, "list", NoName, FALSE) /\ MayRead
  /\ End(c, "ok")
  /\ UNCHANGED <<inferenceVars, models, writer, disk, got, notes>>
OllamaPs(c) == ListModels(c)

\* What the registry knows of a model, without a look at the map.
OllamaShow(c) ==
  /\ May(c, "list", NoName, FALSE) /\ End(c, "ok")
  /\ UNCHANGED <<inferenceVars, models, writer, disk, got, notes>>

\* ollama_tags keeps the map locked while it asks the registry what is installed.
OllamaTags(c) ==
  /\ May(c, "tags", NoName, FALSE) /\ MayRead
  /\ Asked(c, "tags", NoName, FALSE, IF server.registry THEN "tags" ELSE "over")
  /\ UNCHANGED <<inferenceVars, models, writer, disk, got, notes>>
TagsEnd(c) ==
  /\ At(c, "tags") /\ End(c, "ok")
  /\ UNCHANGED <<inferenceVars, models, writer, disk, got, notes>>

-----------------------------------------------------------------------------
(* resolve_model                                                           *)

\* A model that is loaded, found under the read lock.
Look(c) ==
  /\ At(c, "look") /\ MayRead
  /\ IF models[call[c].name] # 0 THEN GoWith(c, "dispatch", models[call[c].name])
     ELSE Go(c, "resolve")
  /\ UNCHANGED <<inferenceVars, models, writer, disk, got, notes>>

\* A cloud model: load_cloud, which fails without the provider's key.
ResolveCloud(c) ==
  /\ At(c, "resolve") /\ call[c].name \in Cloud
  /\ \/ CloudLoads(c) /\ GoWith(c, "insert", counter + 1)
     \/ End(c, "error") /\ UNCHANGED inferenceVars
  /\ UNCHANGED <<models, writer, disk, got, notes>>

\* The registry's file, or a download of it; then load is called.
Resolve(c) ==
  /\ At(c, "resolve") /\ call[c].name \in Local
  /\ \/ /\ server.registry
        /\ Go(c, "load")
        /\ job' = [job EXCEPT ![c] = "reading"]
        /\ disk' = disk \cup {call[c].name}
     \/ /\ ~server.registry \/ call[c].name \notin disk
        /\ End(c, "error")
        /\ UNCHANGED <<job, disk>>
  /\ UNCHANGED <<tables, meshPeers, held, chan, made, listens, models, writer, got, notes>>

\* Orchestrator::load: the local engine's answer, or the mesh's.
LoadFallsBack(c) ==
  /\ At(c, "load") /\ job[c] = "refused"
  /\ \/ HasPeer /\ MeshLoads(c) /\ Go(c, "load")
     \/ End(c, "error") /\ UNCHANGED inferenceVars
  /\ UNCHANGED <<models, writer, disk, got, notes>>
LoadTracks(c) ==
  /\ At(c, "load") /\ job[c] \in {"loaded", "meshed"}
  /\ Track(c)
  /\ GoWith(c, "insert", held[c])
  /\ UNCHANGED <<models, writer, disk, got, notes>>

\* The handle takes the place of what another call entered meanwhile.
InsertModel(c) ==
  /\ At(c, "insert") /\ MayWrite
  /\ models' = [models EXCEPT ![call[c].name] = call[c].handle]
  /\ Go(c, "dispatch")
  /\ UNCHANGED <<inferenceVars, writer, disk, got, notes>>

-----------------------------------------------------------------------------
(* The answer                                                              *)

Dispatch(c) ==
  /\ At(c, "dispatch")
  /\ IF Dispatches(call[c].handle)
     THEN call' = [call EXCEPT ![c].at = "start", ![c].engine = backends[call[c].handle]]
     ELSE End(c, "refused")
  /\ UNCHANGED <<inferenceVars, models, writer, disk, got, notes>>

Begin(c) ==
  /\ At(c, "start")
  /\ Start(c, call[c].handle, call[c].engine, call[c].streamed)
  /\ Go(c, IF call[c].streamed THEN "stream" ELSE "collect")
  /\ UNCHANGED <<models, writer, disk, got, notes>>

\* The text of an answer that is not streamed.
Collect(c) ==
  /\ At(c, "collect") /\ Stopped(c)
  /\ End(c, IF job[c] = "ended" THEN "ok" ELSE "error")
  /\ job' = [job EXCEPT ![c] = "none"]
  /\ UNCHANGED <<tables, meshPeers, held, chan, made, listens, models, writer, disk, got, notes>>

\* A chunk for each token; for an error, the one that says the answer is over.
Chunk(c) ==
  /\ At(c, "stream") /\ chan[c] # << >>
  /\ chan' = [chan EXCEPT ![c] = Tail(@)]
  /\ IF Head(chan[c]) = "token"
     THEN got' = [got EXCEPT ![c] = @ + 1] /\ UNCHANGED call
     ELSE call' = [call EXCEPT ![c].result = "error"] /\ UNCHANGED got
  /\ UNCHANGED <<tables, meshPeers, job, held, made, listens, models, writer, disk, notes>>

\* All senders are gone and the channel is empty.
EndSeen(c) == chan[c] = << >> /\ Stopped(c) /\ notes[c] = 0

\* Then the chained chunk that says so, and [DONE], whether it was an error or not.
LastChunk(c) ==
  /\ At(c, "stream") /\ EndSeen(c)
  /\ End(c, IF call[c].result = "none" THEN "ok" ELSE call[c].result)
  /\ got' = [got EXCEPT ![c] = 0]
  /\ job' = [job EXCEPT ![c] = "none"] /\ made' = [made EXCEPT ![c] = 0]
  /\ listens' = [listens EXCEPT ![c] = FALSE]
  /\ UNCHANGED <<tables, meshPeers, held, chan, models, writer, disk, notes>>

-----------------------------------------------------------------------------
(* Pulling                                                                 *)

PullInstalls(c) ==
  /\ At(c, "pull")
  /\ \/ disk' = disk \cup {call[c].name} /\ End(c, "ok")
     \/ End(c, "error") /\ UNCHANGED disk
  /\ UNCHANGED <<inferenceVars, models, writer, got, notes>>

\* The task that names the steps, and its errors when the client is gone.
PullNotes(c) ==
  /\ notes[c] > 0 /\ (listens[c] => Len(chan[c]) < Cap)
  /\ notes' = [notes EXCEPT ![c] = @ - 1]
  /\ chan' = IF listens[c] THEN [chan EXCEPT ![c] = Append(@, "note")] ELSE chan
  /\ UNCHANGED <<tables, meshPeers, job, held, made, listens, call, models, writer, disk, got>>

\* The progress of the download, dropped when the channel is full.
PullProgress(c) ==
  /\ job[c] = "pulling" /\ listens[c]
  /\ Len(chan[c]) < Cap /\ made[c] < MaxTokens
  /\ made' = [made EXCEPT ![c] = @ + 1]
  /\ chan' = [chan EXCEPT ![c] = Append(@, "note")]
  /\ UNCHANGED <<tables, meshPeers, job, held, listens, callVars>>

\* Its outcome, once there is room.
PullOutcome(c, how) ==
  /\ listens[c] => Len(chan[c]) < Cap
  /\ job' = [job EXCEPT ![c] = how]
  /\ chan' = IF listens[c] THEN [chan EXCEPT ![c] = Append(@, how)] ELSE chan
  /\ UNCHANGED <<tables, meshPeers, held, made, listens>>
PullEnds(c) ==
  /\ job[c] = "pulling"
  /\ \/ PullOutcome(c, "ended") /\ disk' = disk \cup {call[c].name}
     \/ PullOutcome(c, "failed") /\ UNCHANGED disk
  /\ UNCHANGED <<call, models, writer, got, notes>>

\* The client takes a line of it, and learns the outcome from the one that says it.
PullLine(c) ==
  /\ At(c, "follow") /\ chan[c] # << >>
  /\ chan' = [chan EXCEPT ![c] = Tail(@)]
  /\ call' = [call EXCEPT ![c].result =
                CASE Head(chan[c]) = "ended" -> "ok"
                  [] Head(chan[c]) = "failed" -> "error"
                  [] OTHER -> @]
  /\ UNCHANGED <<tables, meshPeers, job, held, made, listens, models, writer, disk, got, notes>>
LastLine(c) ==
  /\ At(c, "follow") /\ EndSeen(c)
  /\ End(c, call[c].result)
  /\ listens' = [listens EXCEPT ![c] = FALSE]
  /\ UNCHANGED <<tables, meshPeers, jobs, models, writer, disk, got, notes>>

-----------------------------------------------------------------------------
(* Deleting                                                                *)

\* The entry leaves the map, whose write lock is kept while the model is unloaded.
TakeOut(c) ==
  /\ At(c, "delete") /\ MayWrite
  /\ IF models[call[c].name] = 0 THEN Go(c, "remove") /\ UNCHANGED <<writer, models>>
     ELSE /\ GoWith(c, "unload", models[call[c].name])
          /\ writer' = c
          /\ models' = [models EXCEPT ![call[c].name] = 0]
  /\ UNCHANGED <<inferenceVars, disk, got, notes>>

\* Orchestrator::unload, whose error is only logged.
Unload(c) ==
  /\ At(c, "unload")
  /\ IF Dispatches(call[c].handle)
     THEN /\ call' = [call EXCEPT ![c].at = "forget", ![c].engine = backends[call[c].handle]]
          /\ UNCHANGED writer
     ELSE Go(c, "remove") /\ writer' = NoCall
  /\ UNCHANGED <<inferenceVars, models, disk, got, notes>>
UnloadEngine(c) ==
  /\ At(c, "forget") /\ EngineForgets(call[c].handle, call[c].engine) /\ Go(c, "untrack")
  /\ UNCHANGED <<models, writer, disk, got, notes>>
UnloadEnds(c) ==
  /\ At(c, "untrack") /\ Untrack(call[c].handle) /\ Go(c, "remove")
  /\ writer' = NoCall
  /\ UNCHANGED <<models, disk, got, notes>>

\* Registry::remove, an error for a name it does not know.
Remove(c) ==
  LET removed == IF server.registry THEN disk \cap {call[c].name} ELSE {} IN
  /\ At(c, "remove")
  /\ disk' = disk \ removed
  /\ End(c, IF removed = {} THEN "error" ELSE "ok")
  /\ UNCHANGED <<inferenceVars, models, writer, got, notes>>

-----------------------------------------------------------------------------
(* The client closes its connection: the handler's future, or the body it      *)
(* returned, is dropped at the await where it stands.                          *)

Awaits == {"look", "resolve", "load", "insert", "stream", "collect", "pull", "follow",
           "delete", "remove", "tags"}
ClientLeaves(c) ==
  /\ call[c].at \in Awaits
  /\ End(c, "error")
  /\ listens' = [listens EXCEPT ![c] = FALSE]
  /\ chan' = [chan EXCEPT ![c] = << >>]
  /\ got' = [got EXCEPT ![c] = 0]
  /\ UNCHANGED <<tables, meshPeers, job, held, made, models, writer, disk, notes>>

-----------------------------------------------------------------------------
Ask(c) ==
  \/ Refused(c) \/ Chat(c) \/ ChatAny(c) \/ OllamaChat(c) \/ OllamaGenerate(c)
  \/ Pull(c) \/ Delete(c) \/ ListModels(c) \/ OllamaPs(c) \/ OllamaShow(c) \/ OllamaTags(c)

HandlerStep(c) ==
  \/ Look(c) \/ ResolveCloud(c) \/ Resolve(c) \/ LoadFallsBack(c) \/ LoadTracks(c) \/ InsertModel(c)
  \/ Dispatch(c) \/ Begin(c) \/ Collect(c) \/ Chunk(c) \/ LastChunk(c)
  \/ PullInstalls(c) \/ PullLine(c) \/ LastLine(c) \/ TagsEnd(c)
  \/ TakeOut(c) \/ Unload(c) \/ UnloadEngine(c) \/ UnloadEnds(c) \/ Remove(c)

TaskStep(c) ==
  \/ JobStep(c) /\ UNCHANGED callVars
  \/ PullNotes(c) \/ PullProgress(c) \/ PullEnds(c)

\* The call has been answered, and no task of it is left.
Done(c) == Over(c) /\ job[c] \notin {"reading", "generating", "pulling"}
=============================================================================
