------------------------------ MODULE Commands ------------------------------
(***************************************************************************)
(* The programs around an orchestrator (cli/src/main.rs): `hivebear        *)
(* serve`, which loads the models it is told to and opens the server of    *)
(* Serving; `hivebear run --api`, which opens it over one model and has no *)
(* registry; `hivebear run`, `hivebear quickstart` and the local chat that *)
(* `hivebear mesh run` falls back to, which load one model and chat on the *)
(* terminal; and `hivebear benchmark --model`, which asks it one prompt    *)
(* again and again.  The program's own load and turns are the call Main,   *)
(* whose steps are those of every call; the other calls are requests.      *)
(***************************************************************************)
EXTENDS Serving

CONSTANTS
  Main,      \* the call of the program itself
  Asks,      \* bound: the program and the model it is given |-> call |-> the requests it may be
  Attempts,  \* ports bind_with_fallback tries
  MaxTurns   \* bound: turns of the chat on the terminal

ASSUME CommandsAssumption ==
  /\ Main \in Calls
  /\ DOMAIN Asks \subseteq {"serve", "api", "run", "quickstart", "fallback", "benchmark"}
                            \X (Names \cup {NoName})
  /\ \A s \in DOMAIN Asks :
       /\ s[2] = NoName => s[1] = "serve"
       /\ s[1] = "quickstart" => s[2] \in Local
       /\ Asks[s] \in [Calls -> SUBSET Requests] /\ Asks[s][Main] = {}
  /\ Attempts \in Nat \ {0} /\ MaxTurns \in Nat

VARIABLE main  \* the program, the model it was given, where it stands, its ports and turns


CommandsInit ==
  /\ ServingInit
  /\ \E s \in DOMAIN Asks :
       /\ server = [open |-> FALSE, registry |-> FALSE, default |-> NoName, asks |-> Asks[s]]
       /\ main = [program |-> s[1], name |-> s[2], at |-> "start", handle |-> 0,
                  tried |-> 0, turns |-> 0]

Stands(place) == main.at = place
Goes(place) == main' = [main EXCEPT !.at = place]
Serves == main.program \in {"serve", "api"}

\* A mesh backend is registered (create_orchestrator), or none (with_config).
HasMesh == main.program \in {"serve", "quickstart", "fallback"}

-----------------------------------------------------------------------------
(* Slips a change of the code could make                                     *)


-----------------------------------------------------------------------------
(* The model that was asked for                                             *)

\* Main loads the file: nothing is there for a name registry_commands::
\* resolve_model does not know, and the load is refused without a fallback.
LoadsFile ==
  /\ Asked(Main, "boot", main.name, FALSE, "load")
  /\ job' = [job EXCEPT ![Main] = "reading"]
  /\ UNCHANGED <<tables, meshPeers, held, chan, made, listens>>

\* cmd_serve goes on without a model that it cannot load, a cloud model among them.
ServeStarts ==
  /\ Stands("start") /\ main.program = "serve"
  /\ IF main.name \in disk THEN LoadsFile /\ Goes("load")
     ELSE Goes("bind") /\ UNCHANGED <<inferenceVars, call>>
  /\ UNCHANGED <<server, models, writer, disk, got, notes>>

\* cmd_run: of a cloud provider, if it has a key, or a file.
RunStarts ==
  /\ Stands("start") /\ main.program \in {"run", "api"}
  /\ \/ /\ main.name \in Cloud
        /\ CloudLoads(Main) /\ GoWith(Main, "insert", counter + 1)
        /\ Goes("load")
     \/ main.name \in disk /\ LoadsFile /\ Goes("load")
     \/ main.name \notin disk /\ Goes("down") /\ UNCHANGED <<inferenceVars, call>>
  /\ UNCHANGED <<server, models, writer, disk, got, notes>>

\* cmd_quickstart: a model it recommends, installed first if it is not there.
QuickstartStarts ==
  /\ Stands("start") /\ main.program = "quickstart"
  /\ \/ /\ LoadsFile /\ Goes("load")
        /\ disk' = disk \cup {main.name}
     \/ Goes("down") /\ UNCHANGED <<inferenceVars, call, disk>>
  /\ UNCHANGED <<server, models, writer, got, notes>>

\* cmd_mesh_run, cmd_benchmark: a file, cloud models are not known.
OthersStart ==
  /\ Stands("start") /\ main.program \in {"fallback", "benchmark"}
  /\ IF main.name \in disk THEN LoadsFile /\ Goes("load")
     ELSE Goes("down") /\ UNCHANGED <<inferenceVars, call>>
  /\ UNCHANGED <<server, models, writer, disk, got, notes>>

\* Main's load is over: with a handle,
Loaded ==
  /\ Stands("load") /\ At(Main, "insert")
  /\ End(Main, "none")
  /\ models' = IF Serves THEN [models EXCEPT ![main.name] = call[Main].handle] ELSE models
  /\ server' = IF Serves THEN [server EXCEPT !.default = main.name] ELSE server
  /\ main' = IF Serves THEN [main EXCEPT !.at = "bind"]
             ELSE [main EXCEPT !.at = "prompt", !.handle = call[Main].handle]
  /\ UNCHANGED <<inferenceVars, writer, disk, got, notes>>

\* or without, and only serve goes on.
NotLoaded ==
  /\ Stands("load") /\ Over(Main)
  /\ Goes(IF main.program = "serve" THEN "bind" ELSE "down")
  /\ UNCHANGED <<inferenceVars, callVars, server>>

-----------------------------------------------------------------------------
(* The server                                                               *)

\* start_server makes a registry for serve, if it can, and the port is free,
Opens ==
  /\ Stands("bind") /\ main.tried < Attempts
  /\ \E r \in BOOLEAN :
       /\ r => main.program = "serve"
       /\ server' = [server EXCEPT !.open = TRUE, !.registry = r]
  /\ main' = [main EXCEPT !.at = "open", !.name = NoName, !.tried = 0]
  /\ UNCHANGED <<inferenceVars, callVars>>

\* or in use, so that the next is tried.
Busy ==
  /\ Stands("bind") /\ main.tried < Attempts
  /\ main' = [main EXCEPT !.tried = @ + 1]
  /\ UNCHANGED <<inferenceVars, callVars, server>>

\* All are in use, or the address cannot be bound.
GivesUp ==
  /\ Stands("bind")
  /\ main' = [main EXCEPT !.at = "down", !.name = NoName, !.tried = 0]
  /\ UNCHANGED <<inferenceVars, callVars, server>>

-----------------------------------------------------------------------------
(* The chat on the terminal                                                 *)

Turn ==
  /\ Stands("prompt") /\ main.turns < MaxTurns
  /\ main' = [main EXCEPT !.at = "turn", !.turns = @ + 1]
  /\ call' = [call EXCEPT ![Main] = [@ EXCEPT !.op = "turn", !.streamed = TRUE, !.at = "dispatch",
                                               !.handle = main.handle, !.result = "none"]]
  /\ UNCHANGED <<inferenceVars, server, models, writer, disk, got, notes>>

\* A line the user types: it is asked with the history before it.
TurnBegins == main.program # "benchmark" /\ Turn

\* run_inference_benchmark: warm-ups and iterations, which a stream's error does not
\* end, but a stream that cannot be had does.
Iterates == main.program = "benchmark" /\ call[Main].result # "refused" /\ Turn

\* The reply was printed, whole or up to an error, or could not be asked for.
TurnEnds ==
  /\ Stands("turn") /\ Over(Main) /\ Goes("prompt")
  /\ UNCHANGED <<inferenceVars, callVars, server>>

\* The model is unloaded, but by mesh run's fallback, which just ends: after /quit or
\* the single prompt,
Quits ==
  /\ Stands("prompt") /\ main.program # "benchmark"
  /\ IF main.program = "fallback" THEN Goes("down") /\ UNCHANGED call
     ELSE GoWith(Main, "unload", main.handle) /\ Goes("closing")
  /\ UNCHANGED <<inferenceVars, server, models, writer, disk, got, notes>>

\* or after the last iteration.
BenchmarkEnds ==
  /\ Stands("prompt") /\ main.program = "benchmark"
  /\ main.turns = MaxTurns \/ call[Main].result = "refused"
  /\ GoWith(Main, "unload", main.handle) /\ Goes("closing")
  /\ UNCHANGED <<inferenceVars, server, models, writer, disk, got, notes>>
Closes ==
  /\ Stands("closing") /\ At(Main, "remove")
  /\ End(Main, "none") /\ Goes("down")
  /\ UNCHANGED <<inferenceVars, server, models, writer, disk, got, notes>>

-----------------------------------------------------------------------------
\* The steps of a handler that are Main's, too.
MainStep ==
  \/ (LoadFallsBack(Main) \/ LoadTracks(Main)
      \/ Dispatch(Main) \/ Begin(Main) \/ Chunk(Main) \/ LastChunk(Main)
      \/ Unload(Main) \/ UnloadEngine(Main) \/ UnloadEnds(Main))
     /\ UNCHANGED <<server, main>>
  \/ ServeStarts \/ RunStarts \/ QuickstartStarts \/ OthersStart \/ Loaded \/ NotLoaded
  \/ Opens \/ Busy \/ GivesUp \/ Iterates \/ TurnEnds \/ BenchmarkEnds \/ Closes

RequestStep(c) == c # Main /\ HandlerStep(c) /\ UNCHANGED <<server, main>>
Client(c) == c # Main /\ (Ask(c) \/ ClientLeaves(c)) /\ UNCHANGED <<server, main>>
Task(c) == TaskStep(c) /\ UNCHANGED <<server, main>>

AtRest == \/ main.at \in {"open", "down"}
          \/ main.at = "prompt" /\ main.program # "benchmark"
AllDone == AtRest /\ \A c \in Calls : At(c, "new") \/ Done(c)

CommandsNext ==
  \/ MainStep \/ TurnBegins \/ Quits
  \/ \E c \in Calls : RequestStep(c) \/ Client(c) \/ Task(c)
  \/ HasMesh /\ PeersChange /\ UNCHANGED <<callVars, server, main>>
  \/ AllDone /\ UNCHANGED <<servingVars, main>>

CommandsSpec == CommandsInit /\ [][CommandsNext]_<<servingVars, main>>

\* Without a time-out a call waits for the registry, which may wait for Hugging Face,
RegistryOwes(c) ==
  \/ /\ server.registry /\ c # Main
     /\ \/ call[c].at \in {"pull", "tags", "remove"}
        \/ At(c, "resolve") /\ call[c].name \in Local
  \/ job[c] = "pulling"
  \/ c = Main /\ Stands("start") /\ main.program = "quickstart" /\ main.name \notin disk
\* for a peer or a provider that generates the answer,
EngineOwes(c) == job[c] = "generating" /\ call[c].engine # "local"
\* and for its client to read the next line of it, or the end.
ClientOwes(c) == c # Main /\ call[c].at \in {"stream", "follow"} /\ (chan[c] # << >> \/ EndSeen(c))
Owed(c) == RegistryOwes(c) \/ EngineOwes(c) \/ ClientOwes(c)

\* Programs and handlers that are owed nothing are polled, blocking threads run, and a
\* generation on this machine ends.
FairCommandsSpec ==
  /\ CommandsSpec /\ WF_<<servingVars, main>>(~Owed(Main) /\ MainStep)
  /\ \A c \in Calls : /\ WF_<<servingVars, main>>(~Owed(c) /\ RequestStep(c))
                      /\ WF_<<servingVars, main>>(~Owed(c) /\ Task(c))

-----------------------------------------------------------------------------

\* resolve_model, ollama_delete: a name the server lists, and hands out without
\* loading anything, is of a model the orchestrator can dispatch to and its
\* engine holds, and no two names share a model.
ListedIsServed ==
  \A n \in Listed :
    /\ backends[models[n]] # NoEngine /\ models[n] \in info
    /\ backends[models[n]] = "local" => models[n] \in loaded
    /\ \A m \in Listed : models[m] = models[n] => m = n

\* stream_response, cmd_run: an answer that ends without an error is whole, whatever
\* was loaded, pulled or deleted while it was generated.
AnswerIsWhole == [][
  \A c \in Calls : At(c, "stream") /\ call'[c].at = "over" /\ call'[c].result = "ok" =>
    got[c] = made[c] /\ job[c] = "ended"]_<<servingVars, main>>

\* chat_completions, ollama_pull, ollama_delete, cmd_serve, cmd_run: if what is outside
\* the program keeps no call waiting for ever, every request is answered, a program
\* comes up or gives up, every turn of a terminal's chat ends, and so does every task
\* that any of them started: nothing inside waits for what has gone, and no call for
\* another that waits for it.
AnsweredCallsEnd == (\A c \in Calls : []<>~Owed(c)) => <>[]AllDone
=============================================================================
