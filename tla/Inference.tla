------------------------------ MODULE Inference ------------------------------
(***************************************************************************)
(* The inference orchestrator (orchestrator.rs), the table of loaded       *)
(* models of a local engine (engine/llamacpp.rs, engine/candle_backend.rs, *)
(* which keep the same one), and the tasks that load models and generate   *)
(* answers on blocking threads.  A task outlives the call that waits for   *)
(* it.                                                                     *)
(*                                                                         *)
(* The mesh is an engine too, which keeps no table (mesh/src/backend.rs)   *)
(* and is there while the node is connected to a peer; LayerSetup and      *)
(* MeshSession say what its calls do.  Nor does the cloud, which is chosen *)
(* by the model's name (engine/cloud/mod.rs, and CloudStream).             *)
(***************************************************************************)
EXTENDS Naturals, FiniteSets, Sequences

CONSTANTS
  Calls,      \* calls of the program around the orchestrator, one task each
  MaxPeers,   \* bound: times the mesh node's connections come or go
  MaxTokens,  \* bound: tokens of an answer
  Cap,        \* the capacity of a token channel
  NoEngine

ASSUME InferenceAssumption ==
  /\ IsFiniteSet(Calls) /\ MaxPeers \in Nat
  /\ MaxTokens \in Nat /\ Cap \in Nat \ {0}
  /\ NoEngine \notin {"local", "mesh", "cloud"}

Engines == {"local", "mesh", "cloud"}
Handles == 1..Cardinality(Calls)  \* a call loads one model at most

VARIABLES
  counter,   \* handles made so far
  loaded,    \* handles in the local engine's table
  backends,  \* handle_backends: handle |-> engine
  info,      \* handles in model_info
  meshPeers, \* the mesh node runs and has a connection, when odd
  job,       \* call |-> where its task stands
  held,      \* call |-> the handle its task works on, or 0
  chan,      \* call |-> items in its token channel
  made,      \* call |-> tokens generated for it
  listens    \* call |-> its end of the channel is open

tables == <<counter, loaded, backends, info>>
jobs   == <<job, held, chan, made>>
inferenceVars == <<tables, meshPeers, jobs, listens>>

InferenceInit ==
  /\ counter = 0 /\ loaded = {} /\ info = {}
  /\ backends = [h \in Handles |-> NoEngine]
  /\ meshPeers = 0
  /\ job = [c \in Calls |-> "none"] /\ held = [c \in Calls |-> 0]
  /\ chan = [c \in Calls |-> << >>] /\ made = [c \in Calls |-> 0]
  /\ listens = [c \in Calls |-> FALSE]

-----------------------------------------------------------------------------
(* Slips a change of the code could make, each the mutant of the definition  *)
(* it is named after                                                         *)

\* A token is dropped when the channel is full: try_send for blocking_send.
GenerateLossy(c) ==
  /\ job[c] = "generating" /\ listens[c] /\ made[c] < MaxTokens
  /\ made' = [made EXCEPT ![c] = @ + 1]
  /\ chan' = IF Len(chan[c]) < Cap THEN [chan EXCEPT ![c] = Append(@, "token")] ELSE chan
  /\ UNCHANGED <<tables, meshPeers, job, held, listens>>

-----------------------------------------------------------------------------
(* Loading                                                                 *)

\* A mesh backend is registered, and MeshBackend::is_available.
HasPeer == meshPeers % 2 = 1

\* EngineRegistry::get: a backend that is available.
Available(e) == e \in {"local", "cloud"} \/ (e = "mesh" /\ HasPeer)

\* load_model has found the file and reads it on a blocking thread: it makes the
\* handle and enters it in the engine's table.
LoadEnds(c) ==
  /\ job[c] = "reading"
  /\ counter' = counter + 1
  /\ loaded' = loaded \cup {counter + 1}
  /\ held' = [held EXCEPT ![c] = counter + 1]
  /\ job' = [job EXCEPT ![c] = "loaded"]
  /\ UNCHANGED <<backends, info, meshPeers, chan, made, listens>>

\* A file that has gone or cannot be read, too little memory, an engine in use already.
LoadRefused(c) ==
  /\ job[c] = "reading"
  /\ job' = [job EXCEPT ![c] = "refused"]
  /\ UNCHANGED <<tables, meshPeers, held, chan, made, listens>>

\* The fallback, when the mesh is there: not a task of its own, so it ends with
\* the call.
MeshLoads(c) ==
  /\ counter' = counter + 1
  /\ held' = [held EXCEPT ![c] = counter + 1]
  /\ job' = [job EXCEPT ![c] = "meshed"]
  /\ UNCHANGED <<loaded, backends, info, meshPeers, chan, made, listens>>

\* load_cloud makes a handle for a provider that has a key, and enters it.
CloudLoads(c) ==
  /\ counter' = counter + 1
  /\ backends' = [backends EXCEPT ![counter + 1] = "cloud"]
  /\ info' = info \cup {counter + 1}
  /\ UNCHANGED <<loaded, meshPeers, jobs, listens>>

\* track_loaded_model: the two tables, which only dispatches and reports read.
Track(c) ==
  /\ backends' = [backends EXCEPT ![held[c]] = IF job[c] = "meshed" THEN "mesh" ELSE "local"]
  /\ info' = info \cup {held[c]}
  /\ job' = [job EXCEPT ![c] = "none"]
  /\ held' = [held EXCEPT ![c] = 0]
  /\ UNCHANGED <<counter, loaded, meshPeers, chan, made, listens>>

-----------------------------------------------------------------------------
(* Unloading: the engine's table and then the orchestrator's two            *)

EngineForgets(h, e) ==
  /\ loaded' = IF e = "local" THEN loaded \ {h} ELSE loaded
  /\ UNCHANGED <<counter, backends, info, meshPeers, jobs, listens>>
Untrack(h) ==
  /\ backends' = [backends EXCEPT ![h] = NoEngine]
  /\ info' = info \ {h}
  /\ UNCHANGED <<counter, loaded, meshPeers, jobs, listens>>

-----------------------------------------------------------------------------
(* Answering                                                               *)

\* get_backend
Dispatches(h) == Available(backends[h])

\* stream, generate: the engine looks the handle up once more, and the task
\* keeps the model in memory from here on.
Start(c, h, e, streamed) ==
  LET there == e # "local" \/ h \in loaded IN
  /\ job' = [job EXCEPT ![c] = IF there THEN "generating" ELSE "failed"]
  /\ chan' = [chan EXCEPT ![c] = IF ~there /\ streamed THEN <<"error">> ELSE << >>]
  /\ listens' = [listens EXCEPT ![c] = streamed]
  /\ made' = [made EXCEPT ![c] = 0]
  /\ UNCHANGED <<tables, meshPeers, held>>

\* A token goes to the channel once there is room.
Generate(c) ==
  /\ job[c] = "generating" /\ listens[c] /\ made[c] < MaxTokens
  /\ Len(chan[c]) < Cap
  /\ made' = [made EXCEPT ![c] = @ + 1]
  /\ chan' = [chan EXCEPT ![c] = Append(@, "token")]
  /\ UNCHANGED <<tables, meshPeers, job, held, listens>>

\* The loop ends: the end of the text, a stop sequence, max_tokens, or a
\* receiver that is gone.
GenerationEnds(c) ==
  /\ job[c] = "generating"
  /\ job' = [job EXCEPT ![c] = "ended"]
  /\ UNCHANGED <<tables, meshPeers, held, chan, made, listens>>

\* An error is the last item of the channel.
GenerationFails(c) ==
  /\ job[c] = "generating" /\ Len(chan[c]) < Cap
  /\ job' = [job EXCEPT ![c] = "failed"]
  /\ chan' = IF listens[c] THEN [chan EXCEPT ![c] = Append(@, "error")] ELSE chan
  /\ UNCHANGED <<tables, meshPeers, held, made, listens>>

Stopped(c) == job[c] \in {"ended", "failed"}

\* The node's connections come and go.
PeersChange ==
  /\ meshPeers < MaxPeers /\ meshPeers' = meshPeers + 1
  /\ UNCHANGED <<tables, jobs, listens>>

JobStep(c) ==
  LoadEnds(c) \/ LoadRefused(c) \/ Generate(c) \/ GenerationEnds(c) \/ GenerationFails(c)
=============================================================================
