# A verification project for HiveBear

HiveBear lets a group of computers run language models together: nodes find
each other through a coordination server or on the LAN, open QUIC connections,
and lend each other models over them; each node keeps a registry of downloaded
models, serves them over HTTP, and has a desktop application with accounts and
chats. This directory holds TLA+ models of the parts of that system whose
behaviour depends on interleavings, failures and restarts, the TLC runs that
check them on small instances, and the theorems TLAPS proves about them for all
instances. Paths below are relative to the repository root.

| module | models | run | proofs |
|---|---|---|---|
| `Coordinator` | the coordination server | `coordinator` | `Coordinator_proofs` |
| `MeshNode` | the life of one node, with its discovery client | `mesh_node` | `MeshNode_proofs` |
| `MeshSession` | replicated inference sessions and the worker daemon | `mesh_session` | `MeshSession_proofs` |
| `MeshCommands` | who calls them: `contribute`, `mesh run`, the coordinator's record | `mesh_session` | `MeshSession_proofs` |
| `TokenStream` | what a session promises (abstract) | `mesh_session`, as property `IsTokenStream` | `MeshSession_proofs` |
| `LayerSetup` | setting up a layer pipeline, the daemon's handlers | `layer_setup` | `LayerSetup_proofs` |
| `Pipeline` | streaming through a layer pipeline, its workers | `pipeline` | `Pipeline_proofs` |
| `Ordering` | sets in an order: what sorts and filters leave (functions) | `coordinator` | `Coordinator_proofs` |
| `LayerShares` | sharing layers out by memory: both schedulers (functions) | `coordinator`, `swarm_stages` | `Coordinator_proofs` |
| `SwarmFormation` | forming swarms (a function) | `coordinator` | `Coordinator_proofs` |
| `Swarm` | members that come and go, the request router | `coordinator` | `Coordinator_proofs` |
| `Download` | the download of one model file | `download`, `download_short` | `Download_proofs` |
| `Registry` | files, index and index file of the models a user has | `registry` | `LayerSetup_proofs` |
| `RegistryCommands` | who calls it: the application, the commands | `registry` | `LayerSetup_proofs` |
| `Inference` | the orchestrator, an engine's table, generating tasks | `serving` | `MeshNode_proofs` |
| `Serving` | the HTTP server | `serving` | `MeshNode_proofs` |
| `Commands` | the programs around an orchestrator | `serving` | `MeshNode_proofs` |
| `CloudStream` | one call of a cloud model | `coordinator` | `Coordinator_proofs` |
| `Account` | account, settings and key in one configuration file | `account` | `Account_proofs` |
| `Chat` | the chat page, its commands, the chat database | `chat` | `Chat_proofs` |

Each `*MC` module gives the constants of its module their values. To check:
`tlc -config X.cfg XMC`, with `Commands` and what it extends under `ServingMC`,
`MeshCommands` under `MeshSessionMC`, `RegistryCommands` under `RegistryMC`, and
`Coordinator`, `Swarm` and `CloudStream` together under `CoordinatorMC`;
to prove: `tlapm X_proofs.tla`. `PROJECT.json` lists components, runs, mutants,
hazards and theorems, and maps each definition to the lines it stands for.

## 1. The system

### Components, their state and operations

**Coordinator** (`crates/hivebear-coordinator/src/main.rs`). Four concurrent
maps: `nodes` (id to record with `last_seen`), `signals` (id to a queue of at
most 50 connection offers), `karma` (id to balance), `processed_receipts`
(anti-replay keys). Operations: register, heartbeat, deregister, list, send and
poll signals, matchmake, dashboard, claim_karma; a task prunes nodes silent for
60 s every 15 s. *Hard:* handlers run in parallel and make several map calls
each; guards of one map are held while another is locked. *Correct when:* a
queue is capped and in order, a receipt is paid once, a reported balance is
backed by recorded receipts, pruning hits silent nodes only, no handler waits
for ever.

**Mesh node** (`crates/hivebear-mesh/src/node.rs`). Flags `running` and
`registered`, the map `peers` (id to connection state and record), a shutdown
notification. Operations: `start_background` (spawns `start`: listen, announce,
register, spawn the maintenance loop), the loop's handlers (discover and connect
peers, heartbeat or re-register, check peer health), `stop`. *Hard:* three tasks
share the flags; `stop` can come at every await of the others; the coordinator
may be away, forget the node, or answer into the void; addresses may be answered
by somebody else. *Correct when:* a stopped node is down, unlisted and holds no
peers; the loop ends; the listing recovers.

**Discovery** (`discovery/server.rs`, `composite.rs`, `lan.rs`, `pex.rs`). The
server client keeps the node's own record and its HTTP client; the composite
asks all sources and succeeds when one does; LAN discovery announces over UDP
and caches what it hears; peer exchange keeps at most 200 recent peers.

**Transport** (`transport/quic.rs`, `protocol.rs`, ...). Connections by node id,
one inbox of received messages. *Hard:* the acceptor works on a copy of the
connection map, so connections opened by peers cannot be sent on; one inbox
serves every reader.

**Replicated sessions** (`pipeline/initiator.rs` `stream_tokens_replicated`,
called by `backend.rs` and by `mesh run`; `pipeline/daemon.rs` on the other
side). An initiator sends a request and reads tokens from the inbox until a last
token, a summary or an error; a daemon runs each request in a task of its own.
`hivebear contribute` runs a daemon and keeps the node listed. *Hard:* sessions
of one node read one inbox and drop what is not theirs; connections break
silently; no time-out; a background node of the same identity writes the same
record at the coordinator. *Correct when:* a session hands on tokens in order,
once, without gaps unless somebody else took them, and ends; a contributor that
serves is listed.

**Layer pipeline** (`pipeline/initiator.rs` `setup` and `stream_tokens`,
`pipeline/worker.rs`, `pipeline/checkpoint.rs`,
`crates/hivebear-cli/src/pipeline_handler.rs`). A plan gives each worker a range
of layers; activations travel through them. State: a worker's routing entries
and its one loaded stage with its attention cache, the initiator's count of
acknowledgements and its checkpoints. *Hard:* load and unload run in unordered
tasks, a release names a session but unloads whatever is loaded, logits are
taken whatever their position. *Correct when:* a ready set-up has its layers on
every worker and none are lost; a session that meets no other hands on what one
machine would compute, ends, and leaves nothing behind.

**Swarms and schedulers** (`swarm/`, `scheduler/`). Groups of 2 to 4 peers with
a leader; `formation.rs` makes them from latencies, `rebalance.rs` reacts to
departures and joins, `router.rs` admits requests; the schedulers share layers
out by memory. *Hard:* reassignment must keep one leader and all layers; load
counters are read, incremented and decremented in separate calls.

**Trust, NAT** (`trust/`, `nat/`). Scores and bans, verification of layer
outputs at another peer, STUN and hole punching.

**Model download** (`crates/hivebear-registry/src/download.rs`). On disk a
`.partial`, its `.partial.meta` (url and size), the finished file; in memory the
cancellation senders by model id. Operations: `download` (plan a resumption,
request with a Range header, stream, retry, check length and hash, rename),
`cancel_download`, `list_partial`. *Hard:* crashes between any two of its file
operations, servers that ignore ranges or hide lengths, streams that stop short,
writes that fail when nobody looks any more, a url that changes between calls,
cancellation at any point, two calls at once. *Correct when:* only whole files get
the final name, the meta never lies about the partial, every call returns.

**Model registry** (`registry/mod.rs`, `registry/local.rs`, `storage.rs`,
`ollama_lib.rs`, and `registry_commands.rs` of the command line). The directory
tree of models, `registry.json`, and each process's copy of it. Operations:
install (download or resumption, tokenizer, record), list (reconcile with the
disk), remove, import from Ollama, search, clean up partials. *Hard:* scan and
merge are two steps, downloads run between test and record, several processes
share the files, a command may be killed, a search keeps the index locked while it
waits for Hugging Face. *Correct when:* what is listed is what
is on disk once a listing meets no change, and an installed file is never
exchanged for another.

**Inference and serving** (`crates/hivebear-inference/src/orchestrator.rs`,
`engine/`, `crates/hivebear-cli/src/api/`, `main.rs`). An orchestrator loads a
model on an engine, falls back to the mesh, tracks handles and dispatches
generations to blocking tasks; the server maps names to handles, loads on
demand, pulls and deletes; other programs chat on a terminal or benchmark.
*Hard:* clients leave at any await while the task they started goes on; deletes
race answers; pulls write lines into a bounded channel; the mesh comes and goes;
peers, providers and clients may keep a call waiting without a time-out.
*Correct when:* a listed name can be served, an answer without error is whole,
and everything ends that others do not keep waiting.

**Cloud engines** (`engine/cloud/`). Four protocols turn a conversation into a
request and a reply into tokens; `sse.rs` parses an event stream. *Hard:* the
network cuts the stream anywhere. *Correct when:* a reply that ends is whole and
in order, and the provider is asked the conversation.

**Account, configuration, secrets** (`apps/desktop/src-tauri/src/commands/account.rs`,
`config.rs`, `secrets.rs`, `hivebear-cli/src/account_commands.rs`,
`hivebear-core/src/config`). One `Config` in the application's memory, one file,
a form that edits a copy, commands of the tool that load and write the file
whole, a keychain. *Hard:* requests run with the config unlocked and act on what
they remember; the file has several writers, each of which empties it first; saves
fail silently. *Correct when:* a logout or a sign-in lasts, and the key is not lost.

**Chat** (`apps/desktop/src/pages/Chat.tsx`, `hooks/`, `commands/inference.rs`,
`commands/chat.rs`, `hivebear-persistence`). The page's refs and state, window
events that carry tokens without a name, the database. *Hard:* everything the
page awaits may be overtaken by a stop, a second turn, a change of page, a
deletion, or by events that come after the answer. *Correct when:* the reply
stored is its own and whole, none is lost, no message outlives its conversation,
every turn gives the input back.

**Core, web** (`hivebear-core`, `web`). Measurements, scores, a browser wrapper.

### How they interact

    desktop / CLI --start, stop--> MeshNode --register, heartbeat, list--> Coordinator
      |  |  |  |                     |  \--connect, ping, send--> transport <--> other nodes
      |  |  |  |                     |                               ^
      |  |  |  \--generate--> orchestrator --mesh--> session -------- |
      |  |  |                   |  \--cloud--> provider   <--inbox (shared)--> worker daemon
      |  |  |                   \--local--> engine table, blocking tasks
      |  |  \--install, list, remove--> registry --download--> .partial, meta, file on disk
      |  \--login, settings, keys--> config.toml, keychain        \--> registry.json
      \--chat page--> commands --> window events, database

Shared state is where the components meet: the coordinator's maps (handlers and
prune task), a node's flags and peers (start, loop, stop), the coordinator's
record of an id (contributor, its heartbeats, its background node), the
transport's inbox (sessions, setup, daemon), a worker's one stage (sessions),
the server's map of models (requests), and the files: of a model directory,
`registry.json`, `config.toml`.

## 2. The models

Each step of a model is the code between two points where another task, or the
end of the process, can make a difference: a map call of the coordinator, the
code between two awaits of the node or of the page, one message of a session,
one file operation of a download. Data is reduced to what the properties tell
apart: a signal is its number of acceptance, a token its position, a byte the
pair of its source and offset, an activation its position and the stages that
computed it, a configuration whether it holds tokens and a key.

Modules that are composed: `MeshCommands` extends `MeshSession`, which promises
`TokenStream`; `Swarm` extends `SwarmFormation`, which extends `LayerShares`;
`RegistryCommands` extends `Registry`; `Commands` extends `Serving`, which
extends `Inference`. `Registry` takes from `Download` what a call can leave
behind (the file, or a partial with its meta, or nothing), and `Inference` takes
from `MeshSession` and `CloudStream` that a generation ends or fails.

### Coordinator

`nodes`, `age` (prune ticks since `last_seen`), `signals`, `karma` and
`processed` are the server's maps; `task[t]` is the handler that server task `t`
runs, with its program counter at the next map call; `pruning` and `toVisit` are
the prune pass. `accepted`, `polled`, `awards`, `overlapped` record what clients
have seen. A guard that lives across map calls is a lock: `RankLocks` (matchmake,
dashboard), `KarmaLocked` (claim_karma), `pruning` (the prune pass).

| code | actions |
|---|---|
| `register_node`, `heartbeat_node` | `RegisterNode`, `HeartbeatNode` |
| `deregister_node` | `DeregisterNode`, `DropSignals` |
| `send_signal`, `poll_signals` | `SendSignal`, `PollSignals` |
| `matchmake`, `dashboard` | `RankPeer`, `ReadKarma` |
| `claim_karma` | `ClaimCheck`, `ClaimValidate`, `ClaimAward`, `ClaimRecord` |
| prune task | `PruneTick`, `PruneKeep`, `PruneSignals`, `PruneDrop` |

Two overlapping claims of one receipt both pass the anti-replay test and are both
paid; `overlapped` marks their keys, and `PaidOnceUnlessOverlapped` is about the
others.

### MeshNode

`running`, `registered`, `peers` and the client's record `nodeInfo` are fields of
the code; `start`, `loop`, `stop` are the program counters of the three tasks,
`todo` and `dial` the locals of the loop's handler; `conn` is what the transport
can send on; `listed`, `up` are the coordinator's side, `lan` the configuration.
`quiet` remembers that `stop` was called with nothing in flight.

| code | actions |
|---|---|
| `start_background`, `start` | `StartBackground`, `Listen`, `StartSetInfo`, `StartRegister`, `StartMaintenance` |
| maintenance loop | `LoopBegins`, `DiscoveryTick`, `HeartbeatTick`, `HealthTick`, `LoopEnds`, `HandlerDone` |
| `maintain_registration` | `Heartbeat`, `LoopSetInfo`, `LoopRegister` |
| `discover_and_connect_peers` | `FindPeers`, `SkipPeer`, `DialPeer`, `Connect`, `ConnectFails`, `Insert` |
| `check_peer_health` | `PingPeer` |
| `stop` | `StopMark`, `StopNotify`, `StopDisconnect`, `StopClear`, `StopDeregister`, `StopForget` |
| connections, the coordinator | `ConnectionLost`, `CoordinatorReachable`, `CoordinatorForgets` (external) |

`notify_waiters` reaches the loop only while it waits in its `select!`
(`notified`); a loop that misses it sees `running` at its next tick. What the
model shows besides its properties: a `stop` during `start` is undone when
`start` sets `running`; a connection without an entry, or entered under another
id, survives `stop`; a peer that was lost keeps its entry and is not dialled
again.

### MeshSession, MeshCommands and TokenStream

`reader`, `result`, `got`, `dropped` belong to a session's receive loop, `work`
and `made` to the daemon's task for it; `inbox`, `wire` and `link` are the
transport. `disturbed` marks sessions that shared the inbox with another reader.
A daemon can answer only if its own node dialled the initiator (`Dialled`):
`listen` clones the connection map, and a clone of that map is a deep copy.

| code | actions |
|---|---|
| `stream_tokens_replicated` | `Request`, `SessionReads`, `Release` |
| daemon loop, `handle_request` | `DaemonReceives`; `WorkerToken`, `WorkerFails`, `WorkerDone`, `WorkerComplete` |
| the caller, connections | `CallerLeaves`, `LinkBreaks` |
| `cmd_contribute` | `Starts`, `Registers`, `Matchmakes`, `Joins`, `Loads`, `Listens`, `Interrupted`, `Leaves`, `Deregisters`, `Forgets`, `StopsNode`, `Exits` |
| its heartbeat task, its background node | `Ticks`, `Heartbeats`, `Cancels`, `NodePosts` |
| `cmd_mesh_run` | `Finds`, `Given`, `Connects`, `ConnectFails`, `Asks`, `Quits` |

A behaviour is one program's: the library's callers, or the two commands
(`program`). `TokenStream` is the promise that survives sharing: tokens in order,
none twice, none of another session, none after the end. `MeshSession` implements
it under `sent <- made`, `last <-` the last token handed on, `over <-` the loop
has ended (property `IsTokenStream`).

What the model shows besides: a session's end may be taken from the inbox by
another session, which then waits for ever; a peer that only listens never
answers, so that a `mesh run` that has asked waits for ever, and the branches of
its receive loop never run; a contributor is on the list as serving before it has
loaded its model, and stays there, with its heartbeats, when the model is
missing; a background node of the same identity overwrites the record and may
hold the advertised port while the daemon listens at another; a heartbeat that
waits for the client's lock while `deregister` holds it is sent after the DELETE
and lists the contributor again; `join_swarm` and `leave_swarm` ask for routes
this coordinator does not have.

### LayerSetup

`setup`, `sent`, `acks` belong to a call of `PipelineInitiator::setup`; `load` is
the daemon's task for an assignment, `unloads` and `unloading` its tasks for
releases; `stage` is `CliPipelineHandler`'s state, a session's name standing for
its handle and layer range, and `held` the handles its orchestrator tracks.
`inbox`, `wire`, `link`, `disturbed` are as in `MeshSession`. `wire` is the
daemon's inbox: what this node's connection delivers, and the releases of any
node's replicated sessions.

| code | actions |
|---|---|
| `MeshBackend::load_model`, `setup` | `SetupStarts`, `SendAssign`, `SetupReads` |
| daemon loop | `DaemonReceives` |
| `load_layers` and its acknowledgement | `Load`, `Store`, `Answer` |
| `unload_layers`, `Orchestrator::unload` | `UnloadTakes`, `UnloadEnds` |
| end of `stream_tokens_replicated` | `ReplicaReleases` |

The state's lock is held from `UnloadTakes` to `UnloadEnds`; `Store` waits for it,
loading does not. Unloading cannot fail: every engine's `unload` returns `Ok`, and
a tracked handle has an engine. A second assignment stores its stage over the
first one's without unloading it (`LostOnlyByOverwriting`). A worker whose
orchestrator falls back to the mesh itself is left out.

### Pipeline

The same set-up against `PipelineWorker`, whose loop handles one message after
another, and what follows it. `call`, `count`, `result`, `got`, `gone`, `saved`
belong to an initiator (`saved` are its checkpoints' positions), `stage` and
`entries` to a worker, `chan` to the connections. An activation carries `via`,
the number of stages that computed it as one machine would have, and a stage's
cache is the list of activations it has seen; `Computed` says when a pass keeps
`via` growing. Every message a worker sends may fail to be sent (`Sends`), which it
only logs; `lost` marks the sessions that lost one so.

| code | actions |
|---|---|
| `setup` | `SendAssign`, `SetupReads` |
| `stream_tokens` | `StreamStarts`, `StreamReads` (with `TakeLogits`, `Awaits`, `Saved`, `Leave`), `Release` |
| `PipelineWorker::run` | `WorkerLoads`, `WorkerForwards`, `WorkerRefuses`, `WorkerReleases` |
| its process, the caller | `WorkerEnds`, `CallerLeaves` |

What the model shows besides: a session that lost an acknowledgement, an
activation, its logits or its error waits for ever, with all its workers alive,
as no receive loop has a time-out; two initiators of a node share its inbox, and two
sessions a worker's one stage; a worker without a routing entry drops what it
computed without a word; a stream that an Error ends leaves its checkpoints, and
one whose first activation cannot be sent releases nobody. Outside the model:
`stream_tokens` numbers activations (the prompt is 0, the first token 1) and
workers pass that number on as the rotary index, while the attention cache counts
tokens, so that the two part after a prompt of more than one token
(`candle_pipeline.rs:524`: "`index_pos` is the token position for RoPE -- must
be correct").

### LayerShares, SwarmFormation and Swarm

`LayerShares` has the layers each of a list of peers gets (`Greedy` and swarm-aware
schedulers, `GreedyPlan`, `SwarmAwarePlan`), `SwarmFormation` the swarms that
`form_swarms` makes of a list of peers and their latencies. In `Swarm`, `swarm`
holds the definitions, `listed`, `load`, `contributing` the router, `caller` what
each caller of the router does; `crowded` and `recounted` mark the two races the
router has: two callers choose a swarm before either is counted, or the counter
is dropped under a request.

| code | actions |
|---|---|
| `rebalance`: `handle_member_departure`, `redistribute_layers` | `Depart` (with `Departed`, `Shifted`, `Redistributed`) |
| `rebalance`: a member joins | `Join` |
| the status of a definition, which its owner sets | `SetStatus` (external) |
| `register_swarm`, `unregister_swarm`, `set_contributing` | `Register`, `Unregister`, `SetContributing` |
| `select_swarm`, `request_started`, `request_finished` | `Select`, `RequestStarted`, `RequestFinished` |

`active_requests` is an unsigned counter that is decremented without a test; it is
taken modulo `CountModulus`. The quotients of the shares are exact here, `f64` in
the code: a tie that rounds the other way moves one layer to the neighbour. The code's
sorts and filters are `OrderedBy` and `Ascending` of `Ordering`, which `CloudStream` uses too: the elements of a set, the `k`-th
being the one that has `k - 1` before it. A
standby may be promoted on the departure of another standby, or on a second
report of a member that left. `min_layers_per_stage`, "Minimum layers each stage
must process", is not what the swarm-aware scheduler keeps to: it rounds each
stage but the last up to it, and the last, or one cut to what is left, gets fewer
(`StagesReachLeast`, run `swarm_stages`).

### Download

`call[c]` holds the locals of a call (`bytes`, `total` = known_total, attempts
`left`, the open file `handle`, `told` = the cancellation flag) and its program
counter; `partial`, `meta`, `final` are the three files, `cancels` the entry of
`cancellations` for the model id. A body ends wherever it ends (`handle.end`), and
`Tells` is what its response says of the length: the file's (Content-Range, or the
Content-Length of a 200, which such a body then has), for a 206 without Content-Range
where that range ends, or nothing, which leaves what the meta knew. A chunk counts
when it is in tokio's buffer: a write that fails (`handle.lost`) shows at the next
chunk, and the last one's not at all, as the result of `flush` is dropped. A handle keeps its file when the name is
removed or renamed (`Renamed`), as on POSIX systems. `blind` remembers that
bytes were resumed without a meta that says where they are from: `plan_resume`
does that on purpose.

| code | actions |
|---|---|
| `plan_resume`, discarding a foreign partial, recording | `Start`, `Plan`, `DiscardPartial`, `DiscardMeta`, `Record` |
| an attempt's request | `CheckCancel`, `AskFails`, `AskUnsatisfiable` (416), `Answered` (200, 206) |
| the stream | `Chunk`, `StreamError`, `StreamEnds`, `Retry` |
| the finished file | `CheckLength`, `CheckHash`, `Promote`, `Finish` |
| `cleanup_on_exit` | `EndKeeping`, `StartCleanup`, `CleanupMeta`, `CleanupPartial` |
| `cancel_download`, end of the process | `CancelDownload`, `Crash` |

The retries of a single request (`send_with_retry`) are one step with the
outcomes they can have: an answer, a 416, or giving up. What the model shows
besides: a file that is short, because its body was and nobody told the length, or
because only the end of a range was told, or because its last write failed, takes
the final name when there is no checksum (`NeverShort`, run `download_short`); when
the length is known or there is a checksum, none does (`FullLength`). With `Overlap = TRUE` two
calls for one file share its `.partial`, and a file can take the final name
without its bytes: the properties are about calls one after another.

### Registry and RegistryCommands

`whole`, `partial`, `meta`, `blobs` are the disk, `saved` is `registry.json`,
`index[p]` the copy of process `p`, `lock[p]` the task that holds it over an
await, `task[t]` a call with its locals. A directory's id is its path below the
models directory, so that a repository `owner/name` lies two levels deep. A command
makes its registry in three steps -- it loads the index (`MakeRegistry`), scans
(`ScanFirst`), merges (`Merge`) -- between which others change the disk. The
application does the same before it takes any call, in one step here (`Restart`).

| code | actions |
|---|---|
| `install`, `finish_interrupted_download`, `fetch_tokenizer`, `cancel_download` | `Install`, `Look`, `Loaded`, `LoadFails`, `Tokenize`, `EnsureTokenizer`, `Record`, `Cancel` |
| `resolve_hf_repo`, the list of a repository's files | `Fresh`, `FilesListed` |
| `reconcile`, `discover_models`, `list_installed` | `Scan`, `ScanFirst`, `Merge` |
| `remove` | `RemoveModel`, `DeleteFiles`, `Forget`, `RemoveEntry` |
| `import_ollama`, `search`, `cleanup_partial` | `ImportOllama`, `Search`, `Answered`, `SearchEnds`, `CleanupPartial` |
| `Registry::new`, end of a process | `MakeRegistry`, `Restart`, `AppRestarts`, `Killed`, `Exits` |
| the user, Ollama | `UserCopies`, `UserDeletes`, `OllamaChanges` (external) |
| the commands | `CmdInstall`, `CmdSearch`, `CmdList`, `CmdRemove`, `CmdStorage`, `CmdImportOllama` |

`ListIsDisk` speaks of a listing that meets no change; the model shows what
happens otherwise. A scan that precedes the lock can adopt a model removed in
between. A repository's directory is adopted a second time under its owner's
name, and removing that entry deletes all of the owner's models. An imported
model's path is the blob itself, so that it never resolves. An interrupted
`tokenizer.json.partial` can be resumed by `install` and recorded as the model.
`cleanup_partial` looks one level deep. Two processes overwrite each other's
`registry.json`. A cancelled resumption is followed by a fresh download. A search
that Hugging Face leaves without an answer keeps the index of its process locked for
ever: the client has no time-out (`huggingface.rs:50`).

### Inference, Serving and Commands

`Inference`: `loaded` is a local engine's table, `backends` and `info` are the
orchestrator's, `meshPeers` counts changes of the mesh's connections, and for each
call `job` is its blocking task, `held` the handle it works on, `chan` its token
channel, `listens` whether the receiving end is still there. `Serving`: `models`
maps names to handles, `writer` is who keeps its write lock over an await, `disk`
the installed names, `call` the requests, `notes` the lines of a pull. `Commands`:
`main` is the program that runs and how far it is.

| code | actions |
|---|---|
| `load_model` of the engines, `Orchestrator::load` | `LoadEnds`, `LoadRefused`, `LoadFallsBack`, `LoadTracks`, `MeshLoads`, `CloudLoads` |
| `stream_blocking`, `generate_blocking` | `Start`, `Generate`, `GenerationEnds`, `GenerationFails` |
| `resolve_model`, `default_handle` | `Look`, `Resolve`, `ResolveCloud`, `InsertModel` |
| `chat_completions`, `ollama_chat`, `ollama_generate` | `Chat`, `ChatAny`, `OllamaChat`, `Dispatch`, `Begin`, `Collect`, `Chunk`, `LastChunk` |
| `ollama_pull` | `Pull`, `PullInstalls`, `PullNotes`, `PullProgress`, `PullEnds`, `PullLine`, `LastLine` |
| `ollama_delete`, `Orchestrator::unload` | `Delete`, `TakeOut`, `Unload`, `UnloadEngine`, `UnloadEnds`, `Remove` |
| `list_models`, `ollama_ps`, `ollama_show`, `ollama_tags` | `ListModels`, `OllamaPs`, `OllamaShow`, `OllamaTags`, `TagsEnd` |
| the middleware, the client, the mesh | `Refused`, `ClientLeaves`, `PeersChange` |
| `cmd_serve`, `start_server_single`, `bind_with_fallback` | `ServeStarts`, `Loaded`, `NotLoaded`, `Opens`, `Busy`, `GivesUp` |
| `cmd_run`, `cmd_quickstart`, the fallback of `cmd_mesh_run`, `cmd_benchmark` | `RunStarts`, `QuickstartStarts`, `OthersStart`, `TurnBegins`, `Iterates`, `TurnEnds`, `Quits`, `BenchmarkEnds`, `Closes` |

What the model shows besides: two concurrent loads of one name leave the first
handle loaded without a name; a model whose load outlived its caller stays
loaded; a model on the mesh cannot be unloaded while no peer is connected; a
stream that fails is closed with the chunk of a stream that ended, and a final
chunk follows; a pull's "success" may precede its "pulling manifest";
llama.cpp's backend can be initialised once only, so that a second model is
refused while the first is loaded; `run --api` serves under the file's stem and
has no registry; the fallback of `mesh run` never unloads.

### CloudStream

One call, from the model's name to its last token. `protocol`, `key`, `mode`,
`messages` are the request, `asked` what the provider was sent, `reply` or `sent`
and `others` what it answered, `pipe` the units on their way, `buffer` the
parser's incomplete line, `out` what the caller was handed. A content event is
three units -- its head and the two bytes of a character are apart -- and a chunk
is any prefix of the pipe.

| code | actions |
|---|---|
| `resolve_provider`, keys | `Load` |
| `build_request_body` of the four protocols | `Ask` (with `Body`, `TurnOf`, `Role`) |
| `generate`, `parse_response` | `Generate` (with `Parsed`, `TextFirst`, `FirstPart`, `Unparsable`) |
| `stream`, `stream_sse_with_parser`, `parse_stream_chunk` | `Accepted`, `Refused`, `Reads`, `ParsesLine`, `ParsesLeftover`, `ReadsEnd`, `ReadsError` |
| provider, network, caller | `SendsText`, `SendsOther`, `Closes`, `Breaks`, `CallerLeaves` (external) |

What the model shows besides: chunks are decoded one by one, so that a character
cut in two reaches the caller as replacement characters; Anthropic's error event
is skipped, and a reply cut short by one ends as a success; Gemini is asked
without streaming and Cohere's lines have no `data:` prefix, so that both stream
no token (`EndedIsWhole` is about the two event-stream protocols); a reply of
Gemini or Cohere keeps its first part only; Anthropic and Gemini are sent the
first system message and no later one.

### Account

`desk` is the application's `Config`, `file` what config.toml reads as, `saving`
whether the application is writing it, `ink` what two writers at once may have left
in it, `form` the copy the settings page edits, `keychain` the provider's key, `call[c]` a command of the
account page, `tool` a command of the command line with the copy it loaded. A
`Config` is whether it is signed in and whether it holds a key. `quietOut`,
`quietIn`, `kept` remember that an undisturbed logout or sign-in has ended, and
that the user has not given the key up.

| code | actions |
|---|---|
| `login`, `register`, `activate_device` | `Login`, `ActivateDevice`, `Challenged`, `SignedIn`, `Mocked` |
| `logout` | `Logout`, `LoggedOut` |
| `get_account`, `try_refresh` | `LookUp`, `LookedUp`, `Refreshed`, `Retried` |
| the other requests | `AskServer`, `ServerAnswers` |
| `Config::save`, `fs::write` | `Saves` (with `Opens`), `SaveEnds` (with `Closes`) |
| settings page, `save_config` | `OpenSettings`, `CloseSettings`, `SaveSettings`, `SaveMesh` |
| keys | `MigrateKeys`, `SetKey`, `DeleteKey` |
| `init_with_paths` | `Restart` |
| `hivebear login`, `activate`, `logout`, `config`, `serve`, ... | `ToolSignsIn`, `ToolSignedIn`, `ToolLogsOut`, `ToolResets`, `ToolServes`, `ToolAsks`, `ToolAnswered`, `ToolSaves`, `ToolSaved` |

`fs::write` is two steps. Opening the file empties it, and what is empty reads as
`Config::default()`; then the writer has written all, or fails or is killed half-way
and leaves a part, which reads as less than it was to be (`Below`). Where the two
processes write at once, what is left may have something of both (`Both`). The
application's callers wait for its mutex over the write. Which account commands the
page enables at a time is over-approximated. What the model shows besides: a file cut
by a failed write, or emptied under a tool that loads it then and writes back
what it read, loses the sign-in, and the key when the keychain refused it
(`SignInLasts` and `KeyIsKept` end there, and not otherwise). What the model shows
besides, for calls that are disturbed: a logout while a token is refreshed is
undone; a refusal of a retry clears the tokens of a newer login; a server that
cannot be reached leads to made-up tokens; a settings form, or the snapshot of a
tool, that is older than a change puts the old value back; `hivebear login` may
store empty tokens.

### Chat

`convs` and `rows` are the database, `page[v]` the state and refs of `useChat` in
visit `v` of the page, `listening` the turns whose listener is registered,
`events` the window's queue, `turn[t]` a handler with what it has captured,
`stream[t]` the command on the other side. `mixed` are the turns that ran beside
another or beside what was left of one; `pressed`, of the others, those that were
stopped; `unsaved` those whose reply could not be written.

| code | actions |
|---|---|
| `handleSend`, `create` | `Submit`, `Create`, `SavePrompt`, `SaveReply` |
| `handleSend` from a suggestion while something streams | `Suggest`, `Open`, `Note` |
| `useChat`: `send`, `regenerate`, `editAndResend` | `Resend`, `Listen`, `Return` (with `Sends`, `Cleared`, `Unlistens`, `Reply`) |
| `chat-token` events, `stop` | `Deliver`, `Stop` |
| `stream_chat`, `stream_mesh_peer_chat` | `Begin`, `Produce`, `End`, `LosePeer` |
| `delete_conversation`, leaving the page | `Delete`, `Leave` |

What the model shows besides: `stop` takes the listener away and lets the stream
run on, whose tokens then reach the next turn's buffer; the `finally` of the
stopped turn removes the next turn's listener; a suggestion pressed while something
streams is stored as a prompt, in a conversation made for it perhaps, and never
sent, as the buttons are there whenever no message is shown; a stop while `listen` is awaited
leaves a listener behind; a regeneration adds a second reply, an edit stores no
prompt; a mesh peer's handle of 2^63 and more is rounded to a JavaScript number
(`AsNumber`), and a mesh peer that is lost leaves its turn waiting for ever.

## 3. What the runs check

A run for each component that keeps state. `coordinator` checks three machines
that share nothing, the same three as `Coordinator_proofs`: a behaviour is one of the
coordinator, one of the swarms and their router, or one call of a cloud model, and
the others rest. Two runs are expected to find their property violated: each states
what a comment of the code says and the code does not do.

| run | properties | shows | distinct states |
|---|---|---|---|
| `coordinator` | `SignalsInOrderOnce`, `PaidOnceUnlessOverlapped`, `PruneSparesFresh`, `HandlersReturn` | signals come in order and once, receipts whose claims do not overlap are paid once, pruning drops silent nodes only, every handler returns | 612 447 |
| the same, its swarms | `OneLeaderAllLayers`, `ActiveOrDisbanded`, `CountedRequests` | after any departures and joins a swarm in service has one leader, all layers and enough members; the router's counters are right outside its two races | |
| the same, its cloud call | `EndedIsWhole`, `AskedIsConversation` | however it is cut, a reply that ends is whole and in order; the provider is asked the conversation | |
| `mesh_node` | `QuietStopIsFinal`, `QuietStopStaysUnlisted`, `MaintenanceEnds`, `RecoversListing` | a stop that finds nothing in flight is final and unlists the node, the loop ends, the listing recovers | 188 032 |
| `mesh_session` | `UndisturbedIsWhole`, `IsTokenStream`, `UndisturbedEnds`, `ContributorIsListed` | each of two sessions implements `TokenStream`, one that has the inbox to itself is whole and ends; a contributor that serves is listed again and again | 411 949 |
| `layer_setup` | `ReadyIsLoaded`, `LostOnlyByOverwriting`, `UndisturbedSetupEnds` | a ready set-up has the layers of every worker, only overwriting loses layers, an undisturbed set-up ends | 105 512 |
| `pipeline` | `UndisturbedIsComputed`, `UndisturbedPipelineEnds` | a session that meets no other hands on what one machine would compute; if its workers live and none of its messages is lost, it ends, and leaves no entry or checkpoint | 426 955 |
| `swarm_stages` | `StagesReachLeast` (violated) | the swarm-aware plan of unequal peers has a stage below `min_layers_per_stage` | an initial state |
| `download` | `FullLength`, `PromotedIsSource`, `EveryCallEnds` | promoted files have full length when the length or a checksum is known, and the source's bytes; every call returns | 137 135 |
| `download_short` | `NeverShort` (violated) | without either, a short file is promoted | until found |
| `registry` | `ListIsDisk`, `ChoiceKept`, `AnsweredCallsEnd` | a listing that meets no change lists what is on disk, whatever came before; an installed file is not exchanged; a call ends, if Hugging Face answers it and the searches of its process | 658 682 |
| `serving` | `ListedIsServed`, `AnswerIsWhole`, `AnsweredCallsEnd` | a listed name can be served, an answer without error is whole; every request, turn and task ends, if what it waits for outside the program comes | 853 866 |
| `account` | `LogoutIsFinal`, `SignInLasts`, `KeyIsKept`, `CallsEnd` | undisturbed logouts and sign-ins last in memory and file and the key is kept, until a cut file loses them; every command ends | 817 662 |
| `chat` | `ReplyIsOwn`, `ReplyIsKept`, `NoOrphans`, `TurnsEnd` | the stored reply is its own and whole, none is lost or orphaned, every turn gives the input back | 1 052 959 |

Every property of a passing run has a mutant in `PROJECT.json`: a slip of the kind the code could
have, defined at the top of its module, under which TLC finds the property
violated.

Several properties speak of what is *undisturbed*, *quiet* or *unmixed*. These are
not preconditions added for convenience: they name the exact overlap the code does
not handle, and §2 says of each what happens in it. A history variable records
whether the overlap took place, and the runs reach states on both sides of it.

### Where the code does not do what it says

* `download_short`: "A stream can end "cleanly" while still being short [...] Never
  promote such a file" (`crates/hivebear-registry/src/download.rs:488`). A body
  of unknown length that ends early is promoted by the branch below that comment (line
  500). So is a range without a total in its Content-Range, as its Content-Length is
  added to what is on disk (396), and a file whose last write failed (485).
* `swarm_stages`: "Minimum layers each stage must process"
  (`crates/hivebear-mesh/src/scheduler/swarm_scheduler.rs:19`). With a least of 2 and
  7 layers, peers of memory 10, 10 and 6 get stages of 3, 3 and 1; the repository's
  test has equal peers. What the shares are instead is `SwarmPlansProportionally` (§4).

### Bounds, and why they are enough

* `coordinator`: two nodes, two server tasks, two receipts that share their
  anti-replay key (one needs a registered client), a queue of two signals and at
  most three accepted for one node. Two tasks suffice for every pair of handlers
  to interleave; three signals overrun the cap; the shared key lets two different
  receipts compete. `MaxSignals` is the bound; receipts may be submitted without
  limit.
* `mesh_node`: three peers: at one peer's private address another may answer, one
  is banned. No counter needs a bound: the node starts once and stops once, the
  coordinator comes and goes for ever.
* `mesh_session`: two sessions at one worker, with two and one tokens
  (`MaxTokens`): the least with an order to confuse, a gap to leave and a foreign
  message to take. Or one contributor with its heartbeats and background node, and
  a mesh run that asks twice; `program` keeps the two apart, as they share no
  transport.
* `layer_setup`: two set-ups over three workers; they share one worker, the last of
  one plan and the first of the other, so that their stages replace each other; the
  third worker has no pipeline handler. The shared worker gets one release
  (`MaxReleases`) and has the connection that may break (`Fragile`); as the proofs
  cover all bounds of the safety properties, these serve liveness.
* `pipeline`: two sessions of one node, over two workers and over the second of
  them: they share inbox and worker. Four tokens and one (`MaxTokens`), a
  checkpoint at every position (`Interval`) and two kept (`StoreSize`), so that the
  store evicts. The shared worker may end (`Fragile`).
* `coordinator`, its swarms: four peers and two models of six and seven layers, in
  five mixtures of memory and latency: alike, unequal and partly apart, one dominant
  (layers run out before the members do), and two swarms for the router to choose
  from. Three membership changes where there is one swarm, none where there are two,
  as no change of one swarm touches another; two callers of the router, one request
  per swarm (`MaxRequests`); the counter wraps at 4 (`CountModulus`).
* `coordinator`, its cloud call: two conversations, one with every kind of message
  and a second, late system message, which `generate` is given; up to three texts
  (`MaxTexts`) and one other line (`MaxOthers`), and any cutting.
* `download`: three calls for two sources of three and two bytes; the third call
  has a checksum. Two sources of different lengths make a foreign partial and a
  stale total possible; three calls let the second's leftovers meet a third.
  `StreamRetries = 1` gives a last and a not-last attempt; `MaxCrashes = 1`,
  as each crash ends a call and leaves what the next one starts from;
  `Overlap = FALSE` keeps the calls apart as the interactive use does.
  `download_short` has the same instance.
* `registry`: two tasks of an application and one command; a model with a plain id
  and one with a repository's, each with a single file and a first shard; two
  calls (`MaxCalls`), one change from outside (`MaxOutside`), one found by a search
  (`Candidates`). Two calls are the least that overlap, and the command's process
  gives the second copy of the index. The repository's model is installed at the
  start and the plain one is not, which two calls can turn into either.
* `serving`: three clients and the program itself, a local model and one of the
  cloud; `Asks` says which requests a program's clients may make, chosen so that
  each program meets the requests that race there. Two tokens through a channel
  of one (`Cap`) make the generating task wait; two attempts at a port, two turns,
  two changes of the mesh's connections.
* `account`: two commands of the pages at once, one command typed in a terminal,
  one restart; the first file is of an earlier version, with the key in it.
* `chat`: two turns, two visits of the page, one conversation that is created and
  deleted, a local model and two mesh peers; two tokens and one.

### Fairness, and why the code justifies it

* Tasks that can run are scheduled (weak fairness of handlers, start, stop, the
  loop's handlers, receive loops and worker tasks): tokio runs every woken task.
  The transport's handshakes and the coordinator's requests carry time-outs, so an
  await of them ends; where an await has none, this is said below.
* `coordinator`: strong fairness of the prune pass and handlers, which wait for
  entry locks that are free again and again. It binds no step of the run's other parts.
* `mesh_node`: strong fairness of the three timers: `select!` picks at random among
  the branches that are ready, and an interval that has come due stays ready.
* `mesh_session`: weak fairness only; the inbox's mutex is queued. Nothing is
  assumed of the caller or the connection. A contributor's steps, its timer and its
  heartbeats have it as well; the coordinator and the background node have none.
* `layer_setup`, `pipeline`: weak fairness of the calls' and the workers' tasks,
  which stands for loads and forward passes that end. The state's mutex is queued,
  and nobody keeps it for ever.
* `download`: weak fairness of each call's step, *not* of its outcome: nothing
  has to succeed for a call to end. Its client has connect and read time-outs
  (`download.rs:130`).
* `registry`: weak fairness of each call's step but the two that wait for Hugging
  Face, `Answered` and `FilesListed`: that client has no time-out
  (`huggingface.rs:50`). `AnsweredCallsEnd` makes their coming its premise, for the call
  itself and for the searches whose lock it waits for, and says that then no order of
  locks, downloads and kills leaves a call waiting.
* `serving`: weak fairness of handlers, blocking tasks and the program, for steps
  that nothing outside owes (`Owed`). A generation of a peer (`initiator.rs:437`) or a
  provider, a request to Hugging Face, and the client's reading have no time-out;
  `AnsweredCallsEnd` is about the behaviours in which each of these comes again and
  again. No kind of them can be left out of the premise: TLC then finds a call that waits
  for ever.
* `account`: weak fairness of a write, which returns; strong fairness of each
  command, as one that waits for the mutex finds it free again and again and tokio
  hands it out in turn. Its HTTP client has no time-out, so that "a request is
  answered or fails" is assumed of the connection, not of the code.
* `chat`: weak fairness of the page's handlers and the streaming command, the latter
  without `LosePeer`, as `stream_mesh_peer_chat` has no time-out. The swarms
  and the cloud call have no liveness property, and need no fairness.

Deadlock is checked for the coordinator, the node, the swarms and the programs of
`serving`, which come to rest at a step of their own. In the other
runs a set of calls may be finished; that they do not stop early is what their
liveness properties say. A cloud call may stay as it is at any step, as its provider
may fall silent: nothing is promised of it.

## 4. What is proved

TLAPS proves the theorems below for every value of the constants that satisfies
the module's named assumption, by the usual three facts (initially, preserved by
every step, implies the property) about an inductive invariant.

**`Coordinator_proofs`** (assumption `CoordinatorAssumption`).
`TypeCorrect`. `SignalCapHolds` and `SignalsOrdered` from `SignalInv`, which adds
that what was polled was accepted. `PaidOnceWithoutOverlap` and `ReportedKarma`
from `LedgerInv`: while the claims of a key have never overlapped, one task at
most is claiming it and nothing has been paid for it before that task's award;
and what is paid is recorded or its handler still holds the balance. The
property alone is not inductive: it does not say who may pay next. `PruneSafe`
from `PruneInv`: the entry under the prune pass's lock is stale as long as it is
held.

The same module has the theorems about `Swarm` (assumptions `SwarmAssumption`,
`FormationAssumption`: peers have memory, so that the error for none is not met;
models have layers and `min_layers_per_stage` is not 0, without which the strongest
peer could be rounded to no layers and a swarm formed without its leader;
`MIN_SWARM_SIZE` is two at least; the counter counts more than there are callers).
`SwarmCountsRequests` from `SwarmInv`: what a list of the router names has an entry in
`load` (`EntriesHaveLoad`); a swarm without one has no callers, unless it was dropped
under them (`NobodyUncounted`); and for the others the callers that run are the
counter, those that have chosen and run fit under the limit, and at most one has
chosen (`LoadCounts`) -- without the last two the next `request_started` could
break the property. `SwarmServesEveryLayer` and `SwarmKeepsItsSize` from `MembersInv`:
no two members are the same peer, memory is positive, a swarm in service has one leader,
who is active, and the ranges of the active members cover the model. That the functions
establish this is what most of the module is about: positions handed out by memory
rise from 0 to the number of layers (`HandedHands`), so that every layer falls in
a range (`HandsCover`); the stages of a plan are the positions that rise
(`StagesShare`); a group of candidates has no peer twice (`CandidatesDistinct`);
every swarm `form_swarms` makes is sound (`FormSwarmsSound`), and
`redistribute_layers`, a promotion, a departure and a join keep it so
(`RedistributedSound`, `PromotedSound`, `LedSound`, `DepartedSound`, `JoinedSound`).
`SwarmPlansProportionally` (assuming a peer and a pipeline of one stage at least, as
the schedulers answer with an error otherwise) has no invariant but that memory is
positive; it is about what the plans are. `n` peers get layers, the first `n`: before
them the position is short of the last layer, so that each gets what it is due, and
from the `n`th on it stays (`HandedSharesOut`); a proportion is the exact share to half
a layer (`ProportionRounds`); and by induction over the peers before the last, what the
rounding has cost them adds up to half a layer each at most, which is the last one's
bound when none of them got the least (`LastShare`); nothing promises the last one
the least, see `StagesReachLeast`. `StagesProportional` puts these
together for any list of peers, and `PlansShare` for the one each scheduler makes.
The induction over lists these need is done without the library's theorems for it:
`LeastNat` takes the least counterexample of a set of numbers from `WFMin`,
`InductionOnSet` turns that into induction, and `Recursion` takes the set of partial
solutions of a recursive definition and shows that one is total.

And it has the theorems about `CloudStream` (assumption `CloudStreamAssumption`:
conversations are of the four kinds of messages, replies of texts and tool calls).
`CloudEndsWhole` and `CloudAsksConversation` from `CloudInv`. The property speaks of a
call that has ended; the invariant takes the parser's buffer and the units on their way
as one window `buffer \o pipe`, which a read does not change but for halves of
characters it spoils (`ReadsStep`). In it every text is the second unit of a line
of its own and the sentinel comes last (`LinesOK`), and the texts are those from the one
after the last handed on to the last sent, in order (`TextsOK`). The parser takes a
line from the front and hands on the first text of the window or none (`LineParsed`);
the provider adds lines at the end, and while the connection is open the window ends
with a line's end and has no sentinel (`StreamOK`), so that the next text starts a line.
When the parser meets the sentinel nothing is behind it; when the connection is
closed the rest of the window is one line at most (`LeftoverParsed`): that `sse.rs`
parses what is left after the loop is what makes the last text arrive. For `generate` the
blocks of an answer are put back in the order they came in (`TextsAreFirst`: texts first
changes nothing of a reply that is texts first). That a request is the conversation
is about the bodies only (`BodyConverses`), and rests on the turns being an ascending list
of the messages' places (`AscendingRises`).

**`MeshNode_proofs`** (assumption `MeshNodeAssumption`). `TypeCorrect`;
`QuietStopFinal`, `QuietStopUnlisted` and `QuietStopUnlisting` from `StopInv`:
after a quiet stop no other task has work left (`QuietPhase`), what the caller
has achieved so far (`QuietProgress`), and the client holds the record whenever
the coordinator may list the node (`RecordHeld`), without which `stop` could skip
the DELETE.

The same module has the theorems about `Commands` and what it extends (assumptions
`InferenceAssumption`, `ServingAssumption`, `CommandsAssumption`), about `CommandsSpec`
without its fairness: `ServingListsServed` and `ServingAnswersWhole` from `ServingInv`.
What a listed name needs is in no single place: a handle is made by a task, tracked
by the call that waits for it, entered in the map by that call, and taken out and
unloaded by another, each under a lock of its own or none. `HoldersOK` follows it:
the map, the calls about to enter a handle, the tasks that have read one, the calls
unloading one and the chat that keeps one name no handle twice between them, so that
an unload takes nothing from a listed name; `InService` says that what is listed or
about to be is in every table it has to be in, and `MadeOK` that nobody has a handle the
counter has yet to reach. `Room` bounds the handles by the calls that may still make one,
so that the tables, functions on a finite set here, have a place for each. The second theorem rests on
`StreamOK`: what a client has been sent and what is in its channel are everything
generated, unless an error is at the channel's end or has been sent.

**`LayerSetup_proofs`** (assumption `LayerSetupAssumption`: a plan names no worker
twice). `TypeCorrect`, `StageIsHeld`, `ReadyMeansLoaded` and `OnlyOverwritingLoses`
from `Inv`. That counting acknowledgements is enough to be ready needs
`Assignments` and `Answers` (an assignment and an acknowledgement are under way at
most once) and `Counted`: some set of positions of the plan, as many as were
counted, has been acknowledged and has nothing left in the inbox; when it is as
large as the plan it is the plan. `Stages` and `StillThere` tie the stage, the
handles and the tasks together. The steps on a handler are proved once
(`HandlerSteps`: quiet, load, store, take or free) and used by each of these.

The same module has the theorems about `RegistryCommands` and what it extends
(assumptions `RegistryAssumption`, which counts the files there may be as finite, and
`RegistryCommandsAssumption`). `RegistryListsDisk` and `RegistryKeepsChoice` are
properties of steps, so that the state they need is type correctness
(`RegistryTypeCorrect`) -- that what an index names is a file or a blob, that a scan
found files, and that a call on its way to the index has a file to record -- and the
work is in what `reconcile` does to an entry for all indexes and scans: an entry
whose file is there stays (`ReconciledKeeps`), and an index reconciled with the disk as it
is agrees with it (`ReconciledInLine`), through the choice of a directory's file
(`PickedIsFound`, which takes a largest file to exist). `ChangesOf` says
what a step can make of a process's index. A reconciliation with an
older scan falls under the first theorem too: it may list too much, but exchanges no
file that is there.

**`Download_proofs`** (assumption `DownloadAssumption`). `TypeCorrect`, together
with `HandlesOpen` (a handle that names a file finds it), holds with overlapping
calls too. `SerialMeta`, `SerialFullLength` and `SerialSource` assume `~Overlap`
(calls one after another, as many as there are) and rest on `SerialInv`: at most
one call runs (`Alone`), the meta tells the truth (`MetaNamesPartial`), and
`CallInv`, what a call knows at each point of its way. Its byte count is the
partial's length when it asks, and while it streams too, or one more when the last
write failed: so a range is appended where it starts, and a partial never has a hole
or more than its source. The meta is its own once recorded; a file past the length
check has the length that is known, and past the other check its source's bytes.
Nothing is assumed of the answers but what `Tells` says.

**`MeshSession_proofs`** (assumptions `MeshSessionAssumption`,
`MeshCommandsAssumption`), about `MeshCommands`' `Spec`, so that the commands' steps
are covered too. `WholeIfAlone` from `Inv`. The property says nothing of what is
under way, so that `Inv` follows a stream from the worker to the caller: a session
is asked of one worker once, and nothing is made or sent for it before
(`AskedOnce`); its tokens lie in the inbox in the order they were made, behind the
last one handed over and not beyond the last one made (`InOrder`); a final message
comes from a worker that makes no more (`FinalIsLast`); two sessions that read have
disturbed each other (`AloneIfUndisturbed`). For an undisturbed one `Whole` adds
that nothing is missing: before a token in the inbox come all that the caller does
not have yet (`Coming`), before a final message all there are, and as long as the
connection holds every token made is there. `Refines`: every step is a step of
`TokenStream` or a stutter under `sent <- made`, `last <-` the last token handed
over, `over <-` the loop has ended. A token that is handed over is a `Deliver`
because `InOrder` puts it after the last one. Sharing the inbox does not matter
here: a session drops what is not its own, so that this half needs no history.

**`Pipeline_proofs`** (assumption `PipelineAssumption`: plans are not empty and name no
worker twice). `TokensComputed` from `Inv`. `Routed` keeps every message between the
nodes of its session's plan, `Unstarted` says that a session that has not begun has
sent nothing, `Counted` bounds the loops over the plan, and `Apart` says that what
an undisturbed session could meet is not under way while it is. `Progress` then
says of an undisturbed session where it is (`OnCourse`). During set-up there is for each worker one
assignment or one acknowledgement on the connections of its plan (`AssignedAt`), and
the acknowledgements counted are no more than the stages that have loaded and have
nothing left under way (`Done`): counting as many as there are workers makes every
stage ready. While it streams there is one message at most: the activation for stage
`i`, which the stages before `i` have computed, whose caches are one position ahead
of the others' (`Passed`), or the logits of the last stage, or an error
(`UnderWay`). Hence the logits taken are those of the position asked for, although
`stream_tokens` does not look. A message that a worker fails to send leaves the place
empty, and the session waits there: what it has handed on stays right. That the steps of the other sessions disturb none of
this is one lemma: they touch no node of the session's plan, as they would have met it.

**`Account_proofs`** (assumption `AccountAssumption`: no tool at all is told from one). `LogoutStays`, `SignInStays` and `KeyStays` from
`Inv`, which adds to each promise who else could still break it: while a logout is
final nothing that may yet be saved -- the form, the tool's copy, what a write under way
may leave -- holds tokens, and no command is at a step that ends with some (`StaysOut`);
while a sign-in lasts everything that may be saved holds them, and no logout is under
way (`StaysIn`); while the keychain does not hold the key, memory, form and tool's copy
all do, and so does the file, unless the one process that is writing it does
(`KeyHeld`). A write that ends with less than it was given, that meets another or is
met by a reader ends the promises of the file by `Meets`; that nothing else does is
what the last two theorems say.

**`Chat_proofs`** (assumption `ChatAssumption`). `OwnReply`, `KeptReply` and
`Orphanless` from `Inv`: a stream runs for a turn that waits for it (`Stages`); a turn
that no other one ran beside is the only one that is sent, the only listener is its
own, and it is there unless the page was stopped (`Alone`); what its page has in the
buffer is the start of its stream's tokens and the events on their way are the rest
(`InOrder`), until stop is pressed; so the text it is about to store is its own
(`InHand`), and what is stored was stored by turns that are over (`Written`).
`KeptReply` needs of `Stages` that a stream that ends well has produced something,
and `Orphanless` holds as the database refuses what has no conversation. Both are
about all turns, mixed ones included.

**Proved, and not run.** What holds for every value of the constants by proof is
not checked once more on a small instance: type correctness of these eight modules
(`TypeCorrect`, or the first conjunct of `Inv` in the theorem `Invariant`), of the registry
(`RegistryTypeCorrect`),
`SignalCapHolds`, `StageIsHeld`, `QuietStopUnlisting`, `ReportedKarma` (a reported
balance contains no award of an unrecorded receipt), `SwarmPlansProportionally`
(its `PlansProportional` speaks of functions of constants) and `SerialMeta`.

**Model-checked only.** Liveness under fairness and ENABLED are beyond the
prover: `HandlersReturn`, `MaintenanceEnds`, `RecoversListing`, `UndisturbedEnds`,
`ContributorIsListed`, `UndisturbedSetupEnds`, `UndisturbedPipelineEnds`,
`EveryCallEnds`, the `AnsweredCallsEnd` of `registry` and of `serving`,
`CallsEnd`, and `TurnsEnd`. Every invariant and every action
property the passing runs check is proved: the two of `download` for calls one after
another, as its run has them, the others as they stand.
No module with a theorem reaches a RECURSIVE operator.

## 5. The plan

### Not modelled, and why

`PROJECT.json` gives the status of every component.

* *No state that several tasks change*: prompts, tools and structured output, the
  profiler and recommender (readings of the machine and scores over them, in
  floating point), the web build, the views of the desktop application and the
  commands that only print. `hivebear convert` starts an external program.
* *Not reached by any application*: peer exchange, speculative decoding, the
  verification round of `trust`, the daemon's `ActivationTensor` (whose answer
  `stream_tokens` ignores), `PeerHealthMonitor`, the router's queue (which nothing
  fills), `connect_to_peer`. They are exercised by their unit tests.
* *Outside this code*: STUN and relays, the third-party engines' numeric code, key
  handling, TLS, framing and compression.
* *Left out of modelled components*: LAN discovery's cache; a second initiator's
  identity check (the verifier pins one certificate name, so that a transport
  connects to one instance of a peer only); reuse of a `PipelineInitiator`;
  errors of `recv`, which come at shutdown only; the orchestrator's ring of events
  and the selector's ranking; the choice and saving of the server's API key; the
  registry search that `resolve_model` falls back to; chat history (a dispatch
  that fails leaves its prompt unanswered); a benchmark of no iterations, which
  divides by zero (`hivebear-inference/src/benchmark.rs`); rename, search, listing
  and order of conversations; account mode, tier, licence and names, which are only
  shown.

### Next, in order

1. `Coordinator`: the lock order of the map guards, the safety half of
   `HandlersReturn` (no cycle of waiting handlers), as an invariant in
   `Coordinator_proofs`.
2. LAN discovery's announcements and cache, should the node come to depend on them.
