----------------------------- MODULE MeshCommands -----------------------------
(***************************************************************************)
(* Who makes the calls of MeshSession and who serves them: the library's   *)
(* callers on a node with connected peers, and the two commands            *)
(* `hivebear contribute' (cmd_contribute) and `hivebear mesh run'          *)
(* (cmd_mesh_run, crates/hivebear-cli/src/main.rs), which meet at the      *)
(* coordinator.                                                            *)
(*                                                                         *)
(* A contributor runs the worker daemon on a transport of its own, beside  *)
(* the background node every command starts under the same identity        *)
(* (maybe_start_mesh): both write the coordinator's record of that id, and *)
(* on one port only the first of the two listens.  Neither command's       *)
(* transport is ever dialled back, so a mesh run that has sent its request *)
(* has nothing to receive.                                                 *)
(***************************************************************************)
EXTENDS MeshSession

CONSTANTS
  Contributors,  \* workers that are `hivebear contribute' processes
  Turns,         \* sessions that are prompts of the mesh run
  Nobody         \* no worker

ASSUME MeshCommandsAssumption ==
  /\ Contributors \subseteq Workers \ Dialled
  /\ Turns \subseteq Sessions
  /\ Nobody \notin Workers

VARIABLES
  program,    \* the calls of the library, or the two commands
  phase,      \* contributor |-> where cmd_contribute stands
  hb,         \* contributor |-> where its heartbeat task stands
  cancelled,  \* contributor |-> hb_cancel has been notified
  client,     \* contributor |-> its coordination client keeps its record
  node,       \* contributor |-> its background node is on
  holder,     \* contributor |-> who listens at the port it advertises
  rec,        \* contributor |-> the coordinator's record of its id
  up,         \* the coordinator can be reached
  run,        \* where the mesh run stands
  chosen,     \* the peer it uses
  reached,    \* who listens at that peer's address
  asked       \* prompts it has sent

contributeVars == <<phase, hb, cancelled, client, node, holder, rec>>
runVars  == <<run, chosen, reached, asked>>
commandVars == <<program, contributeVars, up, runVars>>
allVars == <<vars, commandVars>>

Calls == Sessions \ Turns

-----------------------------------------------------------------------------
(* Slips a change of the code could make, each the mutant of the definition  *)
(* it is named after                                                         *)

\* The client keeps the record of a registration that was accepted only.
KeepsAccepted(w) == client' = [client EXCEPT ![w] = up]

-----------------------------------------------------------------------------
\* The bound on the composition: a behaviour is one program's.
Init ==
  /\ program \in {"calls", "commands"}
  /\ NoCalls
  /\ link = [w \in Workers |-> IF program = "calls" /\ w \in Dialled THEN "up" ELSE "down"]
  /\ phase = [w \in Contributors |-> "off"] /\ hb = [w \in Contributors |-> "none"]
  /\ cancelled = [w \in Contributors |-> FALSE]
  /\ client = [w \in Contributors |-> FALSE]
  /\ node = [w \in Contributors |-> FALSE]
  /\ holder = [w \in Contributors |-> "nobody"]
  /\ rec = [w \in Contributors |-> "none"]
  /\ up \in BOOLEAN /\ (program = "calls" => up)
  /\ run = "off" /\ chosen = Nobody /\ reached = "nobody" /\ asked = {}

\* A call of the library.
Call(s) ==
  /\ program = "calls"
  /\ Request(s)
  /\ UNCHANGED commandVars

-----------------------------------------------------------------------------
(* The coordinator: register and heartbeat both write the record *)

Post(w, r) == rec' = IF up THEN [rec EXCEPT ![w] = r] ELSE rec

At(w, p) == phase[w] = p
Goto(w, p) == phase' = [phase EXCEPT ![w] = p]

-----------------------------------------------------------------------------
(* hivebear contribute *)

\* main: the background node, if it is enabled, is started first.
Starts(w) ==
  /\ program = "commands" /\ At(w, "off")
  /\ Goto(w, "register")
  /\ \E on \in BOOLEAN, same \in BOOLEAN :
       /\ node' = [node EXCEPT ![w] = on]
       /\ holder' = [holder EXCEPT ![w] = IF on /\ same THEN "node" ELSE "nobody"]
  /\ UNCHANGED <<program, hb, cancelled, client, rec, up, runVars, vars>>

\* The client keeps the record before it posts it.
KeepsRecord(w) == client' = [client EXCEPT ![w] = TRUE]

\* A registration that fails is a warning; the heartbeats start anyway.
Registers(w) ==
  /\ At(w, "register")
  /\ Goto(w, "match")
  /\ KeepsRecord(w) /\ Post(w, "serving")
  /\ hb' = [hb EXCEPT ![w] = "waiting"]
  /\ UNCHANGED <<program, cancelled, node, holder, up, runVars, vars>>

\* Matchmaking: its failure is a warning.
Matchmakes(w) ==
  /\ At(w, "match")
  /\ \E next \in {"join", "load"} : Goto(w, next)
  /\ UNCHANGED <<program, hb, cancelled, client, node, holder, rec, up, runVars, vars>>

\* Joining the swarm it was given: its failure is a warning, too.
Joins(w) ==
  /\ At(w, "join")
  /\ Goto(w, "load")
  /\ UNCHANGED <<program, hb, cancelled, client, node, holder, rec, up, runVars, vars>>

\* The model is missing or cannot be loaded: the command returns and leaves
\* its record at the coordinator and its heartbeats running.
Loads(w) ==
  /\ At(w, "load")
  /\ \E next \in {"listen", "returned"} : Goto(w, next)
  /\ UNCHANGED <<program, hb, cancelled, client, node, holder, rec, up, runVars, vars>>

\* A port that is taken is replaced by any free one; the record keeps the first.
TakesPort(w) ==
  holder' = [holder EXCEPT ![w] = IF @ = "nobody" THEN "daemon" ELSE @]

Listens(w) ==
  /\ At(w, "listen")
  /\ \/ Goto(w, "serving") /\ TakesPort(w)
     \/ Goto(w, "returned") /\ UNCHANGED holder
  /\ UNCHANGED <<program, hb, cancelled, client, node, rec, up, runVars, vars>>

\* Ctrl-C: the heartbeat task is notified.
Interrupted(w) ==
  /\ At(w, "serving")
  /\ Goto(w, "leave")
  /\ cancelled' = [cancelled EXCEPT ![w] = TRUE]
  /\ UNCHANGED <<program, hb, client, node, holder, rec, up, runVars, vars>>

\* Leaving the swarm, if it was given one; an error is ignored.
Leaves(w) ==
  /\ At(w, "leave")
  /\ Goto(w, "deregister")
  /\ UNCHANGED <<program, hb, cancelled, client, node, holder, rec, up, runVars, vars>>

\* The DELETE; the client's lock is given back before the record is forgotten.
Deregisters(w) ==
  /\ At(w, "deregister")
  /\ Goto(w, "forget")
  /\ Post(w, "none")
  /\ UNCHANGED <<program, hb, cancelled, client, node, holder, up, runVars, vars>>

Forgets(w) ==
  /\ At(w, "forget")
  /\ Goto(w, "returned")
  /\ client' = [client EXCEPT ![w] = FALSE]
  /\ UNCHANGED <<program, hb, cancelled, node, holder, rec, up, runVars, vars>>

\* main stops the background node, which deregisters the id if it ever kept a
\* record of its own, and the process ends.
StopsNode(w) ==
  /\ At(w, "returned")
  /\ Goto(w, "exit")
  /\ node' = [node EXCEPT ![w] = FALSE]
  /\ \/ node[w] /\ Post(w, "none")
     \/ UNCHANGED rec
  /\ UNCHANGED <<program, hb, cancelled, client, holder, up, runVars, vars>>

Exits(w) ==
  /\ At(w, "exit")
  /\ Goto(w, "exited")
  /\ hb' = [hb EXCEPT ![w] = "ended"]
  /\ holder' = [holder EXCEPT ![w] = "nobody"]
  /\ link' = [link EXCEPT ![w] = IF @ = "up" THEN "broken" ELSE @]
  /\ wire' = [wire EXCEPT ![w] = << >>]
  /\ work' = [s \in Sessions |-> IF Target[s] = w /\ work[s] # "none" THEN "ended" ELSE work[s]]
  /\ UNCHANGED <<program, cancelled, client, node, rec, up, runVars, callVars, inbox, made>>

-----------------------------------------------------------------------------
(* The heartbeat task, and the background node's own *)

\* Both branches of the select may be ready.
Ticks(w) ==
  /\ hb[w] = "waiting"
  /\ hb' = [hb EXCEPT ![w] = "asking"]
  /\ UNCHANGED <<program, phase, cancelled, client, node, holder, rec, up, runVars, vars>>

\* It is sent only while the client keeps the record; an error is ignored.
Heartbeats(w) ==
  /\ hb[w] = "asking"
  /\ hb' = [hb EXCEPT ![w] = "waiting"]
  /\ IF client[w] THEN Post(w, "serving") ELSE UNCHANGED rec
  /\ UNCHANGED <<program, phase, cancelled, client, node, holder, up, runVars, vars>>

Cancels(w) ==
  /\ hb[w] = "waiting" /\ cancelled[w]
  /\ hb' = [hb EXCEPT ![w] = "ended"]
  /\ UNCHANGED <<program, phase, cancelled, client, node, holder, rec, up, runVars, vars>>

\* The background node registers the same id, serving nothing.
NodePosts(w) ==
  /\ node[w] /\ Post(w, "node")
  /\ UNCHANGED <<program, phase, hb, cancelled, client, node, holder, up, runVars, vars>>

-----------------------------------------------------------------------------
(* hivebear mesh run *)

Listed == {w \in Contributors : rec[w] # "none"}
Serving == {w \in Contributors : rec[w] = "serving"}

\* A peer that advertises the model is preferred; without any peer, or without
\* the coordinator, the command gives up.
Finds ==
  /\ program = "commands" /\ run = "off"
  /\ \/ /\ up /\ Listed # {}
        /\ chosen' \in IF Serving # {} THEN Serving ELSE Listed
        /\ run' = "connect"
     \/ /\ ~up \/ Listed = {}
        /\ run' = "over" /\ UNCHANGED chosen
  /\ UNCHANGED <<program, contributeVars, up, reached, asked, vars>>

\* --peer
Given(w) ==
  /\ program = "commands" /\ run = "off"
  /\ chosen' = w /\ run' = "connect"
  /\ UNCHANGED <<program, contributeVars, up, reached, asked, vars>>

\* Who listens at the addresses of w's records: the contributor's and the node's.
Listeners(w) == ({holder[w]} \ {"nobody"}) \cup (IF node[w] THEN {"node"} ELSE {})

\* Whoever listens acknowledges the hello: the node, under the same id, too.
Connects ==
  /\ run = "connect"
  /\ run' = "prompt" /\ reached' \in Listeners(chosen)
  /\ link' = [link EXCEPT ![chosen] = "up"]
  /\ UNCHANGED <<program, contributeVars, up, chosen, asked, callVars, inbox, wire, workerVars>>

\* The model is run locally instead (Commands.tla).
ConnectFails ==
  /\ run = "connect"
  /\ run' = "local"
  /\ UNCHANGED <<program, contributeVars, up, chosen, reached, asked, vars>>

\* The request: one that cannot be sent leads to the next prompt.  A background
\* node drops it.  Otherwise recv waits for the reply.
Asks(t) ==
  /\ run = "prompt" /\ t \notin asked /\ Target[t] = chosen
  /\ asked' = asked \cup {t}
  /\ run' = IF link[chosen] = "down" THEN "prompt" ELSE "wait"
  /\ IF reached = "daemon" THEN ToWorkers({chosen}, Msg("request", t, 0)) ELSE UNCHANGED wire
  /\ UNCHANGED <<program, contributeVars, up, chosen, reached, callVars, inbox, link, workerVars>>

Quits ==
  /\ run = "prompt" /\ run' = "over"
  /\ UNCHANGED <<program, contributeVars, up, chosen, reached, asked, vars>>

-----------------------------------------------------------------------------
(* The coordinator comes and goes; it forgets a node when it restarts, or     *)
(* when it has not heard from it for 60 seconds                               *)

CoordinatorReachable ==
  /\ program = "commands"
  /\ up' = ~up
  /\ UNCHANGED <<program, contributeVars, runVars, vars>>

CoordinatorForgets(w) ==
  /\ rec[w] # "none"
  /\ rec' = [rec EXCEPT ![w] = "none"]
  /\ UNCHANGED <<program, phase, hb, cancelled, client, node, holder, up, runVars, vars>>

-----------------------------------------------------------------------------
Contribute(w) ==
  \/ Registers(w) \/ Matchmakes(w) \/ Joins(w) \/ Loads(w) \/ Listens(w)
  \/ Leaves(w) \/ Deregisters(w) \/ Forgets(w) \/ StopsNode(w) \/ Exits(w)

\* The steps of the sessions and daemons leave the commands where they are.
Apart == UNCHANGED commandVars

Next ==
  \/ \E s \in Calls : Call(s)
  \/ \E s \in Sessions :
       \/ SessionReads(s) /\ Apart
       \/ Release(s) /\ Apart
       \/ CallerLeaves(s) /\ Apart
       \/ WorkerToken(s) /\ Apart
       \/ WorkerFails(s) /\ Apart
       \/ WorkerDone(s) /\ Apart
       \/ WorkerComplete(s) /\ Apart
  \/ \E w \in Workers : \/ DaemonReceives(w) /\ Apart
                        \/ LinkBreaks(w) /\ Apart
  \/ \E w \in Contributors :
       \/ Starts(w) \/ Contribute(w) \/ Interrupted(w) \/ Ticks(w) \/ Heartbeats(w) \/ Cancels(w)
       \/ NodePosts(w) \/ Given(w) \/ CoordinatorForgets(w)
  \/ Finds \/ Connects \/ ConnectFails \/ Quits \/ CoordinatorReachable
  \/ \E t \in Turns : Asks(t)

Spec == Init /\ [][Next]_allVars

\* Tasks are scheduled, the model's output ends, and the inbox's lock, a fair
\* one, passes to every reader in turn.
Fairness ==
  /\ \A s \in Calls : WF_vars(SessionReads(s)) /\ WF_vars(Release(s))
  /\ \A s \in Sessions : WF_vars(WorkerStep(s))
  /\ \A w \in Workers : WF_vars(DaemonReceives(w))
  /\ \A w \in Contributors : WF_allVars(Contribute(w)) /\ WF_allVars(Ticks(w)) /\ WF_allVars(Heartbeats(w))
FairSpec == Spec /\ Fairness

-----------------------------------------------------------------------------
\* cmd_contribute, CoordinationServerClient::register, heartbeat: a contributor
\* that serves is listed as serving its model again and again, also if its only
\* registration failed, the coordinator forgets it or its background node
\* overwrites the record.
ContributorIsListed ==
  \A w \in Contributors :
    <>[](up /\ phase[w] = "serving") => []<>(rec[w] = "serving")

=============================================================================
