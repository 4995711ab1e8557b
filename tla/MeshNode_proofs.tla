-------------------------- MODULE MeshNode_proofs --------------------------
(* Theorems about the mesh node and about the programs around an inference   *)
(* orchestrator, which may load a model through a node.                      *)
(*                                                                           *)
(* Of the node: its types, and what a stop that finds nothing in flight      *)
(* achieves, for any set of peers, whoever answers at their addresses.       *)
(*                                                                           *)
(* Of the programs (Commands, Serving, Inference), for any calls, requests   *)
(* and bounds: what the server lists can be served, and an answer that ends  *)
(* without an error is whole.  ServingInv follows each handle from the       *)
(* counter through the task that loads it, the call that hands it over and   *)
(* the map, to the call that unloads it or the chat that keeps it.           *)
EXTENDS MeshNode, Commands, FiniteSetTheorems, TLAPS

IdleLoop == {"off", "spawned", "delay", "select", "ended"}

\* A dial in progress has its peer, and after the handshake who answered.
DialOK ==
  /\ loop \in {"connect", "insert"} => dial.to \in Peers
  /\ loop = "insert" => dial.answer \in Peers

Types == TypeOK /\ DialOK

\* The entries and dials an action stores.
LEMMA EntryForms ==
  ASSUME NEW s \in {"Connected", "Disconnected"}, NEW i \in Peers
  PROVE  Entry(s, i) \in Entries
  BY DEF Entry, Entries

LEMMA AbsentForm == Absent \in Entries
  BY DEF Entries

LEMMA DialForms ==
  /\ NoDial \in Dials
  /\ \A p \in Peers : [NoDial EXCEPT !.to = p] \in Dials
  /\ \A p \in Peers : [NoDial EXCEPT !.to = p].to = p
  /\ \A d \in Dials, q \in Peers : [d EXCEPT !.answer = q] \in Dials
  /\ \A d \in Dials, q \in Peers : [d EXCEPT !.answer = q].answer = q
  /\ \A d \in Dials, q \in Peers : [d EXCEPT !.answer = q].to = d.to
  BY DEF NoDial, Dials

\* Marking a known entry leaves an entry.
LEMMA MarkForms ==
  ASSUME NEW e \in Entries, e # Absent
  PROVE  [e EXCEPT !.state = "Disconnected"] \in Entries
  BY DEF Entries, Absent

LEMMA IdsOnRecord ==
  ASSUME Types
  PROVE  ToPing \subseteq Peers
  BY DEF ToPing, Connected, Types, TypeOK, Absent, Entries

\* An action stores truth values in the flags it touches.
LEMMA FlagStep ==
  ASSUME FlagsOK, [Next]_vars
  PROVE  FlagsOK'
  <1> USE DEF FlagsOK, flagVars, pcVars, peerVars
  <1>1. CASE StartBackground \/ StartStep
    BY <1>1, Zenon DEF StartBackground, StartStep, Listen, StartSetInfo, StartRegister,
                StartMaintenance, RegisterPost, Post
  <1>2. CASE StopMark
    <2>1. quiet' \in BOOLEAN
      BY <1>2, Zenon DEF StopMark, Quiet
    <2> QED BY <1>2, <2>1, Zenon DEF StopMark
  <1>7. CASE StopNotify
    <2>1. Waiting \in BOOLEAN
      BY DEF Waiting
    <2> QED BY <1>7, <2>1, Zenon DEF StopNotify
  <1>8. CASE StopDisconnect \/ StopClear \/ StopForget
    BY <1>8, Zenon DEF StopDisconnect, StopClear, StopForget
  <1>9. CASE StopDeregister
    BY <1>9, Zenon DEF StopDeregister
  <1>3. CASE LoopEnds \/ DiscoveryTick \/ HeartbeatTick \/ HealthTick
    BY <1>3, Zenon DEF LoopEnds, DiscoveryTick, HeartbeatTick, HealthTick
  <1>4. CASE LoopBegins \/ LoopSetInfo \/ LoopRegister
    BY <1>4, Zenon DEF LoopBegins, LoopSetInfo, LoopRegister, RegisterPost, Post
  <1>10. CASE Heartbeat
    BY <1>10, Zenon DEF Heartbeat, Post
  <1>11. CASE FindPeers \/ ConnectFails \/ Insert \/ HandlerDone
    BY <1>11, Zenon DEF FindPeers, ConnectFails, Insert, HandlerDone
  <1>12. ASSUME NEW i \in Peers, PingPeer(i) \/ SkipPeer(i) \/ DialPeer(i) \/ Connect(i)
         PROVE  FlagsOK'
    BY <1>12, Zenon DEF PingPeer, SkipPeer, DialPeer, Connect
  <1>5. CASE World
    BY <1>5, Zenon DEF World, CoordinatorReachable, CoordinatorForgets, ConnectionLost
  <1>6. CASE UNCHANGED vars
    BY <1>6, Zenon DEF vars
  <1> QED
    BY <1>1, <1>2, <1>3, <1>4, <1>5, <1>6, <1>7, <1>8, <1>9, <1>10, <1>11, <1>12
    DEF Next, StopStep, LoopStep

LEMMA TypeStep ==
  ASSUME Types, [Next]_vars
  PROVE  Types'
  <1> USE MeshNodeAssumption
  <1> USE DEF Types, TypeOK, DialOK, LoopStates, flagVars, pcVars, peerVars
  <1>0. FlagsOK'
    BY FlagStep
  <1>1. CASE StartBackground \/ StartStep
    BY <1>0, <1>1 DEF StartBackground, StartStep, Listen, StartSetInfo, StartRegister,
                StartMaintenance, RegisterPost, Post
  <1>2. CASE StopMark
    BY <1>0, <1>2 DEF StopMark, Quiet
  <1>3. CASE StopNotify \/ StopDeregister \/ StopForget
    BY <1>0, <1>3 DEF StopNotify, Waiting, StopDeregister, StopForget
  <1>4. CASE StopDisconnect
    BY <1>0, <1>4 DEF StopDisconnect
  <1>5. CASE StopClear
    BY <1>0, <1>5, AbsentForm DEF StopClear
  <1>6. CASE LoopBegins \/ LoopEnds \/ DiscoveryTick \/ HeartbeatTick \/ HandlerDone
    BY <1>0, <1>6 DEF LoopBegins, LoopEnds, DiscoveryTick, HeartbeatTick, HandlerDone, Waiting
  <1>7. CASE Heartbeat \/ LoopSetInfo \/ LoopRegister
    BY <1>0, <1>7 DEF Heartbeat, LoopSetInfo, LoopRegister, RegisterPost, Post
  <1>8. CASE HealthTick
    BY <1>0, <1>8, IdsOnRecord DEF HealthTick
  <1>9. ASSUME NEW i \in Peers, PingPeer(i)
        PROVE  Types'
    <2>1. peers' \in [Peers -> Entries]
      BY <1>0, <1>9, MarkForms DEF PingPeer, Known, Entries
    <2> QED BY <1>0, <1>9, <2>1 DEF PingPeer, Entries
  <1>10. CASE FindPeers
    BY <1>0, <1>10 DEF FindPeers
  <1>11. ASSUME NEW p \in Peers, SkipPeer(p)
         PROVE  Types'
    BY <1>0, <1>11 DEF SkipPeer
  <1>12. ASSUME NEW p \in Peers, DialPeer(p)
         PROVE  Types'
    <2>1. dial' \in Dials /\ dial'.to = p
      BY <1>0, <1>12, DialForms DEF DialPeer
    <2> QED BY <1>0, <1>12, <2>1 DEF DialPeer, Dials
  <1>13. ASSUME NEW q \in Peers, Connect(q)
         PROVE  Types'
    <2>1. /\ dial' \in Dials
          /\ dial'.answer = q /\ dial'.to \in Peers
      BY <1>0, <1>13, DialForms DEF Connect, Dials
    <2>2. conn' \subseteq Peers
      BY <1>0, <1>13 DEF Connect, Punched
    <2> QED BY <1>0, <1>13, <2>1, <2>2 DEF Connect, Dials
  <1>14. CASE ConnectFails
    <2>1. conn' \subseteq Peers
      BY <1>0, <1>14 DEF ConnectFails, Punched
    <2> QED BY <1>0, <1>14, <2>1, DialForms DEF ConnectFails, Dials
  <1>15. CASE Insert
    <2>1. peers' \in [Peers -> Entries]
      BY <1>0, <1>15, EntryForms DEF Insert, Entries
    <2> QED BY <1>0, <1>15, <2>1, DialForms DEF Insert, Dials, Entries
  <1>16. CASE World
    BY <1>0, <1>16 DEF World, CoordinatorReachable, CoordinatorForgets, ConnectionLost
  <1>17. CASE UNCHANGED vars
    BY <1>0, <1>17 DEF vars
  <1> QED
    BY <1>1, <1>2, <1>3, <1>4, <1>5, <1>6, <1>7, <1>8, <1>9, <1>10, <1>11, <1>12,
       <1>13, <1>14, <1>15, <1>16, <1>17
    DEF Next, StopStep, LoopStep

LEMMA TypesInit == Init => Types
  <1>1. Init => FlagsOK
    BY Zenon DEF Init, FlagsOK
  <1>2. Init => DialOK
    BY DEF Init, DialOK
  <1> QED
    BY <1>1, <1>2, AbsentForm, DialForms DEF Init, Types, TypeOK, LoopStates

LEMMA TypesAlways == Spec => []Types
  <1>1. Init => Types
    BY TypesInit
  <1> QED BY <1>1, TypeStep, PTL DEF Spec

\* The node's flags, tasks, entries and connections have their types.
THEOREM TypeCorrect == Spec => []TypeOK
  BY TypesAlways, PTL DEF Types

-----------------------------------------------------------------------------
\* After a quiet call of stop no task of the node has work left but the caller.
QuietPhase ==
  quiet => /\ stop # "none" /\ ~running
           /\ start \in {"done", "failed"}
           /\ loop \in IdleLoop

\* What the caller has achieved so far.
QuietProgress ==
  /\ quiet /\ stop \in {"deregister", "forget", "done"} => \A p \in Peers : peers[p] = Absent
  /\ quiet /\ stop = "done" => ~nodeInfo

\* Until stop forgets it, the client holds our record whenever a registration
\* is under way, was made, or can have been made.
RecordHeld ==
  stop \in {"none", "notify", "disconnect", "clear", "deregister"} =>
    /\ start \in {"register", "maintain", "done"} => nodeInfo
    /\ loop # "off" => start = "done"
    /\ listed => nodeInfo

StopInv == Types /\ QuietPhase /\ QuietProgress /\ RecordHeld

LEMMA StopStepInv ==
  ASSUME StopInv, [Next]_vars
  PROVE  StopInv'
  <1> USE DEF StopInv, QuietPhase, QuietProgress, RecordHeld, IdleLoop,
              flagVars, pcVars, peerVars
  <1>0. Types'
    BY TypeStep
  <1>1. CASE StartBackground \/ StartStep
    BY <1>0, <1>1 DEF StartBackground, StartStep, Listen, StartSetInfo, StartRegister,
                StartMaintenance, RegisterPost, Post, Types, TypeOK
  <1>2. CASE StopMark
    BY <1>0, <1>2 DEF StopMark, Quiet
  <1>3. CASE StopNotify \/ StopDeregister \/ StopForget \/ StopDisconnect
    BY <1>0, <1>3 DEF StopNotify, Waiting, StopDeregister, StopForget, StopDisconnect
  <1>5. CASE StopClear
    BY <1>0, <1>5 DEF StopClear
  <1>6. CASE LoopBegins \/ LoopEnds \/ DiscoveryTick \/ HeartbeatTick \/ HandlerDone
    BY <1>0, <1>6 DEF LoopBegins, LoopEnds, DiscoveryTick, HeartbeatTick, HandlerDone, Waiting, MayWork
  <1>7. CASE Heartbeat \/ LoopSetInfo \/ LoopRegister
    BY <1>0, <1>7 DEF Heartbeat, LoopSetInfo, LoopRegister, RegisterPost, Post
  <1>8. CASE HealthTick \/ FindPeers \/ ConnectFails \/ Insert
    BY <1>0, <1>8 DEF HealthTick, MayWork, FindPeers, ConnectFails, Insert
  <1>9. ASSUME NEW i \in Peers, PingPeer(i) \/ SkipPeer(i) \/ DialPeer(i) \/ Connect(i)
        PROVE  StopInv'
    BY <1>0, <1>9 DEF PingPeer, SkipPeer, DialPeer, Connect
  <1>16. CASE World
    BY <1>0, <1>16 DEF World, CoordinatorReachable, CoordinatorForgets, ConnectionLost
  <1>17. CASE UNCHANGED vars
    BY <1>0, <1>17 DEF vars
  <1> QED
    BY <1>1, <1>2, <1>3, <1>5, <1>6, <1>7, <1>8, <1>9, <1>16, <1>17
    DEF Next, StopStep, LoopStep

LEMMA StopInvAlways == Spec => []StopInv
  <1>1. Init => StopInv
    BY TypesInit DEF Init, StopInv, QuietPhase, QuietProgress, RecordHeld
  <1> QED BY <1>1, StopStepInv, PTL DEF Spec

\* stop: when a call that found nothing in flight returns, the node is down and
\* knows no peer, and no handler runs or will run.
THEOREM QuietStopFinal == Spec => []QuietStopIsFinal
  <1>1. StopInv => QuietStopIsFinal
    BY DEF StopInv, QuietPhase, QuietProgress, QuietStopIsFinal, IdleLoop, Known
  <1> QED BY <1>1, StopInvAlways, PTL

\* ... and nothing lists the node at the coordinator again.
THEOREM QuietStopUnlisted == Spec => QuietStopStaysUnlisted
  <1>1. ASSUME StopInv, [Next]_vars
        PROVE  [quiet /\ stop = "done" /\ ~listed => ~listed']_vars
    <2> SUFFICES ASSUME quiet, stop = "done", ~listed, Next
                 PROVE  ~listed'
      BY <1>1
    <2>1. /\ start \in {"done", "failed"} /\ ~nodeInfo
          /\ loop \notin {"heartbeat", "register"}
      BY <1>1 DEF StopInv, QuietPhase, QuietProgress, IdleLoop
    <2>2. listed' = listed \/ ~listed'
      BY <2>1 DEF Next, StartBackground, StartStep, Listen, StartSetInfo, StartRegister,
         StartMaintenance, StopMark, StopStep, StopNotify, StopDisconnect, StopClear,
         StopDeregister, StopForget, LoopStep, LoopBegins, LoopEnds, DiscoveryTick,
         HeartbeatTick, HealthTick, Heartbeat, LoopSetInfo, LoopRegister, PingPeer,
         FindPeers, SkipPeer, DialPeer, Connect, ConnectFails, Insert, HandlerDone,
         World, CoordinatorReachable, CoordinatorForgets, ConnectionLost
    <2> QED BY <2>2
  <1> QED BY <1>1, StopInvAlways, PTL DEF Spec, QuietStopStaysUnlisted

\* ... and a coordinator that could be reached has dropped it.
THEOREM QuietStopUnlisting == Spec => QuietStopUnlists
  <1>1. ASSUME StopInv, [Next]_vars
        PROVE  [quiet /\ stop = "deregister" /\ stop' # stop /\ up => ~listed']_vars
    <2> SUFFICES ASSUME quiet, stop = "deregister", stop' # stop, up, Next
                 PROVE  ~listed'
      BY <1>1
    <2>1. StopDeregister
      BY DEF Next, StartBackground, StartStep, Listen, StartSetInfo, StartRegister,
         StartMaintenance, StopMark, StopStep, StopNotify, StopDisconnect, StopClear,
         StopForget, LoopStep, LoopBegins, LoopEnds, DiscoveryTick,
         HeartbeatTick, HealthTick, Heartbeat, LoopSetInfo, LoopRegister, PingPeer,
         FindPeers, SkipPeer, DialPeer, Connect, ConnectFails, Insert, HandlerDone,
         World, CoordinatorReachable, CoordinatorForgets, ConnectionLost, pcVars
    <2>2. listed => nodeInfo
      BY <1>1 DEF StopInv, RecordHeld
    <2> QED BY <2>1, <2>2 DEF StopDeregister
  <1> QED BY <1>1, StopInvAlways, PTL DEF Spec, QuietStopUnlists

-----------------------------------------------------------------------------
(* The programs around an orchestrator                                       *)

Ops == {"none", "chat", "pull", "delete", "list", "tags", "boot", "turn"}
Places == {"new", "look", "resolve", "load", "insert", "dispatch", "start", "stream", "collect",
           "pull", "follow", "delete", "unload", "forget", "untrack", "remove", "tags", "over"}
CallRecords == [op : Ops, name : Names \cup {NoName}, streamed : BOOLEAN, at : Places,
                handle : Nat, engine : Engines \cup {NoEngine},
                result : {"none", "ok", "error", "refused"}]
MainRecords == [program : {"serve", "api", "run", "quickstart", "fallback", "benchmark"},
                name : Names \cup {NoName},
                at : {"start", "load", "bind", "open", "prompt", "turn", "closing", "down"},
                handle : Nat, tried : Nat, turns : Nat]
Jobs == {"none", "reading", "refused", "loaded", "meshed", "generating", "ended", "failed", "pulling"}
Items == {"token", "error", "note", "ended", "failed"}

\* What the orchestrator and the server's map hold, and what belongs to each call.
TablesOK ==
  /\ counter \in Nat /\ loaded \subseteq Nat /\ info \subseteq Nat
  /\ backends \in [Handles -> Engines \cup {NoEngine}]
  /\ models \in [Names -> Nat]
CallsOK ==
  /\ job \in [Calls -> Jobs] /\ held \in [Calls -> Nat]
  /\ chan \in [Calls -> Seq(Items)] /\ made \in [Calls -> Nat] /\ listens \in [Calls -> BOOLEAN]
  /\ call \in [Calls -> CallRecords]
  /\ got \in [Calls -> Nat] /\ notes \in [Calls -> Nat]

\* Where a call stands says what its task and its body can have done.
StageOK(c) ==
  /\ call[c].at \in {"new", "look", "resolve"} => job[c] = "none"
  /\ call[c].at \in {"look", "delete"} => call[c].name \in Names
  /\ call[c].at \in {"new", "look", "resolve", "load", "insert", "dispatch", "start"}
       => call[c].result = "none"
  /\ notes[c] > 0 \/ job[c] = "pulling" => c # Main /\ call[c].at \in {"follow", "over"}
  /\ ~At(c, "stream") => got[c] = 0

\* What the body of a streamed answer has sent and what is in its channel are,
\* so far, all that was generated, or an error is at the end of it.
StreamOK(c) ==
  At(c, "stream") =>
    /\ listens[c] /\ job[c] \in {"generating", "ended", "failed"}
    /\ call[c].result \in {"none", "error"}
    /\ call[c].result = "none" =>
         IF job[c] = "failed" THEN chan[c] # << >> /\ chan[c][Len(chan[c])] = "error"
         ELSE /\ \A i \in DOMAIN chan[c] : chan[c][i] = "token"
              /\ made[c] = got[c] + Len(chan[c])

\* The call of the program itself starts with it, and rests while it waits for
\* a line.
MainOK ==
  /\ main \in MainRecords
  /\ main.at = "start" => At(Main, "new")
  /\ main.at = "prompt" => Over(Main)

\* The handle a call is about to enter in the map, the one its task has read, the
\* one it is unloading, and the one the program keeps for its chat.
HandedTo(c) == IF At(c, "insert") THEN call[c].handle ELSE 0
ReadBy(c) == IF job[c] \in {"loaded", "meshed"} THEN held[c] ELSE 0
GoingBy(c) == IF call[c].at \in {"unload", "forget", "untrack"} THEN call[c].handle ELSE 0
Handing == [c \in Calls |-> HandedTo(c)]
Reading == [c \in Calls |-> ReadBy(c)]
Going == [c \in Calls |-> GoingBy(c)]
Kept == IF main.at \in {"prompt", "turn"} THEN main.handle ELSE 0

\* Nobody else has a handle that is in the map, handed over, read or kept.
Single(f) == \A x, y \in DOMAIN f : f[x] # 0 /\ f[x] = f[y] => x = y
Apart(f, e) == \A x \in DOMAIN f, y \in DOMAIN e : f[x] # 0 => f[x] # e[y]
Without0(f, k) == \A x \in DOMAIN f : f[x] # 0 => f[x] # k
Holders(n, h, r, o, k) ==
  /\ Single(n) /\ Single(h) /\ Single(r)
  /\ Apart(n, h) /\ Apart(n, r) /\ Apart(n, o) /\ Apart(h, r) /\ Apart(h, o) /\ Apart(r, o)
  /\ Without0(n, k) /\ Without0(h, k) /\ Without0(r, k)
UpTo(n, h, r, o, k, max) ==
  /\ \A x \in DOMAIN n : n[x] \in 0..max
  /\ \A x \in DOMAIN h : h[x] \in 0..max
  /\ \A x \in DOMAIN r : r[x] \in 0..max
  /\ \A x \in DOMAIN o : o[x] \in 0..max
  /\ k \in 0..max

HoldersOK == Holders(models, Handing, Reading, Going, Kept)
MadeOK == UpTo(models, Handing, Reading, Going, Kept, counter)

\* A handle in the map or handed over is in every table it has to be in.
Served(h) == /\ h \in Handles /\ backends[h] # NoEngine /\ h \in info
             /\ backends[h] = "local" => h \in loaded
InService ==
  /\ \A n \in Names : models[n] # 0 => Served(models[n])
  /\ \A c \in Calls : HandedTo(c) # 0 => Served(HandedTo(c))
  /\ \A c \in Calls : ReadBy(c) # 0 /\ job[c] = "loaded" => held[c] \in loaded

\* The calls that may still make a handle.
Loaders == {c \in Calls : \/ call[c].at \in {"new", "look", "resolve"}
                          \/ job[c] \in {"reading", "refused"}}
Room == counter + Cardinality(Loaders) <= Cardinality(Calls)

ServingInv ==
  /\ TablesOK /\ CallsOK /\ MainOK
  /\ \A c \in Calls : StageOK(c)
  /\ \A c \in Calls : StreamOK(c)
  /\ HoldersOK /\ MadeOK /\ InService /\ Room

\* Only what belongs to call c changes, and that stays typed.
Only(c) ==
  /\ CallsOK'
  /\ \A d \in Calls : d # c =>
       /\ call'[d] = call[d] /\ job'[d] = job[d] /\ held'[d] = held[d] /\ chan'[d] = chan[d]
       /\ made'[d] = made[d] /\ listens'[d] = listens[d] /\ got'[d] = got[d] /\ notes'[d] = notes[d]

\* A step of call c that moves no handle, though it may let one go.
Calm(c) ==
  /\ Only(c) /\ UNCHANGED <<tables, models>>
  /\ StageOK(c)' /\ StreamOK(c)'
  /\ HandedTo(c)' \in {0, HandedTo(c)} /\ GoingBy(c)' \in {0, GoingBy(c)}
  /\ ReadBy(c)' \in {0, ReadBy(c)} 
  /\ ReadBy(c)' # 0 => job'[c] = job[c] /\ held'[c] = held[c]
  /\ c \in Loaders' => c \in Loaders
  /\ call'[c] = call[c] \/ c # Main \/ call[c].at \notin {"new", "over"} \/ main' # main

LEMMA CallsFinite == IsFiniteSet(Calls) /\ Cardinality(Calls) \in Nat /\ Main \in Calls
BY InferenceAssumption, CommandsAssumption, FS_CardinalityType

Views(n, h, r, o, k) == /\ n \in [Names -> Nat] /\ h \in [Calls -> Nat] /\ r \in [Calls -> Nat]
                        /\ o \in [Calls -> Nat] /\ k \in Nat
Fewer(n, h, r, o, k, n2, h2, r2, o2, k2) ==
  /\ Views(n, h, r, o, k) /\ Views(n2, h2, r2, o2, k2)
  /\ \A x \in Names : n2[x] \in {0, n[x]}
  /\ \A x \in Calls : h2[x] \in {0, h[x]} /\ r2[x] \in {0, r[x]} /\ o2[x] \in {0, o[x]}
  /\ k2 \in {0, k}
LEMMA HoldersFewer ==
  ASSUME NEW n, NEW h, NEW r, NEW o, NEW k, NEW n2, NEW h2, NEW r2, NEW o2, NEW k2, NEW max \in Nat,
         Fewer(n, h, r, o, k, n2, h2, r2, o2, k2), Holders(n, h, r, o, k), UpTo(n, h, r, o, k, max)
  PROVE  Holders(n2, h2, r2, o2, k2) /\ UpTo(n2, h2, r2, o2, k2, max)
<1> USE DEF Fewer, Views
<1>1. Single(n2) /\ Single(h2) /\ Single(r2) BY DEF Holders, Single
<1>2. Apart(n2, h2) /\ Apart(n2, r2) /\ Apart(n2, o2) BY DEF Holders, Apart
<1>3. Apart(h2, r2) /\ Apart(h2, o2) /\ Apart(r2, o2) BY DEF Holders, Apart
<1>4. Without0(n2, k2) /\ Without0(h2, k2) /\ Without0(r2, k2) BY DEF Holders, Without0
<1>5. UpTo(n2, h2, r2, o2, k2, max) BY DEF UpTo
<1> QED BY <1>1, <1>2, <1>3, <1>4, <1>5 DEF Holders

LEMMA FewerLoaders ==
  ASSUME ServingInv, UNCHANGED counter, Loaders' \subseteq Loaders
  PROVE  Room'
<1>1. IsFiniteSet(Loaders)
  BY CallsFinite, FS_Subset DEF Loaders
<1>2. Cardinality(Loaders') <= Cardinality(Loaders) /\ Cardinality(Loaders) \in Nat /\ Cardinality(Loaders') \in Nat
  BY <1>1, FS_Subset, FS_CardinalityType
<1>3. counter \in Nat BY DEF ServingInv, TablesOK
<1> QED BY <1>2, <1>3, CallsFinite DEF ServingInv, Room

ViewsOK ==
  Handing \in [Calls -> Nat] /\ Reading \in [Calls -> Nat] /\ Going \in [Calls -> Nat] /\ Kept \in Nat

LEMMA ViewsTyped ==
  /\ CallsOK /\ MainOK => ViewsOK
  /\ CallsOK' /\ MainOK' => ViewsOK'
<1>1. ASSUME CallsOK, MainOK PROVE ViewsOK
  <2>1. \A c \in Calls : HandedTo(c) \in Nat /\ GoingBy(c) \in Nat
    BY <1>1 DEF CallsOK, HandedTo, GoingBy, CallRecords
  <2>2. \A c \in Calls : ReadBy(c) \in Nat BY <1>1 DEF CallsOK, ReadBy
  <2>3. Kept \in Nat BY <1>1 DEF Kept, MainOK, MainRecords
  <2> QED BY <2>1, <2>2, <2>3 DEF ViewsOK, Handing, Reading, Going
<1>2. ASSUME CallsOK', MainOK' PROVE ViewsOK'
  <2>1. \A c \in Calls : HandedTo(c)' \in Nat /\ GoingBy(c)' \in Nat
    BY <1>2 DEF CallsOK, HandedTo, GoingBy, CallRecords, At
  <2>2. \A c \in Calls : ReadBy(c)' \in Nat BY <1>2 DEF CallsOK, ReadBy
  <2>3. Kept' \in Nat BY <1>2 DEF Kept, MainOK, MainRecords
  <2> QED BY <2>1, <2>2, <2>3 DEF ViewsOK, Handing, Reading, Going
<1> QED BY <1>1, <1>2

LEMMA OthersStay ==
  ASSUME ServingInv, NEW c \in Calls, Only(c), NEW d \in Calls, d # c
  PROVE  /\ StageOK(d)' /\ StreamOK(d)'
         /\ HandedTo(d)' = HandedTo(d) /\ ReadBy(d)' = ReadBy(d) /\ GoingBy(d)' = GoingBy(d)
         /\ (d \in Loaders)' <=> d \in Loaders
<1>1. StageOK(d) /\ StreamOK(d) BY DEF ServingInv
<1>2. /\ call'[d] = call[d] /\ job'[d] = job[d] /\ held'[d] = held[d] /\ chan'[d] = chan[d]
      /\ made'[d] = made[d] /\ listens'[d] = listens[d] /\ got'[d] = got[d] /\ notes'[d] = notes[d]
  BY DEF Only
<1>3. StageOK(d)' BY <1>1, <1>2 DEF StageOK, At
<1>4. StreamOK(d)' BY <1>1, <1>2 DEF StreamOK, At
<1> QED BY <1>2, <1>3, <1>4 DEF HandedTo, ReadBy, GoingBy, Loaders, At

LEMMA CalmStep ==
  ASSUME ServingInv, NEW c \in Calls, Calm(c),
         \/ UNCHANGED main
         \/ MainOK' /\ Kept' \in {0, Kept}
  PROVE  ServingInv'
<1>1. Only(c) /\ UNCHANGED <<counter, loaded, backends, info, models>> BY DEF Calm, tables
<1>2. CallsOK /\ CallsOK' /\ TablesOK /\ TablesOK' BY <1>1 DEF ServingInv, Only, TablesOK
<1>3. MainOK' /\ Kept' \in {0, Kept}
  <2> SUFFICES ASSUME UNCHANGED main PROVE MainOK' /\ Kept' \in {0, Kept} OBVIOUS
  <2>1. call'[Main] = call[Main] \/ call[Main].at \notin {"new", "over"}
    BY <1>1, CallsFinite DEF Calm, Only
  <2> QED BY <2>1 DEF ServingInv, MainOK, Kept, Over, At
<1>4. \A d \in Calls : StageOK(d)' /\ StreamOK(d)' BY <1>1, OthersStay DEF Calm
<1>5. \A d \in Calls : /\ HandedTo(d)' \in {0, HandedTo(d)} /\ ReadBy(d)' \in {0, ReadBy(d)} 
                       /\ GoingBy(d)' \in {0, GoingBy(d)}
  BY <1>1, OthersStay DEF Calm
<1>6. HoldersOK' /\ MadeOK'
  <2>1. ViewsOK /\ ViewsOK'
    <3>1. MainOK BY DEF ServingInv
    <3> QED BY <1>2, <1>3, <3>1, ViewsTyped
  <2>2. \A d \in Calls : /\ Handing'[d] \in {0, Handing[d]} /\ Reading'[d] \in {0, Reading[d]} 
                         /\ Going'[d] \in {0, Going[d]}
    BY <1>5 DEF Handing, Reading, Going
  <2>3. Holders(models, Handing, Reading, Going, Kept) /\ UpTo(models, Handing, Reading, Going, Kept, counter)
    BY DEF ServingInv, HoldersOK, MadeOK
  <2>4. models \in [Names -> Nat] /\ counter \in Nat /\ \A n \in Names : models[n] \in {0, models[n]}
    BY <1>2 DEF TablesOK
  <2>6. Fewer(models, Handing, Reading, Going, Kept, models, Handing', Reading', Going', Kept')
    BY <2>1, <2>2, <2>4, <1>3 DEF Fewer, Views, ViewsOK
  <2>5. Holders(models, Handing', Reading', Going', Kept') /\ UpTo(models, Handing', Reading', Going', Kept', counter)
    BY <2>3, <2>4, <2>6, HoldersFewer
  <2> QED BY <2>5, <1>1 DEF HoldersOK, MadeOK
<1>7. InService'
  <2>1. \A d \in Calls : ReadBy(d)' # 0 /\ job'[d] = "loaded" => held'[d] \in loaded
    <3> TAKE d \in Calls
    <3> SUFFICES ASSUME ReadBy(d)' # 0, job'[d] = "loaded" PROVE held'[d] \in loaded OBVIOUS
    <3>1. job[d] = job'[d] /\ held[d] = held'[d] BY <1>1 DEF Calm, Only
    <3>2. ReadBy(d) # 0 BY <1>5
    <3> QED BY <3>1, <3>2 DEF ServingInv, InService
  <2>2. \A h : Served(h)' <=> Served(h) BY <1>1 DEF Served
  <2> QED BY <2>1, <2>2, <1>1, <1>5 DEF ServingInv, InService
<1>8. Room'
  <2>1. Loaders' \subseteq Loaders
    <3>1. \A d \in Calls : d \in Loaders' => d \in Loaders BY <1>1, OthersStay DEF Calm
    <3> QED BY <3>1 DEF Loaders
  <2> QED BY <2>1, <1>1, FewerLoaders
<1> QED BY <1>2, <1>3, <1>4, <1>6, <1>7, <1>8 DEF ServingInv

Fresh == {"new", "look", "resolve"}
Early == {"new", "look", "resolve", "load", "insert", "dispatch", "start"}
Moved(c) == call' \in [Calls -> CallRecords] /\ \A d \in Calls : d # c => call'[d] = call[d]
Becomes(r, name, at, handle, result) == r.name = name /\ r.at = at /\ r.handle = handle /\ r.result = result
SameTask == UNCHANGED <<jobs, listens, got, notes>>

\* One call's record changes.
LEMMA CallSet ==
  ASSUME CallsOK, NEW c \in Calls, NEW r \in CallRecords, call' = [call EXCEPT ![c] = r]
  PROVE  Moved(c) /\ call'[c] = r
<1>1. call \in [Calls -> CallRecords] BY DEF CallsOK
<1> QED BY <1>1 DEF Moved

LEMMA GoMoves ==
  ASSUME CallsOK, NEW c \in Calls, NEW p \in Places, Go(c, p)
  PROVE  Moved(c) /\ Becomes(call'[c], call[c].name, p, call[c].handle, call[c].result)
<1>1. call[c] \in CallRecords BY DEF CallsOK
<1>2. PICK r : r = [call[c] EXCEPT !.at = p] OBVIOUS
<1>3. r \in CallRecords /\ Becomes(r, call[c].name, p, call[c].handle, call[c].result)
  BY <1>1, <1>2 DEF CallRecords, Becomes
<1>4. call' = [call EXCEPT ![c] = r] BY <1>2 DEF Go
<1> QED BY <1>3, <1>4, CallSet
LEMMA GoWithMoves ==
  ASSUME CallsOK, NEW c \in Calls, NEW p \in Places, NEW h \in Nat, GoWith(c, p, h)
  PROVE  Moved(c) /\ Becomes(call'[c], call[c].name, p, h, call[c].result)
<1>1. call \in [Calls -> CallRecords] /\ call[c] \in CallRecords BY DEF CallsOK
<1>2. PICK r : r = [call[c] EXCEPT !.at = p, !.handle = h] OBVIOUS
<1>3. r \in CallRecords /\ Becomes(r, call[c].name, p, h, call[c].result)
  BY <1>1, <1>2 DEF CallRecords, Becomes
<1>4. call' = [call EXCEPT ![c] = r]
  <2> QED BY <1>1, <1>2 DEF GoWith
<1> QED BY <1>3, <1>4, CallSet
LEMMA EndMoves ==
  ASSUME CallsOK, NEW c \in Calls, NEW how \in {"none", "ok", "error", "refused"}, End(c, how)
  PROVE  Moved(c) /\ Becomes(call'[c], call[c].name, "over", 0, how)
<1>1. call[c] \in CallRecords BY DEF CallsOK
<1>2. PICK r : r = [None EXCEPT !.at = "over", !.name = call[c].name,
                                !.engine = call[c].engine, !.result = how]
  OBVIOUS
<1>3. call[c].name \in Names \cup {NoName} /\ call[c].engine \in Engines \cup {NoEngine}
  BY <1>1 DEF CallRecords
<1>4. None \in CallRecords /\ None.handle = 0 BY DEF None, CallRecords, Ops, Places, Engines
<1>5. r \in CallRecords /\ Becomes(r, call[c].name, "over", 0, how)
  BY <1>2, <1>3, <1>4 DEF CallRecords, Becomes, Places
<1>6. call' = [call EXCEPT ![c] = r] BY <1>2 DEF End
<1> QED BY <1>5, <1>6, CallSet
LEMMA AskedMoves ==
  ASSUME CallsOK, NEW c \in Calls, NEW op \in Ops, NEW n \in Names \cup {NoName},
         NEW s \in BOOLEAN, NEW p \in Places, Asked(c, op, n, s, p)
  PROVE  Moved(c) /\ Becomes(call'[c], n, p, call[c].handle, call[c].result)
<1>1. call[c] \in CallRecords BY DEF CallsOK
<1>2. PICK r : r = [call[c] EXCEPT !.op = op, !.name = n, !.streamed = s, !.at = p] OBVIOUS
<1>3. r \in CallRecords /\ Becomes(r, n, p, call[c].handle, call[c].result)
  BY <1>1, <1>2 DEF CallRecords, Becomes
<1>4. call' = [call EXCEPT ![c] = r] BY <1>2 DEF Asked
<1> QED BY <1>3, <1>4, CallSet

LEMMA CallOnly ==
  ASSUME CallsOK, NEW c \in Calls, Moved(c), SameTask
  PROVE  Only(c)
BY DEF CallsOK, Moved, SameTask, Only, jobs

\* A handler goes from one place to another, none of which has a handle of its own.
LEMMA MoveIsCalm ==
  ASSUME ServingInv, NEW c \in Calls, Moved(c), SameTask, UNCHANGED <<tables, models>>,
         NEW n, NEW p, NEW h, NEW res, Becomes(call'[c], n, p, h, res),
         p \notin {"insert", "unload", "forget", "untrack", "stream"},
         ~At(c, "stream"), ~At(c, "follow") \/ p = "over",
         c = Main /\ UNCHANGED main => call[c].at \notin {"new", "over"},
         c # Main /\ At(c, "over") => p = "over",
         p \in Fresh => call[c].at \in Fresh,
         p \in {"look", "delete"} => n \in Names,
         p \in Early => res = "none"
  PROVE  Calm(c)
<1>1. Only(c) BY CallOnly DEF ServingInv
<1>2. call'[c].at = p /\ call'[c].name = n /\ call'[c].handle = h /\ call'[c].result = res BY DEF Becomes
<1>3. job'[c] = job[c] /\ held'[c] = held[c] /\ notes'[c] = notes[c] /\ got'[c] = got[c] BY DEF SameTask, jobs
<1>4. StageOK(c) BY DEF ServingInv
<1>5. StageOK(c)' BY <1>2, <1>3, <1>4 DEF StageOK, At, Fresh, Early
<1>6. StreamOK(c)' BY <1>2 DEF StreamOK, At
<1>7. HandedTo(c)' = 0 /\ GoingBy(c)' = 0 BY <1>2 DEF HandedTo, GoingBy, At
<1>8. ReadBy(c)' = ReadBy(c) BY <1>3 DEF ReadBy
<1>9. c \in Loaders' => c \in Loaders BY <1>2, <1>3 DEF Loaders, Fresh
<1> QED BY <1>1, <1>3, <1>5, <1>6, <1>7, <1>8, <1>9 DEF Calm

LEMMA EndIsCalm ==
  ASSUME ServingInv, NEW c \in Calls, NEW how \in {"none", "ok", "error", "refused"}, End(c, how),
         SameTask, UNCHANGED <<tables, models>>, ~At(c, "stream"),
         c = Main /\ UNCHANGED main => call[c].at \notin {"new", "over"}
  PROVE  Calm(c)
<1>1. Moved(c) /\ Becomes(call'[c], call[c].name, "over", 0, how) BY EndMoves DEF ServingInv
<1> QED BY <1>1, MoveIsCalm DEF Fresh, Early

\* A call that has just been asked for goes where it looks for its model, or to
\* something that needs none.
LEMMA AskIsCalm ==
  ASSUME ServingInv, NEW c \in Calls, c # Main, At(c, "new"), Moved(c), SameTask,
         UNCHANGED <<tables, models>>, NEW n, NEW h,
         NEW p \in {"look", "delete", "tags", "over", "dispatch"},
         Becomes(call'[c], n, p, h, call[c].result), p \in {"look", "delete"} => n \in Names
  PROVE  Calm(c)
<1>1. call[c].result = "none" BY DEF ServingInv, StageOK, At
<1>2. p \notin {"insert", "unload", "forget", "untrack", "stream"} OBVIOUS
<1>3. ~At(c, "stream") /\ ~At(c, "follow") /\ ~At(c, "over") BY DEF At
<1>4. call[c].at \in Fresh BY DEF At, Fresh
<1>5. /\ ~At(c, "follow") \/ p = "over"
      /\ c = Main /\ UNCHANGED main => call[c].at \notin {"new", "over"}
      /\ c # Main /\ At(c, "over") => p = "over"
      /\ p \in Fresh => call[c].at \in Fresh
      /\ p \in Early => call[c].result = "none"
  BY <1>1, <1>3, <1>4
<1> QED BY <1>2, <1>3, <1>5, MoveIsCalm, Zenon

AsksStep(c) == 
  \/ Refused(c) \/ Chat(c) \/ ChatAny(c) \/ Delete(c) \/ ListModels(c) \/ OllamaShow(c) \/ OllamaTags(c)
LEMMA AsksCalm ==
  ASSUME ServingInv, NEW c \in Calls, c # Main, AsksStep(c)
  PROVE  Calm(c)
<1>1. SameTask /\ UNCHANGED <<tables, models>> /\ At(c, "new")
  BY DEF AsksStep, Refused, Chat, ChatAny, Delete, ListModels, OllamaShow, OllamaTags, May, SameTask, inferenceVars
<1>2. CallsOK BY DEF ServingInv
<1>3. call[c].result = "none" BY <1>1 DEF ServingInv, StageOK, At
<1>4. CASE Refused(c) \/ ListModels(c) \/ OllamaShow(c)
  <2>1. PICK how \in {"none", "ok", "error", "refused"} : End(c, how) BY <1>4 DEF Refused, ListModels, OllamaShow
  <2> QED BY <2>1, <1>1, EndIsCalm DEF At
<1>5. CASE Chat(c)
  <2>1. PICK n \in Names, s \in BOOLEAN : Asked(c, "chat", n, s, "look") BY <1>5 DEF Chat
  <2>2. Moved(c) /\ Becomes(call'[c], n, "look", call[c].handle, call[c].result)
    BY <2>1, <1>2, AskedMoves DEF Ops, Places
  <2> QED BY <2>2, <1>1, AskIsCalm
<1>6. CASE Delete(c)
  <2>1. PICK n \in Names : Asked(c, "delete", n, FALSE, "delete") BY <1>6 DEF Delete
  <2>2. Moved(c) /\ Becomes(call'[c], n, "delete", call[c].handle, call[c].result)
    BY <2>1, <1>2, AskedMoves DEF Ops, Places
  <2> QED BY <2>2, <1>1, AskIsCalm
<1>7. CASE OllamaTags(c)
  <2>1. PICK p \in {"tags", "over"} : Asked(c, "tags", NoName, FALSE, p) BY <1>7 DEF OllamaTags
  <2>2. Moved(c) /\ Becomes(call'[c], NoName, p, call[c].handle, call[c].result)
    BY <2>1, <1>2, AskedMoves DEF Ops, Places
  <2> QED BY <2>2, <1>1, AskIsCalm
<1>8. CASE ChatAny(c)
  <2>1. CASE End(c, "error")  BY <2>1, <1>1, EndIsCalm DEF At
  <2>2. CASE \E n \in Listed, s \in BOOLEAN : 
               call' = [call EXCEPT ![c] = [@ EXCEPT !.op = "chat", !.streamed = s, !.name = n,
                                                 !.handle = models[n], !.at = "dispatch"]]
    <3>1. PICK n \in Names, s \in BOOLEAN : 
               call' = [call EXCEPT ![c] = [@ EXCEPT !.op = "chat", !.streamed = s, !.name = n,
                                                 !.handle = models[n], !.at = "dispatch"]]
      BY <2>2 DEF Listed
    <3>2. PICK v \in Nat : v = models[n] BY DEF ServingInv, TablesOK
    <3>3. Moved(c) /\ Becomes(call'[c], n, "dispatch", v, call[c].result)
      <4>1. call \in [Calls -> CallRecords] /\ call[c] \in CallRecords BY <1>2 DEF CallsOK
      <4>2. PICK r : r = [call[c] EXCEPT !.op = "chat", !.streamed = s, !.name = n,
                                        !.handle = v, !.at = "dispatch"]
        OBVIOUS
      <4>3. r \in CallRecords /\ Becomes(r, n, "dispatch", v, call[c].result)
        <5>1. PICK o : o = call[c] OBVIOUS
        <5>2. o \in CallRecords /\ r = [o EXCEPT !.op = "chat", !.streamed = s, !.name = n,
                                               !.handle = v, !.at = "dispatch"]
          BY ONLY <4>1, <4>2, <5>1
        <5>3. r \in CallRecords
          <6>1. "chat" \in Ops /\ "dispatch" \in Places BY DEF Ops, Places
          <6>2. n \in Names \cup {NoName} OBVIOUS
          <6> QED BY ONLY <5>2, <6>1, <6>2, s \in BOOLEAN, v \in Nat DEF CallRecords
        <5>4. r.name = n /\ r.at = "dispatch" /\ r.handle = v /\ r.result = o.result
          BY ONLY <5>2 DEF CallRecords
        <5> QED BY ONLY <5>1, <5>3, <5>4 DEF Becomes
      <4>4. call' = [call EXCEPT ![c] = r] BY <3>1, <3>2, <4>2
      <4> QED BY <1>2, <4>3, <4>4, CallSet
    <3> QED BY <3>3, <1>1, AskIsCalm
  <2> QED BY <1>8, <2>1, <2>2 DEF ChatAny
<1> QED BY <1>4, <1>5, <1>6, <1>7, <1>8 DEF AsksStep

LEMMA PullCalm ==
  ASSUME ServingInv, NEW c \in Calls, c # Main, Pull(c)
  PROVE  Calm(c)
<1>1. PICK n \in Names, s \in BOOLEAN :
        /\ At(c, "new")
        /\ \/ \E how \in {"ok", "error"} : End(c, how) /\ UNCHANGED <<inferenceVars, notes>>
           \/ /\ Asked(c, "pull", n, s, IF s THEN "follow" ELSE "pull")
              /\ notes' = [notes EXCEPT ![c] = IF s THEN 2 ELSE 0]
              /\ job' = [job EXCEPT ![c] = IF s THEN "pulling" ELSE "none"]
              /\ listens' = [listens EXCEPT ![c] = s]
              /\ UNCHANGED <<tables, meshPeers, held, chan, made>>
        /\ UNCHANGED <<models, writer, disk, got>>
  BY DEF Pull, May
<1>2. CallsOK /\ StageOK(c) BY DEF ServingInv
<1>3. CASE \E how \in {"ok", "error"} : End(c, how) /\ UNCHANGED <<inferenceVars, notes>>
  BY <1>1, <1>3, EndIsCalm DEF inferenceVars, SameTask, At
<1>4. CASE /\ Asked(c, "pull", n, s, IF s THEN "follow" ELSE "pull")
           /\ notes' = [notes EXCEPT ![c] = IF s THEN 2 ELSE 0]
           /\ job' = [job EXCEPT ![c] = IF s THEN "pulling" ELSE "none"]
           /\ listens' = [listens EXCEPT ![c] = s]
           /\ UNCHANGED <<tables, meshPeers, held, chan, made>>
  <2>1. PICK p \in {"follow", "pull"} : p = (IF s THEN "follow" ELSE "pull") OBVIOUS
  <2>2. Moved(c) /\ Becomes(call'[c], n, p, call[c].handle, call[c].result)
    BY <2>1, <1>2, <1>4, AskedMoves DEF Ops, Places
  <2>3. Only(c)
    BY <1>1, <1>2, <1>4, <2>2 DEF Only, CallsOK, Moved, Jobs
  <2>4. /\ call'[c].at = p /\ notes'[c] = (IF s THEN 2 ELSE 0) /\ job'[c] = (IF s THEN "pulling" ELSE "none")
        /\ got'[c] = got[c]
    BY <1>1, <1>2, <1>4, <2>2 DEF Becomes, CallsOK
  <2>5. StageOK(c)' BY <1>1, <1>2, <2>1, <2>4 DEF StageOK, At
  <2>6. StreamOK(c)' BY <2>1, <2>4 DEF StreamOK, At
  <2>7. HandedTo(c)' = 0 /\ GoingBy(c)' = 0 /\ ReadBy(c)' = 0 BY <2>1, <2>4 DEF HandedTo, GoingBy, ReadBy, At
  <2>8. c \in Loaders BY <1>1 DEF Loaders, At
  <2> QED BY <1>1, <1>4, <2>3, <2>5, <2>6, <2>7, <2>8 DEF Calm
<1> QED BY <1>1, <1>3, <1>4

LEMMA LookCalm ==
  ASSUME ServingInv, NEW c \in Calls, Look(c) \/ Dispatch(c), c # Main \/ ~Look(c)
  PROVE  Calm(c)
<1>1. SameTask /\ UNCHANGED <<tables, models>> BY DEF Look, Dispatch, SameTask, inferenceVars
<1>2. CallsOK /\ StageOK(c) BY DEF ServingInv
<1>3. CASE Look(c)
  <2>1. call[c].result = "none" /\ call[c].name \in Names /\ At(c, "look")
    BY <1>2, <1>3 DEF StageOK, Look, At
  <2>2. PICK v \in Nat : v = models[call[c].name] BY <2>1 DEF ServingInv, TablesOK
  <2>5. /\ c # Main /\ ~At(c, "stream") /\ ~At(c, "follow") /\ ~At(c, "over")
        /\ call[c].at \in Fresh
    BY <1>3, <2>1 DEF At, Fresh
  <2>3. CASE GoWith(c, "dispatch", v)
    <3>1. Moved(c) /\ Becomes(call'[c], call[c].name, "dispatch", v, call[c].result)
      BY <2>3, <1>2, GoWithMoves DEF Places
    <3>2. ("dispatch" \notin Fresh) /\ call[c].result = "none" BY <2>1 DEF Fresh
    <3>3. "dispatch" \notin {"insert", "unload", "forget", "untrack", "stream"} /\ "dispatch" \notin {"look", "delete"}
      OBVIOUS
    <3> QED BY <3>1, <3>2, <3>3, <2>5, <1>1, MoveIsCalm, SMTT(60)
  <2>4. CASE Go(c, "resolve")
    <3>1. Moved(c) /\ Becomes(call'[c], call[c].name, "resolve", call[c].handle, call[c].result)
      BY <2>4, <1>2, GoMoves DEF Places
    <3>3. "resolve" \notin {"insert", "unload", "forget", "untrack", "stream"} /\ "resolve" \notin {"look", "delete"}
      OBVIOUS
    <3> QED BY <3>1, <3>3, <2>1, <2>5, <1>1, MoveIsCalm, SMTT(60)
  <2> QED BY <1>3, <2>2, <2>3, <2>4 DEF Look
<1>4. CASE Dispatch(c)
  <2>1. At(c, "dispatch") /\ call[c].result = "none" BY <1>2, <1>4 DEF Dispatch, StageOK, At
  <2>2. CASE End(c, "refused") BY <2>2, <2>1, <1>1, EndIsCalm DEF At
  <2>3. CASE /\ Dispatches(call[c].handle)
             /\ call' = [call EXCEPT ![c].at = "start", ![c].engine = backends[call[c].handle]]
    <3>1. PICK e \in Engines : e = backends[call[c].handle]
      BY <2>3 DEF Dispatches, Available, Engines
    <3>2. call \in [Calls -> CallRecords] /\ call[c] \in CallRecords BY <1>2 DEF CallsOK
    <3>3. PICK r : r = [call[c] EXCEPT !.at = "start", !.engine = e] OBVIOUS
    <3>4. r \in CallRecords /\ Becomes(r, call[c].name, "start", call[c].handle, call[c].result)
      BY <3>2, <3>3 DEF CallRecords, Becomes, Places
    <3>5. call' = [call EXCEPT ![c] = r] BY <2>3, <3>1, <3>3
    <3>6. Moved(c) /\ Becomes(call'[c], call[c].name, "start", call[c].handle, call[c].result)
      BY <3>2, <3>4, <3>5 DEF Moved
    <3> QED BY <3>6, <2>1, <1>1, MoveIsCalm DEF At, Fresh, Early
  <2> QED BY <1>4, <2>2, <2>3 DEF Dispatch
<1> QED BY <1>3, <1>4

\* A call's task or body changes, with the call or without it.
TaskMoves(c) ==
  /\ \/ Moved(c) \/ UNCHANGED call
  /\ \/ UNCHANGED job \/ \E v \in Jobs : job' = [job EXCEPT ![c] = v]
  /\ UNCHANGED held
  /\ \/ UNCHANGED chan \/ \E v \in Seq(Items) : chan' = [chan EXCEPT ![c] = v]
  /\ \/ UNCHANGED made \/ \E v \in Nat : made' = [made EXCEPT ![c] = v]
  /\ \/ UNCHANGED listens \/ \E v \in BOOLEAN : listens' = [listens EXCEPT ![c] = v]
  /\ \/ UNCHANGED got \/ \E v \in Nat : got' = [got EXCEPT ![c] = v]
  /\ \/ UNCHANGED notes \/ \E v \in Nat : notes' = [notes EXCEPT ![c] = v]

LEMMA PointMoves ==
  ASSUME NEW T, NEW f \in [Calls -> T], NEW g, NEW c \in Calls,
         g = f \/ \E v \in T : g = [f EXCEPT ![c] = v]
  PROVE  g \in [Calls -> T] /\ \A d \in Calls : d # c => g[d] = f[d]
OBVIOUS

LEMMA TaskMovesOnly ==
  ASSUME CallsOK, NEW c \in Calls, TaskMoves(c)
  PROVE  Only(c)
<1>1. call' \in [Calls -> CallRecords] /\ \A d \in Calls : d # c => call'[d] = call[d]
  BY DEF TaskMoves, Moved, CallsOK
<1>2. job' \in [Calls -> Jobs] /\ \A d \in Calls : d # c => job'[d] = job[d]
  <2>1. job \in [Calls -> Jobs] /\ (job' = job \/ \E v \in Jobs : job' = [job EXCEPT ![c] = v])
    BY DEF TaskMoves, CallsOK
  <2> QED BY <2>1, PointMoves
<1>3. chan' \in [Calls -> Seq(Items)] /\ \A d \in Calls : d # c => chan'[d] = chan[d]
  <2>1. chan \in [Calls -> Seq(Items)] /\ (chan' = chan \/ \E v \in Seq(Items) : chan' = [chan EXCEPT ![c] = v])
    BY DEF TaskMoves, CallsOK
  <2> QED BY <2>1, PointMoves
<1>4. made' \in [Calls -> Nat] /\ \A d \in Calls : d # c => made'[d] = made[d]
  <2>1. made \in [Calls -> Nat] /\ (made' = made \/ \E v \in Nat : made' = [made EXCEPT ![c] = v])
    BY DEF TaskMoves, CallsOK
  <2> QED BY <2>1, PointMoves
<1>5. listens' \in [Calls -> BOOLEAN] /\ \A d \in Calls : d # c => listens'[d] = listens[d]
  <2>1. listens \in [Calls -> BOOLEAN] /\ (listens' = listens \/ \E v \in BOOLEAN : listens' = [listens EXCEPT ![c] = v])
    BY DEF TaskMoves, CallsOK
  <2> QED BY <2>1, PointMoves
<1>6. got' \in [Calls -> Nat] /\ \A d \in Calls : d # c => got'[d] = got[d]
  <2>1. got \in [Calls -> Nat] /\ (got' = got \/ \E v \in Nat : got' = [got EXCEPT ![c] = v])
    BY DEF TaskMoves, CallsOK
  <2> QED BY <2>1, PointMoves
<1>7. notes' \in [Calls -> Nat] /\ \A d \in Calls : d # c => notes'[d] = notes[d]
  <2>1. notes \in [Calls -> Nat] /\ (notes' = notes \/ \E v \in Nat : notes' = [notes EXCEPT ![c] = v])
    BY DEF TaskMoves, CallsOK
  <2> QED BY <2>1, PointMoves
<1>8. held' \in [Calls -> Nat] /\ \A d \in Calls : held'[d] = held[d] BY DEF TaskMoves, CallsOK
<1> QED BY <1>1, <1>2, <1>3, <1>4, <1>5, <1>6, <1>7, <1>8 DEF Only, CallsOK

\* resolve_model has a file, and the task that reads it starts.
LEMMA ResolveCalm ==
  ASSUME ServingInv, NEW c \in Calls, c # Main, Resolve(c)
  PROVE  Calm(c)
<1>1. CallsOK /\ StageOK(c) /\ At(c, "resolve") /\ UNCHANGED <<tables, models, held, got, notes, chan, made, listens>>
  BY DEF ServingInv, Resolve
<1>2. CASE End(c, "error") /\ UNCHANGED job
  BY <1>1, <1>2, EndIsCalm DEF SameTask, jobs, At
<1>3. CASE Go(c, "load") /\ job' = [job EXCEPT ![c] = "reading"]
  <2>1. Moved(c) /\ Becomes(call'[c], call[c].name, "load", call[c].handle, call[c].result)
    BY <1>1, <1>3, GoMoves DEF Places
  <2>2. TaskMoves(c) BY <1>1, <1>3, <2>1 DEF TaskMoves, Jobs
  <2>3. Only(c) BY <1>1, <2>2, TaskMovesOnly
  <2>4. call'[c].at = "load" /\ call'[c].result = call[c].result /\ job'[c] = "reading" /\ notes'[c] = notes[c] /\ got'[c] = got[c]
    BY <1>1, <1>3, <2>1 DEF Becomes, CallsOK
  <2>5. StageOK(c)' BY <1>1, <2>4 DEF StageOK, At
  <2>6. StreamOK(c)' BY <2>4 DEF StreamOK, At
  <2>7. HandedTo(c)' = 0 /\ GoingBy(c)' = 0 /\ ReadBy(c)' = 0 BY <2>4 DEF HandedTo, GoingBy, ReadBy, At
  <2>8. c \in Loaders BY <1>1 DEF Loaders, At
  <2> QED BY <1>1, <2>3, <2>5, <2>6, <2>7, <2>8 DEF Calm
<1> QED BY <1>2, <1>3 DEF Resolve

\* The rest of Calm, for a step that keeps the call where it is.
LEMMA SamePlaceCalm ==
  ASSUME ServingInv, NEW c \in Calls, TaskMoves(c), UNCHANGED <<tables, models>>,
         call'[c].at = call[c].at, call'[c].handle = call[c].handle,
         job'[c] \notin {"loaded", "meshed"} \/ job'[c] = job[c],
         job'[c] \in {"reading", "refused"} => job[c] \in {"reading", "refused"},
         StageOK(c)', StreamOK(c)', 
         UNCHANGED call \/ call[c].at \notin {"new", "over"}
  PROVE  Calm(c)
<1>1. Only(c) BY TaskMovesOnly DEF ServingInv
<1>2. held'[c] = held[c] BY DEF TaskMoves
<1>3. HandedTo(c)' = HandedTo(c) /\ GoingBy(c)' = GoingBy(c) BY DEF HandedTo, GoingBy, At
<1>4. ReadBy(c)' \in {0, ReadBy(c)} /\ (ReadBy(c)' # 0 => job'[c] = job[c]) BY <1>2 DEF ReadBy
<1>5. c \in Loaders' => c \in Loaders BY DEF Loaders
<1> QED BY <1>1, <1>2, <1>3, <1>4, <1>5 DEF Calm

LEMMA ItemLists ==
  /\ << >> \in Seq(Items) /\ <<"error">> \in Seq(Items)
  /\ \A q \in Seq(Items), v \in Items : Append(q, v) \in Seq(Items)
  /\ \A q \in Seq(Items) : Append(q, "token") \in Seq(Items) /\ Append(q, "error") \in Seq(Items)
<1>1. "token" \in Items /\ "error" \in Items BY DEF Items
<1> QED BY <1>1

LEMMA GenerateCalm ==
  ASSUME ServingInv, NEW c \in Calls, Generate(c), UNCHANGED callVars
  PROVE  Calm(c)
<1>1. CallsOK /\ StageOK(c) /\ StreamOK(c) /\ job[c] = "generating"
      /\ UNCHANGED <<tables, models, job, held, listens, call, got, notes>>
  BY DEF ServingInv, Generate, callVars
<1>2. PICK q \in Seq(Items) : q = chan[c] BY <1>1 DEF CallsOK
<1>3. PICK a \in Seq(Items) : a = Append(q, "token") BY ItemLists
<1>4. /\ chan' = [chan EXCEPT ![c] = a] /\ made' = [made EXCEPT ![c] = made[c] + 1]
      /\ chan'[c] = a /\ made'[c] = made[c] + 1 /\ made[c] \in Nat /\ got[c] \in Nat
  BY <1>1, <1>2, <1>3 DEF Generate, CallsOK
<1>5. TaskMoves(c)
  <2>1. made[c] + 1 \in Nat BY <1>4
  <2> QED BY <1>1, <1>3, <1>4, <2>1 DEF TaskMoves
<1>6. StageOK(c)' BY <1>1 DEF StageOK, At
<1>7. StreamOK(c)'
  <2> SUFFICES ASSUME At(c, "stream") PROVE StreamOK(c)' BY <1>1 DEF StreamOK, At
  <2>1. listens[c] /\ call[c].result \in {"none", "error"} BY <1>1 DEF StreamOK
  <2>2. ASSUME call[c].result = "none"
        PROVE  (\A i \in DOMAIN a : a[i] = "token") /\ made'[c] = got[c] + Len(a)
    <3>1. (\A i \in DOMAIN q : q[i] = "token") /\ made[c] = got[c] + Len(q)
      BY <1>1, <1>2, <2>2 DEF StreamOK
    <3>2. Len(a) = Len(q) + 1 /\ Len(q) \in Nat /\ \A i \in 1..Len(q) + 1 : a[i] = IF i = Len(q) + 1 THEN "token" ELSE q[i]
      BY <1>3
    <3>3. \A i \in DOMAIN a : a[i] = "token" BY <3>1, <3>2
    <3> QED BY <3>1, <3>2, <3>3, <1>4
  <2> QED BY <1>1, <1>4, <2>1, <2>2 DEF StreamOK, At
<1> QED BY <1>1, <1>5, <1>6, <1>7, SamePlaceCalm

LEMMA GenerationStopsCalm ==
  ASSUME ServingInv, NEW c \in Calls, GenerationEnds(c) \/ GenerationFails(c), UNCHANGED callVars
  PROVE  Calm(c)
<1>1. CallsOK /\ StageOK(c) /\ StreamOK(c) /\ job[c] = "generating"
      /\ UNCHANGED <<tables, models, held, made, listens, call, got, notes>>
  BY DEF ServingInv, GenerationEnds, GenerationFails, callVars
<1>2. PICK q \in Seq(Items) : q = chan[c] BY <1>1 DEF CallsOK
<1>3. PICK a \in Seq(Items) : a = Append(q, "error") BY ItemLists
<1>4. a # << >> /\ a[Len(a)] = "error" BY <1>3
<1>5. PICK v \in {"ended", "failed"} : job' = [job EXCEPT ![c] = v] /\ (v = "failed" => GenerationFails(c))
                                     /\ (v = "ended" => UNCHANGED chan)
  BY DEF GenerationEnds, GenerationFails
<1>6. job'[c] = v BY <1>1, <1>5 DEF CallsOK
<1>7. v = "failed" => chan' = IF listens[c] THEN [chan EXCEPT ![c] = a] ELSE chan
  BY <1>2, <1>3, <1>5 DEF GenerationFails
<1>8. TaskMoves(c)
  <2>1. \/ UNCHANGED chan \/ \E w \in Seq(Items) : chan' = [chan EXCEPT ![c] = w]
    BY <1>5, <1>7
  <2> QED BY <1>1, <1>5, <2>1 DEF TaskMoves, Jobs
<1>9. StageOK(c)' BY <1>1, <1>6 DEF StageOK, At
<1>10. StreamOK(c)'
  <2> SUFFICES ASSUME At(c, "stream") PROVE StreamOK(c)' BY <1>1 DEF StreamOK, At
  <2>1. listens[c] /\ call[c].result \in {"none", "error"} BY <1>1 DEF StreamOK
  <2>2. CASE v = "failed"
    <3>1. chan'[c] = a BY <1>1, <1>7, <2>1, <2>2 DEF CallsOK
    <3> QED BY <1>1, <1>4, <1>6, <2>1, <2>2, <3>1 DEF StreamOK, At
  <2>3. CASE v = "ended"
    <3>1. chan'[c] = chan[c] BY <1>5, <2>3
    <3> QED BY <1>1, <1>6, <2>1, <2>3, <3>1 DEF StreamOK, At
  <2> QED BY <2>2, <2>3
<1> QED BY <1>1, <1>6, <1>8, <1>9, <1>10, SamePlaceCalm

LEMMA LoadRefusedCalm ==
  ASSUME ServingInv, NEW c \in Calls, LoadRefused(c), UNCHANGED callVars
  PROVE  Calm(c)
<1>1. CallsOK /\ StageOK(c) /\ StreamOK(c) /\ job[c] = "reading" /\ job' = [job EXCEPT ![c] = "refused"]
      /\ UNCHANGED <<tables, models, held, made, chan, listens, call, got, notes>>
  BY DEF ServingInv, LoadRefused, callVars
<1>2. job'[c] = "refused" BY <1>1 DEF CallsOK
<1>3. TaskMoves(c) BY <1>1 DEF TaskMoves, Jobs
<1>4. StageOK(c)' BY <1>1, <1>2 DEF StageOK, At
<1>5. StreamOK(c)' BY <1>1, <1>2 DEF StreamOK, At
<1> QED BY <1>1, <1>2, <1>3, <1>4, <1>5, SamePlaceCalm

LEMMA PullTaskCalm ==
  ASSUME ServingInv, NEW c \in Calls, PullNotes(c) \/ PullProgress(c) \/ PullEnds(c)
  PROVE  Calm(c)
<1>1. CallsOK /\ StageOK(c) /\ UNCHANGED <<tables, models, held, listens, call, got>>
  BY DEF ServingInv, PullNotes, PullProgress, PullEnds, PullOutcome, callVars
<1>2. \A v \in Items : Append(chan[c], v) \in Seq(Items) BY <1>1 DEF CallsOK
<1>3. ~At(c, "stream") BY <1>1 DEF StageOK, At, PullNotes, PullProgress, PullEnds
<1>4. StreamOK(c)' BY <1>1, <1>3 DEF StreamOK, At
<1>5. CASE PullNotes(c)
  <2>1. notes[c] \in Nat /\ notes[c] > 0 /\ notes' = [notes EXCEPT ![c] = notes[c] - 1] /\ UNCHANGED <<job, made>>
    BY <1>1, <1>5 DEF PullNotes, CallsOK
  <2>2. \/ UNCHANGED chan \/ \E w \in Seq(Items) : chan' = [chan EXCEPT ![c] = w]
    BY <1>2, <1>5 DEF PullNotes, Items
  <2>3. TaskMoves(c)
    <3>1. notes[c] - 1 \in Nat BY <2>1
    <3> QED BY <1>1, <2>1, <2>2, <3>1 DEF TaskMoves
  <2>4. StageOK(c)'  BY <1>1, <2>1 DEF StageOK, At
  <2> QED BY <1>1, <1>4, <2>1, <2>3, <2>4, SamePlaceCalm
<1>6. CASE PullProgress(c)
  <2>1. made[c] + 1 \in Nat /\ made' = [made EXCEPT ![c] = made[c] + 1] /\ UNCHANGED <<job, notes>>
    BY <1>1, <1>6 DEF PullProgress, CallsOK, callVars
  <2>2. \E w \in Seq(Items) : chan' = [chan EXCEPT ![c] = w]
    BY <1>2, <1>6 DEF PullProgress, Items
  <2>3. TaskMoves(c) BY <1>1, <2>1, <2>2 DEF TaskMoves
  <2>4. StageOK(c)'  BY <1>1, <2>1 DEF StageOK, At
  <2> QED BY <1>1, <1>4, <2>1, <2>3, <2>4, SamePlaceCalm
<1>7. CASE PullEnds(c)
  <2>1. PICK v \in {"ended", "failed"} : PullOutcome(c, v) BY <1>7 DEF PullEnds
  <2>2. job' = [job EXCEPT ![c] = v] /\ job'[c] = v /\ UNCHANGED <<made, notes>> /\ job[c] = "pulling"
    BY <1>1, <1>7, <2>1 DEF PullOutcome, PullEnds, CallsOK
  <2>3. \/ UNCHANGED chan \/ \E w \in Seq(Items) : chan' = [chan EXCEPT ![c] = w]
    BY <1>2, <2>1 DEF PullOutcome, Items
  <2>4. TaskMoves(c) BY <1>1, <2>2, <2>3 DEF TaskMoves, Jobs
  <2>5. StageOK(c)'  BY <1>1, <2>2 DEF StageOK, At
  <2> QED BY <1>1, <1>4, <2>2, <2>4, <2>5, SamePlaceCalm
<1> QED BY <1>5, <1>6, <1>7

LEMMA BeginCalm ==
  ASSUME ServingInv, NEW c \in Calls, Begin(c)
  PROVE  Calm(c)
<1>1. CallsOK /\ StageOK(c) /\ At(c, "start") /\ UNCHANGED <<tables, models, held, got, notes>>
  BY DEF ServingInv, Begin, Start
<1>2. PICK p \in {"stream", "collect"} : Go(c, p) /\ (p = "stream" <=> call[c].streamed)
  BY DEF Begin
<1>3. Moved(c) /\ Becomes(call'[c], call[c].name, p, call[c].handle, call[c].result)
  BY <1>1, <1>2, GoMoves DEF Places
<1>4. PICK v \in {"generating", "failed"} : /\ job' = [job EXCEPT ![c] = v]
        /\ chan' = [chan EXCEPT ![c] = IF v = "failed" /\ call[c].streamed THEN <<"error">> ELSE << >>]
  BY DEF Begin, Start
<1>5. listens' = [listens EXCEPT ![c] = call[c].streamed] /\ made' = [made EXCEPT ![c] = 0]
      /\ call[c].streamed \in BOOLEAN
  BY <1>1 DEF Begin, Start, CallsOK, CallRecords
<1>6. PICK q \in Seq(Items) : q = IF v = "failed" /\ call[c].streamed THEN <<"error">> ELSE << >>
  BY ItemLists
<1>7. TaskMoves(c) 
  <2>1. v \in Jobs BY DEF Jobs
  <2>2. chan' = [chan EXCEPT ![c] = q] BY <1>4, <1>6
  <2> QED BY <1>1, <1>3, <1>4, <1>5, <2>1, <2>2 DEF TaskMoves
<1>8. Only(c) BY <1>1, <1>7, TaskMovesOnly
<1>9. /\ call'[c].at = p /\ call'[c].result = "none" /\ job'[c] = v /\ chan'[c] = q /\ made'[c] = 0
      /\ listens'[c] = call[c].streamed /\ got'[c] = 0 /\ notes'[c] = 0
  <2>1. call[c].result = "none" /\ got[c] = 0 /\ ~(notes[c] > 0) /\ notes[c] \in Nat
    BY <1>1 DEF StageOK, At, CallsOK
  <2>2. chan'[c] = q BY <1>1, <1>4, <1>6 DEF CallsOK
  <2> QED BY <1>1, <1>3, <1>4, <1>5, <2>1, <2>2 DEF Becomes, CallsOK
<1>10. StageOK(c)' BY <1>9 DEF StageOK, At
<1>11. StreamOK(c)'
  <2> SUFFICES ASSUME p = "stream" PROVE StreamOK(c)' BY <1>9 DEF StreamOK, At
  <2>1. call[c].streamed BY <1>2
  <2>2. CASE v = "failed"
    <3>1. q = <<"error">> BY <1>6, <2>1, <2>2
    <3>2. q # << >> /\ q[Len(q)] = "error" BY <3>1
    <3> QED BY <1>9, <2>1, <2>2, <3>2 DEF StreamOK, At
  <2>3. CASE v = "generating"
    <3>1. q = << >> BY <1>6, <2>3
    <3>2. Len(q) = 0 /\ DOMAIN q = {} BY <3>1
    <3> QED BY <1>9, <2>1, <2>3, <3>2 DEF StreamOK, At
  <2> QED BY <2>2, <2>3
<1>12. HandedTo(c)' = 0 /\ GoingBy(c)' = 0 /\ ReadBy(c)' = 0 BY <1>9 DEF HandedTo, GoingBy, ReadBy, At
<1>13. ~(c \in Loaders') BY <1>9 DEF Loaders
<1> QED BY <1>1, <1>8, <1>10, <1>11, <1>12, <1>13 DEF Calm, At

LEMMA CollectCalm ==
  ASSUME ServingInv, NEW c \in Calls, Collect(c)
  PROVE  Calm(c)
<1>1. /\ CallsOK /\ StageOK(c) /\ At(c, "collect") /\ job[c] \in {"ended", "failed"}
      /\ job' = [job EXCEPT ![c] = "none"]
      /\ UNCHANGED <<tables, models, held, got, notes, chan, made, listens>>
  BY DEF ServingInv, Collect, Stopped
<1>2. PICK how \in {"none", "ok", "error", "refused"} : End(c, how) BY DEF Collect
<1>3. Moved(c) /\ Becomes(call'[c], call[c].name, "over", 0, how) BY <1>1, <1>2, EndMoves
<1>4. TaskMoves(c) BY <1>1, <1>3 DEF TaskMoves, Jobs
<1>5. Only(c) BY <1>1, <1>4, TaskMovesOnly
<1>6. call'[c].at = "over" /\ job'[c] = "none" /\ got'[c] = 0 /\ notes'[c] = notes[c]
  BY <1>1, <1>3 DEF Becomes, CallsOK, StageOK, At
<1>7. StageOK(c)' BY <1>1, <1>6 DEF StageOK, At
<1>8. StreamOK(c)' BY <1>6 DEF StreamOK, At
<1>9. HandedTo(c)' = 0 /\ GoingBy(c)' = 0 /\ ReadBy(c)' = 0 BY <1>6 DEF HandedTo, GoingBy, ReadBy, At
<1>10. ~(c \in Loaders') BY <1>6 DEF Loaders
<1> QED BY <1>1, <1>5, <1>7, <1>8, <1>9, <1>10 DEF Calm, At

\* What the body takes from its channel.
LEMMA TakenItems ==
  ASSUME NEW q \in Seq(Items), q # << >>
  PROVE  /\ Tail(q) \in Seq(Items) /\ Len(Tail(q)) = Len(q) - 1 /\ Len(q) \in Nat \ {0}
         /\ \A i \in DOMAIN Tail(q) : i + 1 \in DOMAIN q /\ Tail(q)[i] = q[i + 1]
         /\ Head(q) = q[1] /\ 1 \in DOMAIN q
         /\ q[Len(q)] # Head(q) => Tail(q) # << >> /\ Tail(q)[Len(Tail(q))] = q[Len(q)]
<1>1. Len(q) \in Nat \ {0} /\ DOMAIN q = 1..Len(q) /\ Head(q) = q[1] OBVIOUS
<1>2. Tail(q) \in Seq(Items) /\ Len(Tail(q)) = Len(q) - 1 /\ \A i \in 1..Len(q) - 1 : Tail(q)[i] = q[i + 1]
  OBVIOUS
<1>3. DOMAIN Tail(q) = 1..Len(q) - 1 BY <1>2
<1>4. \A i \in DOMAIN Tail(q) : i + 1 \in DOMAIN q /\ Tail(q)[i] = q[i + 1] BY <1>1, <1>2, <1>3
<1>5. ASSUME q[Len(q)] # Head(q) PROVE Tail(q) # << >> /\ Tail(q)[Len(Tail(q))] = q[Len(q)]
  <2>1. Len(q) > 1 BY <1>1, <1>5
  <2>2. Len(q) - 1 \in 1..Len(q) - 1 BY <1>1, <2>1
  <2>3. Tail(q)[Len(q) - 1] = q[Len(q)] BY <1>1, <1>2, <2>2
  <2>4. PICK t \in Seq(Items) : t = Tail(q) BY <1>2
  <2>5. Len(t) = Len(q) - 1 /\ Len(t) # 0 BY <1>1, <1>2, <2>1, <2>4
  <2>6. t # << >> BY <2>5
  <2>7. t[Len(t)] = q[Len(q)] BY <2>3, <2>4, <2>5
  <2> QED BY <2>4, <2>6, <2>7
<1> QED BY <1>1, <1>2, <1>4, <1>5

LEMMA ChunkCalm ==
  ASSUME ServingInv, NEW c \in Calls, Chunk(c)
  PROVE  Calm(c)
<1>1. /\ CallsOK /\ StageOK(c) /\ StreamOK(c) /\ At(c, "stream") /\ chan[c] # << >>
      /\ UNCHANGED <<tables, models, job, held, made, listens, notes>>
  BY DEF ServingInv, Chunk
<1>2. PICK q \in Seq(Items) : q = chan[c] /\ q # << >> BY <1>1 DEF CallsOK
<1>3. PICK a \in Seq(Items) : a = Tail(q) BY <1>2, TakenItems
<1>4. chan' = [chan EXCEPT ![c] = a] /\ chan'[c] = a BY <1>1, <1>2, <1>3 DEF Chunk, CallsOK
<1>5. made[c] \in Nat /\ got[c] \in Nat BY <1>1 DEF CallsOK
<1>6. CASE Head(q) = "token"
  <2>1. UNCHANGED call /\ got' = [got EXCEPT ![c] = got[c] + 1] /\ got'[c] = got[c] + 1
    BY <1>1, <1>2, <1>5, <1>6 DEF Chunk, CallsOK
  <2>2. TaskMoves(c)
    <3>1. got[c] + 1 \in Nat BY <1>5
    <3> QED BY <1>1, <1>3, <1>4, <2>1, <3>1 DEF TaskMoves
  <2>3. StageOK(c)' BY <1>1, <2>1 DEF StageOK, At
  <2>4. CASE call[c].result = "none" /\ job[c] = "failed"
    <3>1. q[Len(q)] = "error" BY <1>1, <1>2, <2>4 DEF StreamOK
    <3>2. a # << >> /\ a[Len(a)] = "error" BY <3>1, <1>2, <1>3, <1>6, TakenItems
    <3> QED BY <1>1, <1>4, <2>1, <2>2, <2>3, <2>4, <3>2, SamePlaceCalm DEF StreamOK, At
  <2>5. CASE call[c].result = "none" /\ job[c] # "failed"
    <3>1. (\A i \in DOMAIN q : q[i] = "token") /\ made[c] = got[c] + Len(q)
      BY <1>1, <1>2, <2>5 DEF StreamOK
    <3>2. Len(a) = Len(q) - 1 /\ Len(q) \in Nat /\ \A i \in DOMAIN a : a[i] = "token"
      BY <3>1, <1>2, <1>3, TakenItems
    <3>3. made'[c] = got'[c] + Len(a) BY <1>1, <1>5, <2>1, <3>1, <3>2
    <3>4. StreamOK(c)' BY <1>1, <1>4, <2>1, <2>5, <3>2, <3>3 DEF StreamOK, At
    <3> QED BY <1>1, <2>1, <2>2, <2>3, <3>4, SamePlaceCalm
  <2>6. CASE call[c].result # "none"
    <3>1. StreamOK(c)' BY <1>1, <2>1, <2>6 DEF StreamOK, At
    <3> QED BY <1>1, <2>1, <2>2, <2>3, <3>1, SamePlaceCalm
  <2> QED BY <2>4, <2>5, <2>6
<1>7. CASE Head(q) # "token"
  <2>1. UNCHANGED got /\ call' = [call EXCEPT ![c].result = "error"]
    BY <1>1, <1>2, <1>7 DEF Chunk
  <2>2. call \in [Calls -> CallRecords] BY <1>1 DEF CallsOK
  <2>3. Moved(c) /\ Becomes(call'[c], call[c].name, call[c].at, call[c].handle, "error")
    BY <2>1, <2>2 DEF Moved, Becomes, CallRecords
  <2>4. TaskMoves(c) BY <1>1, <1>3, <1>4, <2>1, <2>3 DEF TaskMoves
  <2>5. call'[c].at = "stream" /\ call'[c].result = "error" /\ call'[c].handle = call[c].handle /\ call[c].at = "stream"
    BY <1>1, <2>3 DEF Becomes, At
  <2>6. StageOK(c)' BY <1>1, <2>1, <2>5 DEF StageOK, At
  <2>7. StreamOK(c)' BY <1>1, <2>5 DEF StreamOK, At
  <2> QED BY <1>1, <2>4, <2>5, <2>6, <2>7, SamePlaceCalm
<1> QED BY <1>6, <1>7

LEMMA LastChunkCalm ==
  ASSUME ServingInv, NEW c \in Calls, LastChunk(c)
  PROVE  Calm(c)
<1>1. /\ CallsOK /\ StageOK(c) /\ StreamOK(c) /\ At(c, "stream") /\ job[c] \in {"ended", "failed"} /\ notes[c] = 0
      /\ got' = [got EXCEPT ![c] = 0] /\ job' = [job EXCEPT ![c] = "none"]
      /\ made' = [made EXCEPT ![c] = 0] /\ listens' = [listens EXCEPT ![c] = FALSE]
      /\ UNCHANGED <<tables, models, held, notes, chan>>
  BY DEF ServingInv, LastChunk, EndSeen, Stopped
<1>2. PICK how \in {"none", "ok", "error", "refused"} : End(c, how)
  <2>1. call[c].result \in {"none", "error"} BY <1>1 DEF StreamOK
  <2> QED BY <2>1 DEF LastChunk
<1>3. Moved(c) /\ Becomes(call'[c], call[c].name, "over", 0, how) BY <1>1, <1>2, EndMoves
<1>4. TaskMoves(c)
  <2>1. "none" \in Jobs /\ 0 \in Nat /\ FALSE \in BOOLEAN BY DEF Jobs
  <2> QED BY <1>1, <1>3, <2>1 DEF TaskMoves
<1>5. Only(c) BY <1>1, <1>4, TaskMovesOnly
<1>6. call'[c].at = "over" /\ job'[c] = "none" /\ got'[c] = 0 /\ notes'[c] = 0
  BY <1>1, <1>3 DEF Becomes, CallsOK
<1>7. StageOK(c)' BY <1>6 DEF StageOK, At
<1>8. StreamOK(c)' BY <1>6 DEF StreamOK, At
<1>9. HandedTo(c)' = 0 /\ GoingBy(c)' = 0 /\ ReadBy(c)' = 0 BY <1>6 DEF HandedTo, GoingBy, ReadBy, At
<1>10. ~(c \in Loaders') BY <1>6 DEF Loaders
<1> QED BY <1>1, <1>5, <1>7, <1>8, <1>9, <1>10 DEF Calm, At

\* PullLine and LastLine follow a pull; the client may leave at any await.
LEMMA FollowCalm ==
  ASSUME ServingInv, NEW c \in Calls, PullLine(c) \/ LastLine(c), c # Main
  PROVE  Calm(c)
<1>1. /\ CallsOK /\ StageOK(c) /\ At(c, "follow") /\ got[c] = 0
      /\ UNCHANGED <<tables, models, held, notes, job, made, got>>
  BY DEF ServingInv, PullLine, LastLine, StageOK, At, jobs
<1>2. PICK r \in {"none", "ok", "error", "refused"} : r = call[c].result BY <1>1 DEF CallsOK, CallRecords
<1>3. CASE PullLine(c)
  <2>1. PICK v \in {"none", "ok", "error", "refused"} : call' = [call EXCEPT ![c].result = v]
    BY <1>2, <1>3 DEF PullLine
  <2>2. call \in [Calls -> CallRecords] BY <1>1 DEF CallsOK
  <2>3. Moved(c) /\ Becomes(call'[c], call[c].name, call[c].at, call[c].handle, v)
    BY <2>1, <2>2 DEF Moved, Becomes, CallRecords
  <2>4. \E w \in Seq(Items) : chan' = [chan EXCEPT ![c] = w]
    <3>1. chan[c] \in Seq(Items) /\ chan[c] # << >> BY <1>1, <1>3 DEF CallsOK, PullLine
    <3>2. Tail(chan[c]) \in Seq(Items) BY <3>1
    <3> QED BY <3>2, <1>3 DEF PullLine
  <2>5. TaskMoves(c) BY <1>1, <1>3, <2>3, <2>4 DEF TaskMoves, PullLine
  <2>6. call'[c].at = "follow" /\ call'[c].handle = call[c].handle /\ call[c].at = "follow"
    BY <1>1, <2>3 DEF Becomes, At
  <2>7. StageOK(c)' BY <1>1, <2>6 DEF StageOK, At
  <2>8. StreamOK(c)' BY <2>6 DEF StreamOK, At
  <2> QED BY <1>1, <2>5, <2>6, <2>7, <2>8, SamePlaceCalm
<1>4. CASE LastLine(c)
  <2>1. End(c, r) /\ listens' = [listens EXCEPT ![c] = FALSE] /\ UNCHANGED chan /\ job[c] \in {"ended", "failed"}
    BY <1>2, <1>4 DEF LastLine, jobs, EndSeen, Stopped
  <2>2. Moved(c) /\ Becomes(call'[c], call[c].name, "over", 0, r) BY <1>1, <2>1, EndMoves
  <2>3. TaskMoves(c) BY <1>1, <2>1, <2>2 DEF TaskMoves
  <2>4. Only(c) BY <1>1, <2>3, TaskMovesOnly
  <2>5. call'[c].at = "over" BY <2>2 DEF Becomes
  <2>6. StageOK(c)' BY <1>1, <2>5 DEF StageOK, At
  <2>7. StreamOK(c)' BY <2>5 DEF StreamOK, At
  <2>8. HandedTo(c)' = 0 /\ GoingBy(c)' = 0 /\ ReadBy(c)' = ReadBy(c)
    BY <1>1, <2>5 DEF HandedTo, GoingBy, ReadBy, At
  <2>9. c \in Loaders' => c \in Loaders BY <1>1, <2>5 DEF Loaders
  <2> QED BY <1>1, <2>4, <2>6, <2>7, <2>8, <2>9 DEF Calm
<1> QED BY <1>3, <1>4

LEMMA LeavesCalm ==
  ASSUME ServingInv, NEW c \in Calls, ClientLeaves(c), c # Main
  PROVE  Calm(c)
<1>1. /\ CallsOK /\ StageOK(c) /\ End(c, "error") /\ call[c].at \in Awaits
      /\ listens' = [listens EXCEPT ![c] = FALSE] /\ chan' = [chan EXCEPT ![c] = << >>]
      /\ got' = [got EXCEPT ![c] = 0]
      /\ UNCHANGED <<tables, models, held, notes, job, made>>
  BY DEF ServingInv, ClientLeaves
<1>2. Moved(c) /\ Becomes(call'[c], call[c].name, "over", 0, "error") BY <1>1, EndMoves
<1>3. TaskMoves(c) BY <1>1, <1>2, ItemLists DEF TaskMoves
<1>4. Only(c) BY <1>1, <1>3, TaskMovesOnly
<1>5. call'[c].at = "over" /\ got'[c] = 0 BY <1>1, <1>2 DEF Becomes, CallsOK
<1>6. StageOK(c)' BY <1>1, <1>5 DEF StageOK, At
<1>7. StreamOK(c)' BY <1>5 DEF StreamOK, At
<1>8. HandedTo(c)' = 0 /\ GoingBy(c)' = 0 /\ ReadBy(c)' = ReadBy(c)
  BY <1>1, <1>5 DEF HandedTo, GoingBy, ReadBy, At
<1>9. c \in Loaders' => c \in Loaders BY <1>1, <1>5 DEF Loaders
<1> QED BY <1>1, <1>4, <1>6, <1>7, <1>8, <1>9 DEF Calm

\* The handlers that only go on or end.
LEMMA EndsCalm ==
  ASSUME ServingInv, NEW c \in Calls, TagsEnd(c) \/ PullInstalls(c) \/ Remove(c), c # Main
  PROVE  Calm(c)
<1>1. SameTask /\ UNCHANGED <<tables, models>> /\ ~At(c, "stream")
  BY DEF TagsEnd, PullInstalls, Remove, SameTask, inferenceVars, At
<1>2. PICK how \in {"none", "ok", "error", "refused"} : End(c, how) BY DEF TagsEnd, PullInstalls, Remove
<1> QED BY <1>1, <1>2, EndIsCalm

-----------------------------------------------------------------------------
\* Handles made, and handles that go from one holder to another.
LEMMA HolderReads ==
  ASSUME NEW n, NEW h, NEW r, NEW o, NEW k, NEW max \in Nat, NEW c \in Calls,
         Views(n, h, r, o, k), Holders(n, h, r, o, k), UpTo(n, h, r, o, k, max)
  PROVE  /\ Holders(n, h, [r EXCEPT ![c] = max + 1], o, k)
         /\ UpTo(n, h, [r EXCEPT ![c] = max + 1], o, k, max + 1)
<1> USE DEF Views
<1>1. PICK v : v = [r EXCEPT ![c] = max + 1] OBVIOUS
<1>2. v \in [Calls -> Nat] /\ v[c] = max + 1 /\ \A x \in Calls : x # c => v[x] = r[x] BY <1>1
<1>3. Single(v) BY <1>2 DEF Holders, UpTo, Single
<1>4. Apart(n, v) /\ Apart(h, v) /\ Apart(v, o) BY <1>2 DEF Holders, UpTo, Apart
<1>5. Without0(v, k) BY <1>2 DEF Holders, UpTo, Without0
<1>6. UpTo(n, h, v, o, k, max + 1) BY <1>2 DEF UpTo
<1> QED BY <1>1, <1>3, <1>4, <1>5, <1>6 DEF Holders

LEMMA HolderMakes ==
  ASSUME NEW n, NEW h, NEW r, NEW o, NEW k, NEW max \in Nat, NEW c \in Calls,
         Views(n, h, r, o, k), Holders(n, h, r, o, k), UpTo(n, h, r, o, k, max)
  PROVE  /\ Holders(n, [h EXCEPT ![c] = max + 1], r, o, k)
         /\ UpTo(n, [h EXCEPT ![c] = max + 1], r, o, k, max + 1)
<1> USE DEF Views
<1>1. PICK v : v = [h EXCEPT ![c] = max + 1] OBVIOUS
<1>2. v \in [Calls -> Nat] /\ v[c] = max + 1 /\ \A x \in Calls : x # c => v[x] = h[x] BY <1>1
<1>3. Single(v) BY <1>2 DEF Holders, UpTo, Single
<1>4. Apart(n, v) /\ Apart(v, r) /\ Apart(v, o) BY <1>2 DEF Holders, UpTo, Apart
<1>5. Without0(v, k) BY <1>2 DEF Holders, UpTo, Without0
<1>6. UpTo(n, v, r, o, k, max + 1) BY <1>2 DEF UpTo
<1> QED BY <1>1, <1>3, <1>4, <1>5, <1>6 DEF Holders

LEMMA HolderTracks ==
  ASSUME NEW n, NEW h, NEW r, NEW o, NEW k, NEW max \in Nat, NEW c \in Calls,
         Views(n, h, r, o, k), Holders(n, h, r, o, k), UpTo(n, h, r, o, k, max)
  PROVE  /\ Holders(n, [h EXCEPT ![c] = r[c]], [r EXCEPT ![c] = 0], o, k)
         /\ UpTo(n, [h EXCEPT ![c] = r[c]], [r EXCEPT ![c] = 0], o, k, max)
<1> USE DEF Views
<1>1. PICK v : v = [h EXCEPT ![c] = r[c]] OBVIOUS
<1>2. v \in [Calls -> Nat] /\ v[c] = r[c] /\ \A x \in Calls : x # c => v[x] = h[x] BY <1>1
<1>3. PICK w : w = [r EXCEPT ![c] = 0] OBVIOUS
<1>4. w \in [Calls -> Nat] /\ w[c] = 0 /\ \A x \in Calls : x # c => w[x] = r[x] BY <1>3
<1>5. Single(v) BY <1>2 DEF Holders, Single, Apart
<1>6. Single(w) BY <1>4 DEF Holders, Single
<1>7. Apart(n, v) /\ Apart(n, w) BY <1>2, <1>4 DEF Holders, Apart
<1>8. Apart(v, w) BY <1>2, <1>4 DEF Holders, Apart, Single
<1>9. Apart(v, o) /\ Apart(w, o) BY <1>2, <1>4 DEF Holders, Apart
<1>10. Without0(v, k) /\ Without0(w, k) BY <1>2, <1>4 DEF Holders, Without0
<1>11. UpTo(n, v, w, o, k, max) BY <1>2, <1>4 DEF UpTo
<1> QED BY <1>1, <1>3, <1>5, <1>6, <1>7, <1>8, <1>9, <1>10, <1>11 DEF Holders

LEMMA HolderInserts ==
  ASSUME NEW n, NEW h, NEW r, NEW o, NEW k, NEW max \in Nat, NEW c \in Calls, NEW m,
         Views(n, h, r, o, k), Holders(n, h, r, o, k), UpTo(n, h, r, o, k, max)
  PROVE  /\ Holders([n EXCEPT ![m] = h[c]], [h EXCEPT ![c] = 0], r, o, k)
         /\ UpTo([n EXCEPT ![m] = h[c]], [h EXCEPT ![c] = 0], r, o, k, max)
         /\ [n EXCEPT ![m] = h[c]] \in [Names -> Nat]
<1> USE DEF Views
<1>1. PICK v : v = [n EXCEPT ![m] = h[c]] OBVIOUS
<1>2. v \in [Names -> Nat] /\ \A x \in Names : v[x] = IF x = m THEN h[c] ELSE n[x] BY <1>1
<1>3. PICK w : w = [h EXCEPT ![c] = 0] OBVIOUS
<1>4. w \in [Calls -> Nat] /\ w[c] = 0 /\ \A x \in Calls : x # c => w[x] = h[x] BY <1>3
<1>5. Single(v) BY <1>2 DEF Holders, Single, Apart
<1>6. Single(w) BY <1>4 DEF Holders, Single
<1>7. Apart(v, w) BY <1>2, <1>4 DEF Holders, Apart, Single
<1>8. Apart(v, r) /\ Apart(v, o) /\ Apart(w, r) /\ Apart(w, o) BY <1>2, <1>4 DEF Holders, Apart
<1>9. Without0(v, k) /\ Without0(w, k) BY <1>2, <1>4 DEF Holders, Without0
<1>10. UpTo(v, w, r, o, k, max) BY <1>2, <1>4 DEF UpTo
<1> QED BY <1>1, <1>2, <1>3, <1>5, <1>6, <1>7, <1>8, <1>9, <1>10 DEF Holders

LEMMA HolderTakenOut ==
  ASSUME NEW n, NEW h, NEW r, NEW o, NEW k, NEW max \in Nat, NEW c \in Calls, NEW m \in Names,
         Views(n, h, r, o, k), Holders(n, h, r, o, k), UpTo(n, h, r, o, k, max)
  PROVE  /\ Holders([n EXCEPT ![m] = 0], h, r, [o EXCEPT ![c] = n[m]], k)
         /\ UpTo([n EXCEPT ![m] = 0], h, r, [o EXCEPT ![c] = n[m]], k, max)
         /\ [n EXCEPT ![m] = 0] \in [Names -> Nat]
<1> USE DEF Views
<1>1. PICK v : v = [n EXCEPT ![m] = 0] OBVIOUS
<1>2. v \in [Names -> Nat] /\ v[m] = 0 /\ \A x \in Names : x # m => v[x] = n[x] BY <1>1
<1>3. PICK w : w = [o EXCEPT ![c] = n[m]] OBVIOUS
<1>4. w \in [Calls -> Nat] /\ w[c] = n[m] /\ \A x \in Calls : x # c => w[x] = o[x] BY <1>3
<1>5. Single(v) BY <1>2 DEF Holders, Single
<1>6. Apart(v, w) BY <1>2, <1>4 DEF Holders, Apart, Single
<1>7. Apart(v, h) /\ Apart(v, r) BY <1>2 DEF Holders, Apart
<1>8. Apart(h, w) /\ Apart(r, w) BY <1>4 DEF Holders, Apart
<1>9. Without0(v, k) BY <1>2 DEF Holders, Without0
<1>10. UpTo(v, h, r, w, k, max) BY <1>2, <1>4 DEF UpTo
<1> QED BY <1>1, <1>2, <1>3, <1>5, <1>6, <1>7, <1>8, <1>9, <1>10 DEF Holders

LEMMA HolderKeeps ==
  ASSUME NEW n, NEW h, NEW r, NEW o, NEW k, NEW max \in Nat, NEW c \in Calls,
         Views(n, h, r, o, k), Holders(n, h, r, o, k), UpTo(n, h, r, o, k, max)
  PROVE  /\ Holders(n, [h EXCEPT ![c] = 0], r, o, h[c])
         /\ UpTo(n, [h EXCEPT ![c] = 0], r, o, h[c], max)
<1> USE DEF Views
<1>1. PICK w : w = [h EXCEPT ![c] = 0] OBVIOUS
<1>2. w \in [Calls -> Nat] /\ w[c] = 0 /\ \A x \in Calls : x # c => w[x] = h[x] BY <1>1
<1>3. Single(w) BY <1>2 DEF Holders, Single
<1>4. Apart(n, w) /\ Apart(w, r) /\ Apart(w, o) BY <1>2 DEF Holders, Apart
<1>5. Without0(n, h[c]) /\ Without0(r, h[c]) BY DEF Holders, Without0, Apart
<1>6. Without0(w, h[c]) BY <1>2 DEF Holders, Without0, Single
<1>7. UpTo(n, w, r, o, h[c], max) BY <1>2 DEF UpTo
<1> QED BY <1>1, <1>3, <1>4, <1>5, <1>6, <1>7 DEF Holders

LEMMA HolderGoes ==
  ASSUME NEW n, NEW h, NEW r, NEW o, NEW k, NEW max \in Nat, NEW c \in Calls,
         Views(n, h, r, o, k), Holders(n, h, r, o, k), UpTo(n, h, r, o, k, max)
  PROVE  /\ Holders(n, h, r, [o EXCEPT ![c] = k], 0)
         /\ UpTo(n, h, r, [o EXCEPT ![c] = k], 0, max)
<1> USE DEF Views
<1>1. PICK w : w = [o EXCEPT ![c] = k] OBVIOUS
<1>2. w \in [Calls -> Nat] /\ w[c] = k /\ \A x \in Calls : x # c => w[x] = o[x] BY <1>1
<1>3. Apart(n, w) /\ Apart(h, w) /\ Apart(r, w) BY <1>2 DEF Holders, Apart, Without0
<1>4. Without0(n, 0) /\ Without0(h, 0) /\ Without0(r, 0) BY DEF Without0
<1>5. UpTo(n, h, r, w, 0, max) BY <1>2 DEF UpTo
<1> QED BY <1>1, <1>3, <1>4, <1>5 DEF Holders

LEMMA ViewsMove ==
  ASSUME ServingInv, NEW c \in Calls, Only(c)
  PROVE  /\ Handing' = [Handing EXCEPT ![c] = HandedTo(c)']
         /\ Reading' = [Reading EXCEPT ![c] = ReadBy(c)']
         /\ Going' = [Going EXCEPT ![c] = GoingBy(c)']
         /\ Handing[c] = HandedTo(c) /\ Reading[c] = ReadBy(c) /\ Going[c] = GoingBy(c)
         /\ Views(models, Handing, Reading, Going, Kept) /\ counter \in Nat
<1>1. \A d \in Calls : d # c => /\ HandedTo(d)' = HandedTo(d) /\ ReadBy(d)' = ReadBy(d)
                                /\ GoingBy(d)' = GoingBy(d)
  BY OthersStay
<1>2. Handing' = [Handing EXCEPT ![c] = HandedTo(c)'] BY <1>1 DEF Handing
<1>3. Reading' = [Reading EXCEPT ![c] = ReadBy(c)'] BY <1>1 DEF Reading
<1>4. Going' = [Going EXCEPT ![c] = GoingBy(c)'] BY <1>1 DEF Going
<1>5. Handing[c] = HandedTo(c) /\ Reading[c] = ReadBy(c) /\ Going[c] = GoingBy(c)
  BY DEF Handing, Reading, Going
<1>6. ViewsOK BY ViewsTyped DEF ServingInv
<1>7. Views(models, Handing, Reading, Going, Kept) /\ counter \in Nat
  BY <1>6 DEF Views, ViewsOK, ServingInv, TablesOK
<1> QED BY <1>2, <1>3, <1>4, <1>5, <1>7

LEMMA MainStays ==
  ASSUME ServingInv, NEW c \in Calls, Only(c), UNCHANGED main,
         call'[c] = call[c] \/ c # Main \/ call[c].at \notin {"new", "over"}
  PROVE  MainOK' /\ Kept' = Kept
<1>1. call'[Main] = call[Main] \/ call[Main].at \notin {"new", "over"}
  BY CallsFinite DEF Only
<1> QED BY <1>1 DEF ServingInv, MainOK, Kept, Over, At

LEMMA CallsStay ==
  ASSUME ServingInv, NEW c \in Calls, Only(c), StageOK(c)', StreamOK(c)'
  PROVE  \A d \in Calls : StageOK(d)' /\ StreamOK(d)'
BY OthersStay

LEMMA HandleIsNew ==
  ASSUME ServingInv, NEW c \in Loaders
  PROVE  counter + 1 \in Handles
<1>1. IsFiniteSet(Loaders) BY CallsFinite, FS_Subset DEF Loaders
<1>2. Cardinality(Loaders) \in Nat /\ Cardinality(Loaders) # 0
  BY <1>1, FS_CardinalityType, FS_EmptySet
<1> QED BY <1>2, CallsFinite DEF ServingInv, Room, Handles, TablesOK

LEMMA LoaderMakes ==
  ASSUME ServingInv, NEW c \in Calls, c \in Loaders, Only(c), ~(c \in Loaders'), counter' = counter + 1
  PROVE  Room'
<1>1. IsFiniteSet(Loaders) BY CallsFinite, FS_Subset DEF Loaders
<1>2. \A d \in Calls : d # c => ((d \in Loaders)' <=> d \in Loaders) BY OthersStay
<1>3. Loaders' = Loaders \ {c} BY <1>2 DEF Loaders
<1>4. Cardinality(Loaders') = Cardinality(Loaders) - 1 BY <1>1, <1>3, FS_RemoveElement
<1>5. Cardinality(Loaders) \in Nat BY <1>1, FS_CardinalityType
<1> QED BY <1>4, <1>5, CallsFinite DEF ServingInv, Room, TablesOK

LEMMA SameLoaders ==
  ASSUME ServingInv, NEW c \in Calls, Only(c), UNCHANGED counter, c \in Loaders' => c \in Loaders
  PROVE  Room'
<1>1. \A d \in Calls : d \in Loaders' => d \in Loaders BY OthersStay
<1>2. Loaders' \subseteq Loaders BY <1>1 DEF Loaders
<1> QED BY <1>2, FewerLoaders

LEMMA StepKeeps ==
  ASSUME ServingInv, NEW c \in Calls, Only(c), StageOK(c)', StreamOK(c)', TablesOK', MainOK',
         HoldersOK', MadeOK', InService', Room'
  PROVE  ServingInv'
BY CallsStay DEF ServingInv, Only

\* A task makes a handle, in the engine's table if the engine is the local one.
Makes(c) ==
  /\ counter' = counter + 1
  /\ held' = [held EXCEPT ![c] = counter + 1]
  /\ \/ loaded' = loaded \cup {counter + 1} /\ job' = [job EXCEPT ![c] = "loaded"]
     \/ UNCHANGED loaded /\ job' = [job EXCEPT ![c] = "meshed"]
  /\ UNCHANGED <<backends, info, chan, made, listens, models, got, notes, main>>

LEMMA MakesStep ==
  ASSUME ServingInv, NEW c \in Calls, Makes(c), job[c] \in {"reading", "refused"},
         \/ UNCHANGED call 
         \/ Moved(c) /\ Becomes(call'[c], call[c].name, "load", call[c].handle, call[c].result) /\ At(c, "load")
  PROVE  ServingInv'
<1>1. CallsOK /\ StageOK(c) /\ StreamOK(c) /\ TablesOK /\ InService /\ HoldersOK /\ MadeOK BY DEF ServingInv
<1>2. counter \in Nat /\ counter + 1 \in Nat BY <1>1 DEF TablesOK
<1>3. PICK v \in {"loaded", "meshed"} : job' = [job EXCEPT ![c] = v]
  BY DEF Makes
<1>4. Only(c)
  <2>1. call' \in [Calls -> CallRecords] /\ \A d \in Calls : d # c => call'[d] = call[d]
    BY <1>1 DEF CallsOK, Moved
  <2>2. job' \in [Calls -> Jobs] /\ \A d \in Calls : d # c => job'[d] = job[d]
    BY <1>1, <1>3 DEF CallsOK, Jobs
  <2>3. held' \in [Calls -> Nat] /\ \A d \in Calls : d # c => held'[d] = held[d]
    BY <1>1, <1>2 DEF CallsOK, Makes
  <2> QED BY <1>1, <2>1, <2>2, <2>3 DEF CallsOK, Only, Makes
<1>5. job'[c] = v /\ held'[c] = counter + 1 BY <1>1, <1>3 DEF Makes, CallsOK
<1>6. /\ call'[c].at = call[c].at /\ call'[c].handle = call[c].handle /\ call'[c].result = call[c].result
      /\ call'[c].name = call[c].name
  BY DEF Becomes, At
<1>7. call[c].at \notin {"new", "look", "resolve", "stream"} BY <1>1 DEF StageOK, StreamOK, At
<1>8. call'[c] = call[c] \/ call[c].at \notin {"new", "over"} BY DEF At
<1>9. StageOK(c)' BY <1>1, <1>5, <1>6, <1>7 DEF StageOK, At, Makes
<1>10. StreamOK(c)' BY <1>6, <1>7 DEF StreamOK, At
<1>11. TablesOK'
  <2>1. loaded' \subseteq Nat BY <1>1, <1>2 DEF TablesOK, Makes
  <2> QED BY <1>1, <1>2, <2>1 DEF TablesOK, Makes
<1>12. MainOK' /\ Kept' = Kept BY <1>4, <1>8, MainStays DEF Makes
<1>13. HandedTo(c)' = HandedTo(c) /\ GoingBy(c)' = GoingBy(c) /\ ReadBy(c)' = counter + 1
  BY <1>5, <1>6 DEF HandedTo, GoingBy, ReadBy, At
<1>14. HoldersOK' /\ MadeOK'
  <2>1. Handing' = Handing /\ Going' = Going /\ Reading' = [Reading EXCEPT ![c] = counter + 1]
        /\ Views(models, Handing, Reading, Going, Kept)
    BY <1>4, <1>13, ViewsMove DEF Views
  <2>2. /\ Holders(models, Handing, [Reading EXCEPT ![c] = counter + 1], Going, Kept)
        /\ UpTo(models, Handing, [Reading EXCEPT ![c] = counter + 1], Going, Kept, counter + 1)
    BY <1>1, <1>2, <2>1, HolderReads DEF HoldersOK, MadeOK
  <2> QED BY <1>12, <2>1, <2>2 DEF HoldersOK, MadeOK, Makes
<1>15. InService'
  <2>1. loaded \subseteq loaded' BY DEF Makes
  <2>2. \A x : Served(x) => Served(x)' BY <2>1 DEF Served, Makes
  <2>3. \A d \in Calls : HandedTo(d)' = HandedTo(d) BY <1>4, <1>13, OthersStay
  <2>4. \A d \in Calls : ReadBy(d)' # 0 /\ job'[d] = "loaded" => held'[d] \in loaded'
    <3> SUFFICES ASSUME NEW d \in Calls, ReadBy(d)' # 0, job'[d] = "loaded" PROVE held'[d] \in loaded' OBVIOUS
    <3>1. CASE d = c
      <4>1. job' = [job EXCEPT ![c] = "loaded"] BY <3>1, <1>3, <1>5
      <4>2. loaded' = loaded \cup {counter + 1} 
        <5>1. job'[c] # "meshed" BY <3>1
        <5>2. ~(job' = [job EXCEPT ![c] = "meshed"]) BY <5>1, <1>1 DEF CallsOK
        <5> QED BY <5>2 DEF Makes
      <4> QED BY <3>1, <4>2, <1>5
    <3>2. CASE d # c
      <4>1. job[d] = "loaded" /\ held'[d] = held[d] /\ ReadBy(d) # 0 BY <3>2, <1>4, OthersStay DEF Only
      <4> QED BY <4>1, <2>1, <1>1 DEF InService
    <3> QED BY <3>1, <3>2
  <2>5. \A n \in Names : models'[n] = models[n] BY DEF Makes
  <2> QED BY <1>1, <2>2, <2>3, <2>4, <2>5 DEF InService
<1>16. Room'
  <2>1. c \in Loaders BY DEF Loaders
  <2>2. ~(c \in Loaders') BY <1>5, <1>6, <1>7 DEF Loaders
  <2> QED BY <1>4, <2>1, <2>2, LoaderMakes DEF Makes
<1> QED BY <1>4, <1>9, <1>10, <1>11, <1>12, <1>14, <1>15, <1>16, StepKeeps

LEMMA LoadEndsStep ==
  ASSUME ServingInv, NEW c \in Calls, LoadEnds(c), UNCHANGED <<callVars, main>>
  PROVE  ServingInv'
<1>1. Makes(c) BY DEF LoadEnds, Makes, callVars
<1> QED BY <1>1, MakesStep DEF LoadEnds, callVars

LEMMA FallsBackStep ==
  ASSUME ServingInv, NEW c \in Calls, LoadFallsBack(c), UNCHANGED main
  PROVE  ServingInv'
<1>1. CASE MeshLoads(c) /\ Go(c, "load")
  <2>1. Moved(c) /\ Becomes(call'[c], call[c].name, "load", call[c].handle, call[c].result)
    BY <1>1, GoMoves DEF Places, ServingInv
  <2>2. Makes(c) BY <1>1 DEF MeshLoads, LoadFallsBack, Makes
  <2> QED BY <2>1, <2>2, MakesStep DEF LoadFallsBack
<1>2. CASE End(c, "error") /\ UNCHANGED inferenceVars
  <2>1. Calm(c) BY <1>2, EndIsCalm DEF LoadFallsBack, SameTask, inferenceVars, At
  <2> QED BY <2>1, CalmStep
<1> QED BY <1>1, <1>2 DEF LoadFallsBack

\* load_cloud makes a handle and enters it in the tables.
LEMMA CloudStep ==
  ASSUME ServingInv, NEW c \in Calls, CloudLoads(c), GoWith(c, "insert", counter + 1),
         call[c].at \in {"new", "resolve"},
         UNCHANGED <<models, got, notes>>, MainOK', Kept' = Kept
  PROVE  ServingInv'
<1>1. CallsOK /\ StageOK(c) /\ StreamOK(c) /\ TablesOK /\ InService /\ HoldersOK /\ MadeOK BY DEF ServingInv
<1>2. counter \in Nat /\ counter + 1 \in Nat BY <1>1 DEF TablesOK
<1>3. Moved(c) /\ Becomes(call'[c], call[c].name, "insert", counter + 1, call[c].result)
  BY <1>1, <1>2, GoWithMoves DEF Places
<1>4. SameTask /\ Only(c)
  <2>1. SameTask BY DEF CloudLoads, SameTask
  <2> QED BY <2>1, <1>1, <1>3, CallOnly
<1>5. c \in Loaders BY DEF Loaders
<1>6. counter + 1 \in Handles BY <1>5, HandleIsNew
<1>7. /\ counter' = counter + 1 /\ info' = info \cup {counter + 1} /\ UNCHANGED loaded
      /\ backends' = [backends EXCEPT ![counter + 1] = "cloud"]
  BY DEF CloudLoads
<1>8. call'[c].at = "insert" /\ call'[c].handle = counter + 1 /\ job'[c] = "none" /\ held'[c] = held[c] /\ job[c] = "none"
      /\ call'[c].result = call[c].result /\ notes'[c] = notes[c] /\ got'[c] = got[c]
  BY <1>1, <1>3, <1>4 DEF Becomes, StageOK, SameTask, jobs
<1>9. StageOK(c)' BY <1>1, <1>8 DEF StageOK, At
<1>10. StreamOK(c)' BY <1>8 DEF StreamOK, At
<1>11. TablesOK'
  <2>1. "cloud" \in Engines BY DEF Engines
  <2>2. backends' \in [Handles -> Engines \cup {NoEngine}] BY <1>1, <1>7, <2>1 DEF TablesOK
  <2>3. info' \subseteq Nat BY <1>1, <1>2, <1>7 DEF TablesOK
  <2> QED BY <1>1, <1>2, <1>7, <2>2, <2>3 DEF TablesOK
<1>12. HandedTo(c)' = counter + 1 /\ GoingBy(c)' = GoingBy(c) /\ ReadBy(c)' = ReadBy(c)
  BY <1>8 DEF HandedTo, GoingBy, ReadBy, At
<1>13. HoldersOK' /\ MadeOK'
  <2>1. Reading' = Reading /\ Going' = Going /\ Handing' = [Handing EXCEPT ![c] = counter + 1]
        /\ Views(models, Handing, Reading, Going, Kept)
    BY <1>4, <1>12, ViewsMove DEF Views
  <2>2. /\ Holders(models, [Handing EXCEPT ![c] = counter + 1], Reading, Going, Kept)
        /\ UpTo(models, [Handing EXCEPT ![c] = counter + 1], Reading, Going, Kept, counter + 1)
    BY <1>1, <1>2, <2>1, HolderMakes DEF HoldersOK, MadeOK
  <2> QED BY <1>7, <2>1, <2>2 DEF HoldersOK, MadeOK
<1>14. InService'
  <2>1. NoEngine # "cloud" BY InferenceAssumption
  <2>0. PICK k : k = counter + 1 OBVIOUS
  <2>2. Served(k)' BY <1>1, <1>6, <1>7, <2>0, <2>1 DEF Served, TablesOK
  <2>3. \A x : Served(x) /\ x # k => Served(x)' BY <1>1, <1>7, <2>0 DEF Served, TablesOK
  <2>4. \A x : Served(x) => Served(x)' BY <2>2, <2>3
  <2>5. \A d \in Calls : HandedTo(d)' # 0 => Served(HandedTo(d))'
    <3> SUFFICES ASSUME NEW d \in Calls, HandedTo(d)' # 0 PROVE Served(HandedTo(d))' OBVIOUS
    <3>1. CASE d = c BY <3>1, <1>12, <2>0, <2>2 DEF Served
    <3>2. CASE d # c
      <4>1. HandedTo(d)' = HandedTo(d) BY <3>2, <1>4, OthersStay
      <4>2. Served(HandedTo(d)) BY <4>1, <1>1 DEF InService
      <4>3. PICK x : x = HandedTo(d) OBVIOUS
      <4>4. Served(x)' BY <4>2, <4>3, <2>4
      <4> QED BY <4>1, <4>3, <4>4 DEF Served
    <3> QED BY <3>1, <3>2
  <2>6. \A d \in Calls : ReadBy(d)' = ReadBy(d) /\ job'[d] = job[d] /\ held'[d] = held[d]
    BY <1>4, <1>12, OthersStay DEF SameTask, jobs
  <2>7. \A n \in Names : models'[n] = models[n] OBVIOUS
  <2> QED BY <1>1, <1>7, <2>4, <2>5, <2>6, <2>7 DEF InService
<1>15. Room'
  <2>1. ~(c \in Loaders') BY <1>8 DEF Loaders
  <2> QED BY <1>4, <1>5, <1>7, <2>1, LoaderMakes
<1> QED BY <1>4, <1>9, <1>10, <1>11, <1>13, <1>14, <1>15, StepKeeps

LEMMA ResolveCloudStep ==
  ASSUME ServingInv, NEW c \in Calls, c # Main, ResolveCloud(c), UNCHANGED main
  PROVE  ServingInv'
<1>1. CASE CloudLoads(c) /\ GoWith(c, "insert", counter + 1)
  <2>1. Moved(c) 
    <3>1. counter + 1 \in Nat BY DEF ServingInv, TablesOK
    <3> QED BY <1>1, <3>1, GoWithMoves DEF Places, ServingInv
  <2>2. Only(c) 
    <3>1. SameTask BY <1>1 DEF ResolveCloud, CloudLoads, SameTask
    <3> QED BY <2>1, <3>1, CallOnly DEF ServingInv
  <2>3. MainOK' /\ Kept' = Kept BY <2>2, MainStays
  <2> QED BY <1>1, <2>3, CloudStep DEF ResolveCloud, At
<1>2. CASE End(c, "error") /\ UNCHANGED inferenceVars
  <2>1. Calm(c) BY <1>2, EndIsCalm DEF ResolveCloud, SameTask, inferenceVars, At
  <2> QED BY <2>1, CalmStep
<1> QED BY <1>1, <1>2 DEF ResolveCloud

LEMMA TracksStep ==
  ASSUME ServingInv, NEW c \in Calls, LoadTracks(c), UNCHANGED main
  PROVE  ServingInv'
<1>1. CallsOK /\ StageOK(c) /\ StreamOK(c) /\ TablesOK /\ InService /\ HoldersOK /\ MadeOK BY DEF ServingInv
<1>2. At(c, "load") /\ job[c] \in {"loaded", "meshed"} /\ UNCHANGED <<models, got, notes, counter, loaded, chan, made, listens>>
  BY DEF LoadTracks, Track
<1>3. PICK k \in Nat : k = held[c] BY <1>1 DEF CallsOK
<1>4. PICK e \in {"local", "mesh"} : e = IF job[c] = "meshed" THEN "mesh" ELSE "local" OBVIOUS
<1>5. /\ backends' = [backends EXCEPT ![k] = e] /\ info' = info \cup {k}
      /\ job' = [job EXCEPT ![c] = "none"] /\ held' = [held EXCEPT ![c] = 0]
  BY <1>3, <1>4 DEF LoadTracks, Track
<1>6. Moved(c) /\ Becomes(call'[c], call[c].name, "insert", k, call[c].result)
  BY <1>1, <1>3, GoWithMoves DEF Places, LoadTracks
<1>7. Only(c)
  <2>1. job' \in [Calls -> Jobs] /\ \A d \in Calls : d # c => job'[d] = job[d] BY <1>1, <1>5 DEF CallsOK, Jobs
  <2>2. held' \in [Calls -> Nat] /\ \A d \in Calls : d # c => held'[d] = held[d] BY <1>1, <1>5 DEF CallsOK
  <2> QED BY <1>1, <1>2, <1>6, <2>1, <2>2 DEF Only, CallsOK, Moved
<1>8. call'[c].at = "insert" /\ call'[c].handle = k /\ call'[c].result = call[c].result /\ job'[c] = "none" /\ held'[c] = 0
  BY <1>1, <1>5, <1>6 DEF Becomes, CallsOK
<1>9. StageOK(c)' BY <1>1, <1>2, <1>8 DEF StageOK, At
<1>10. StreamOK(c)' BY <1>8 DEF StreamOK, At
<1>11. TablesOK'
  <2>1. e \in Engines BY DEF Engines
  <2>2. backends' \in [Handles -> Engines \cup {NoEngine}] BY <1>1, <1>5, <2>1 DEF TablesOK
  <2> QED BY <1>1, <1>2, <1>5, <2>2 DEF TablesOK
<1>12. MainOK' /\ Kept' = Kept BY <1>2, <1>7, MainStays DEF At
<1>13. HandedTo(c) = 0 /\ ReadBy(c) = k /\ HandedTo(c)' = k /\ ReadBy(c)' = 0 /\ GoingBy(c)' = 0 /\ GoingBy(c) = 0
  BY <1>2, <1>3, <1>8 DEF HandedTo, GoingBy, ReadBy, At
<1>14. /\ Going' = Going /\ Handing' = [Handing EXCEPT ![c] = Reading[c]] /\ Reading' = [Reading EXCEPT ![c] = 0]
       /\ Reading[c] = k /\ Views(models, Handing, Reading, Going, Kept)
  BY <1>7, <1>13, ViewsMove DEF Views
<1>15. HoldersOK' /\ MadeOK'
  <2>1. /\ Holders(models, [Handing EXCEPT ![c] = Reading[c]], [Reading EXCEPT ![c] = 0], Going, Kept)
        /\ UpTo(models, [Handing EXCEPT ![c] = Reading[c]], [Reading EXCEPT ![c] = 0], Going, Kept, counter)
    BY <1>1, <1>14, HolderTracks DEF HoldersOK, MadeOK, TablesOK
  <2> QED BY <1>2, <1>12, <1>14, <2>1 DEF HoldersOK, MadeOK
<1>16. InService'
  <2>1. \A n \in Names : models[n] # 0 => models[n] # k
    BY <1>1, <1>14 DEF HoldersOK, Holders, Apart, Views
  <2>2. \A d \in Calls : HandedTo(d) # 0 => HandedTo(d) # k
    <3>1. \A d \in Calls : Handing[d] # 0 => Handing[d] # k
      BY <1>1, <1>14 DEF HoldersOK, Holders, Apart, Views
    <3> QED BY <3>1 DEF Handing
  <2>3. \A x : Served(x) /\ x # k => Served(x)' BY <1>1, <1>2, <1>5 DEF Served, TablesOK
  <2>4. k # 0 => Served(k)'
    <3> SUFFICES ASSUME k # 0 PROVE Served(k)' OBVIOUS
    <3>1. k <= counter
      BY <1>1, <1>14 DEF MadeOK, UpTo, Views
    <3>2. k \in Handles
      <4>1. IsFiniteSet(Loaders) BY CallsFinite, FS_Subset DEF Loaders
      <4>2. Cardinality(Loaders) \in Nat BY <4>1, FS_CardinalityType
      <4> QED BY <1>1, <3>1, <4>2, CallsFinite DEF ServingInv, Room, Handles, TablesOK
    <3>3. e = "local" => k \in loaded
      <4>1. e = "local" => job[c] = "loaded" BY <1>2, <1>4
      <4> QED BY <4>1, <1>1, <1>3, <1>13 DEF InService
    <3>4. e # NoEngine BY InferenceAssumption
    <3>5. backends'[k] = e BY <3>2, <1>1, <1>5 DEF TablesOK
    <3> QED BY <1>2, <1>5, <3>2, <3>3, <3>4, <3>5 DEF Served
  <2>5. \A d \in Calls : HandedTo(d)' # 0 => Served(HandedTo(d))'
    <3> SUFFICES ASSUME NEW d \in Calls, HandedTo(d)' # 0 PROVE Served(HandedTo(d))' OBVIOUS
    <3>1. PICK x : x = HandedTo(d)' OBVIOUS
    <3>2. CASE d = c 
      <4>1. x = k BY <1>13, <3>1, <3>2
      <4>2. Served(x)' BY <4>1, <2>4, <3>1
      <4> QED BY <3>1, <4>2 DEF Served
    <3>3. CASE d # c
      <4>1. x = HandedTo(d) BY <3>1, <3>3, <1>7, OthersStay
      <4>2. Served(x) /\ x # k BY <4>1, <1>1, <2>2, <3>1 DEF InService
      <4>3. Served(x)' BY <4>2, <2>3
      <4> QED BY <3>1, <4>3 DEF Served
    <3> QED BY <3>2, <3>3
  <2>6. \A d \in Calls : ReadBy(d)' # 0 => ReadBy(d) # 0 /\ job'[d] = job[d] /\ held'[d] = held[d]
    BY <1>7, <1>13, OthersStay DEF Only
  <2>7. \A d \in Calls : ReadBy(d)' # 0 /\ job'[d] = "loaded" => held'[d] \in loaded'
    BY <2>6, <1>1, <1>2 DEF InService
  <2>8. \A n \in Names : models'[n] # 0 => Served(models[n])'
    <3> SUFFICES ASSUME NEW n \in Names, models'[n] # 0 PROVE Served(models[n])' OBVIOUS
    <3>1. PICK x : x = models[n] OBVIOUS
    <3>2. Served(x) /\ x # k BY <3>1, <1>1, <1>2, <2>1 DEF InService
    <3>3. Served(x)' BY <3>2, <2>3
    <3>4. models'[n] = x BY <3>1, <1>2
    <3> QED BY <3>3, <3>4 DEF Served
  <2> QED BY <2>5, <2>7, <2>8 DEF InService
<1>17. Room'
  <2>1. ~(c \in Loaders') BY <1>8 DEF Loaders
  <2> QED BY <1>2, <1>7, <2>1, SameLoaders
<1> QED BY <1>7, <1>9, <1>10, <1>11, <1>12, <1>15, <1>16, <1>17, StepKeeps

LEMMA InsertStep ==
  ASSUME ServingInv, NEW c \in Calls, InsertModel(c), UNCHANGED main
  PROVE  ServingInv'
<1>1. CallsOK /\ StageOK(c) /\ StreamOK(c) /\ TablesOK /\ InService /\ HoldersOK /\ MadeOK BY DEF ServingInv
<1>2. At(c, "insert") /\ UNCHANGED <<tables, jobs, listens, got, notes>> BY DEF InsertModel, inferenceVars
<1>3. PICK k \in Nat : k = call[c].handle BY <1>1 DEF CallsOK, CallRecords
<1>4. PICK m : m = call[c].name OBVIOUS
<1>5. models' = [models EXCEPT ![m] = k] BY <1>3, <1>4 DEF InsertModel
<1>6. Moved(c) /\ Becomes(call'[c], m, "dispatch", k, call[c].result)
  BY <1>1, <1>3, <1>4, GoMoves DEF Places, InsertModel
<1>7. Only(c) BY <1>1, <1>2, <1>6, CallOnly DEF SameTask
<1>8. call'[c].at = "dispatch" /\ call'[c].result = call[c].result /\ job'[c] = job[c] /\ held'[c] = held[c]
      /\ notes'[c] = notes[c] /\ got'[c] = got[c]
  BY <1>2, <1>6 DEF Becomes, jobs
<1>9. StageOK(c)' BY <1>1, <1>2, <1>8 DEF StageOK, At
<1>10. StreamOK(c)' BY <1>8 DEF StreamOK, At
<1>11. MainOK' /\ Kept' = Kept BY <1>2, <1>7, MainStays DEF At
<1>12. HandedTo(c) = k /\ HandedTo(c)' = 0 /\ ReadBy(c)' = ReadBy(c) /\ GoingBy(c)' = GoingBy(c)
  BY <1>2, <1>3, <1>8 DEF HandedTo, GoingBy, ReadBy, At
<1>13. /\ Going' = Going /\ Reading' = Reading /\ Handing' = [Handing EXCEPT ![c] = 0]
       /\ Handing[c] = k /\ Views(models, Handing, Reading, Going, Kept)
  BY <1>7, <1>12, ViewsMove DEF Views
<1>14. models' = [models EXCEPT ![m] = Handing[c]] BY <1>5, <1>13
<1>15. /\ Holders([models EXCEPT ![m] = Handing[c]], [Handing EXCEPT ![c] = 0], Reading, Going, Kept)
       /\ UpTo([models EXCEPT ![m] = Handing[c]], [Handing EXCEPT ![c] = 0], Reading, Going, Kept, counter)
       /\ [models EXCEPT ![m] = Handing[c]] \in [Names -> Nat]
  BY <1>1, <1>13, HolderInserts DEF HoldersOK, MadeOK, TablesOK
<1>16. HoldersOK' /\ MadeOK' /\ TablesOK'
  BY <1>1, <1>2, <1>11, <1>13, <1>14, <1>15 DEF HoldersOK, MadeOK, TablesOK, tables
<1>17. InService'
  <2>1. \A x : Served(x)' <=> Served(x) BY <1>2 DEF Served, tables
  <2>2. \A n \in Names : models'[n] \in {models[n], k} BY <1>1, <1>5 DEF TablesOK
  <2>3. k # 0 => Served(k) BY <1>1, <1>12 DEF InService
  <2>4. \A d \in Calls : HandedTo(d)' \in {0, HandedTo(d)} /\ ReadBy(d)' = ReadBy(d)
    BY <1>7, <1>12, OthersStay
  <2>5. UNCHANGED <<job, held, loaded>> BY <1>2 DEF jobs, tables
  <2> QED BY <1>1, <2>1, <2>2, <2>3, <2>4, <2>5 DEF InService
<1>18. Room'
  <2>1. c \in Loaders' => c \in Loaders BY <1>8 DEF Loaders
  <2> QED BY <1>2, <1>7, <2>1, SameLoaders DEF tables
<1> QED BY <1>7, <1>9, <1>10, <1>11, <1>16, <1>17, <1>18, StepKeeps

LEMMA TakeOutStep ==
  ASSUME ServingInv, NEW c \in Calls, c # Main, TakeOut(c), UNCHANGED main
  PROVE  ServingInv'
<1>1. CallsOK /\ StageOK(c) /\ StreamOK(c) /\ TablesOK /\ InService /\ HoldersOK /\ MadeOK BY DEF ServingInv
<1>2. At(c, "delete") /\ UNCHANGED <<tables, jobs, listens, got, notes>> /\ call[c].name \in Names
  BY <1>1 DEF TakeOut, inferenceVars, StageOK, At
<1>3. PICK m \in Names : m = call[c].name BY <1>2
<1>4. PICK k \in Nat : k = models[m] BY <1>1 DEF TablesOK
<1>5. CASE Go(c, "remove") /\ UNCHANGED models
  <2>1. Moved(c) /\ Becomes(call'[c], call[c].name, "remove", call[c].handle, call[c].result)
    BY <1>1, <1>5, GoMoves DEF Places
  <2>2. Calm(c) BY <2>1, <1>2, <1>5, MoveIsCalm DEF SameTask, At, Fresh, Early
  <2> QED BY <2>2, CalmStep
<1>6. CASE GoWith(c, "unload", k) /\ models' = [models EXCEPT ![m] = 0]
  <2>1. Moved(c) /\ Becomes(call'[c], m, "unload", k, call[c].result)
    BY <1>1, <1>3, <1>6, GoWithMoves DEF Places
  <2>2. Only(c) BY <1>1, <1>2, <2>1, CallOnly DEF SameTask
  <2>3. call'[c].at = "unload" /\ call'[c].handle = k /\ job'[c] = job[c] /\ held'[c] = held[c]
        /\ notes'[c] = notes[c] /\ got'[c] = got[c]
    BY <1>2, <2>1 DEF Becomes, jobs
  <2>4. StageOK(c)' BY <1>1, <1>2, <2>3 DEF StageOK, At
  <2>5. StreamOK(c)' BY <2>3 DEF StreamOK, At
  <2>6. MainOK' /\ Kept' = Kept BY <2>2, MainStays
  <2>7. HandedTo(c) = 0 /\ HandedTo(c)' = 0 /\ ReadBy(c)' = ReadBy(c) /\ GoingBy(c)' = k
    BY <1>2, <2>3 DEF HandedTo, GoingBy, ReadBy, At
  <2>8. /\ Handing' = Handing /\ Reading' = Reading /\ Going' = [Going EXCEPT ![c] = models[m]]
        /\ Views(models, Handing, Reading, Going, Kept)
    BY <1>4, <2>2, <2>7, ViewsMove DEF Views
  <2>9. /\ Holders([models EXCEPT ![m] = 0], Handing, Reading, [Going EXCEPT ![c] = models[m]], Kept)
        /\ UpTo([models EXCEPT ![m] = 0], Handing, Reading, [Going EXCEPT ![c] = models[m]], Kept, counter)
        /\ [models EXCEPT ![m] = 0] \in [Names -> Nat]
    BY <1>1, <2>8, HolderTakenOut DEF HoldersOK, MadeOK, TablesOK
  <2>10. HoldersOK' /\ MadeOK' /\ TablesOK'
    BY <1>1, <1>2, <1>6, <2>6, <2>8, <2>9 DEF HoldersOK, MadeOK, TablesOK, tables
  <2>11. InService'
    <3>1. \A x : Served(x)' <=> Served(x) BY <1>2 DEF Served, tables
    <3>2. \A n \in Names : models'[n] \in {models[n], 0} BY <1>1, <1>6 DEF TablesOK
    <3>3. \A d \in Calls : HandedTo(d)' = HandedTo(d) /\ ReadBy(d)' = ReadBy(d)
      BY <2>2, <2>7, OthersStay
    <3>4. UNCHANGED <<job, held, loaded>> BY <1>2 DEF jobs, tables
    <3> QED BY <1>1, <3>1, <3>2, <3>3, <3>4 DEF InService
  <2>12. Room'
    <3>1. c \in Loaders' => c \in Loaders BY <2>3 DEF Loaders
    <3> QED BY <1>2, <2>2, <3>1, SameLoaders DEF tables
  <2> QED BY <2>2, <2>4, <2>5, <2>6, <2>10, <2>11, <2>12, StepKeeps
<1> QED BY <1>3, <1>4, <1>5, <1>6 DEF TakeOut

\* Unloading, step by step.
LEMMA UnloadCalm ==
  ASSUME ServingInv, NEW c \in Calls, Unload(c)
  PROVE  Calm(c)
<1>1. CallsOK /\ StageOK(c) /\ At(c, "unload") /\ SameTask /\ UNCHANGED <<tables, models>>
  BY DEF Unload, ServingInv, inferenceVars, SameTask
<1>2. CASE Go(c, "remove")
  <2>1. Moved(c) /\ Becomes(call'[c], call[c].name, "remove", call[c].handle, call[c].result)
    BY <1>1, <1>2, GoMoves DEF Places
  <2> QED BY <2>1, <1>1, MoveIsCalm DEF At, Fresh, Early
<1>3. CASE /\ Dispatches(call[c].handle)
           /\ call' = [call EXCEPT ![c].at = "forget", ![c].engine = backends[call[c].handle]]
  <2>1. PICK e \in Engines : e = backends[call[c].handle] BY <1>3 DEF Dispatches, Available, Engines
  <2>2. call \in [Calls -> CallRecords] /\ call[c] \in CallRecords BY <1>1 DEF CallsOK
  <2>3. PICK r : r = [call[c] EXCEPT !.at = "forget", !.engine = e] OBVIOUS
  <2>4. r \in CallRecords /\ Becomes(r, call[c].name, "forget", call[c].handle, call[c].result)
    BY <2>2, <2>3 DEF CallRecords, Becomes, Places
  <2>5. call' = [call EXCEPT ![c] = r] BY <1>3, <2>1, <2>3
  <2>6. Moved(c) /\ Becomes(call'[c], call[c].name, "forget", call[c].handle, call[c].result)
    BY <2>2, <2>4, <2>5 DEF Moved
  <2>7. Only(c) BY <1>1, <2>6, CallOnly
  <2>8. call'[c].at = "forget" /\ call'[c].handle = call[c].handle /\ job'[c] = job[c] /\ held'[c] = held[c]
        /\ notes'[c] = notes[c] /\ got'[c] = got[c]
    BY <1>1, <2>6 DEF Becomes, SameTask, jobs
  <2>9. StageOK(c)' BY <1>1, <2>8 DEF StageOK, At
  <2>10. StreamOK(c)' BY <2>8 DEF StreamOK, At
  <2>11. HandedTo(c)' = 0 /\ GoingBy(c)' = GoingBy(c) /\ ReadBy(c)' = ReadBy(c)
    BY <1>1, <2>8 DEF HandedTo, GoingBy, ReadBy, At
  <2>12. c \in Loaders' => c \in Loaders BY <2>8 DEF Loaders
  <2> QED BY <1>1, <2>7, <2>8, <2>9, <2>10, <2>11, <2>12 DEF Calm, At
<1> QED BY <1>2, <1>3 DEF Unload

LEMMA GoingStep ==
  ASSUME ServingInv, NEW c \in Calls, UNCHANGED main,
         \/ UnloadEngine(c)
         \/ UnloadEnds(c)
  PROVE  ServingInv'
<1>1. CallsOK /\ StageOK(c) /\ StreamOK(c) /\ TablesOK /\ InService /\ HoldersOK /\ MadeOK BY DEF ServingInv
<1>2. call[c].at \in {"forget", "untrack"} /\ UNCHANGED <<counter, jobs, listens, got, notes, models>>
  BY DEF UnloadEngine, UnloadEnds, EngineForgets, Untrack, At
<1>3. PICK k \in Nat : k = call[c].handle BY <1>1 DEF CallsOK, CallRecords
<1>4. PICK p \in {"untrack", "remove"} : Go(c, p) BY DEF UnloadEngine, UnloadEnds
<1>5. Moved(c) /\ Becomes(call'[c], call[c].name, p, k, call[c].result)
  BY <1>1, <1>3, <1>4, GoMoves DEF Places
<1>6. Only(c) BY <1>1, <1>2, <1>5, CallOnly DEF SameTask
<1>7. call'[c].at = p /\ call'[c].handle = k /\ job'[c] = job[c] /\ held'[c] = held[c]
      /\ notes'[c] = notes[c] /\ got'[c] = got[c]
  BY <1>2, <1>5 DEF Becomes, jobs
<1>8. StageOK(c)' BY <1>1, <1>2, <1>7 DEF StageOK, At
<1>9. StreamOK(c)' BY <1>7 DEF StreamOK, At
<1>10. MainOK' /\ Kept' = Kept BY <1>2, <1>6, MainStays
<1>11. HandedTo(c) = 0 /\ HandedTo(c)' = 0 /\ ReadBy(c)' = ReadBy(c) /\ GoingBy(c) = k /\ GoingBy(c)' \in {0, k}
  BY <1>2, <1>3, <1>7 DEF HandedTo, GoingBy, ReadBy, At
<1>12. /\ loaded \ {k} \subseteq loaded' /\ info \ {k} \subseteq info'
       /\ \A x \in Handles \ {k} : backends'[x] = backends[x]
       /\ TablesOK'
  <2>1. CASE UnloadEngine(c)
    BY <2>1, <1>1, <1>3 DEF UnloadEngine, EngineForgets, TablesOK
  <2>2. CASE UnloadEnds(c)
    BY <2>2, <1>1, <1>3 DEF UnloadEnds, Untrack, TablesOK
  <2> QED BY <2>1, <2>2
<1>13. /\ Handing' = Handing /\ Reading' = Reading /\ Going' = [Going EXCEPT ![c] = GoingBy(c)']
       /\ Going[c] = k /\ Views(models, Handing, Reading, Going, Kept)
  BY <1>6, <1>11, ViewsMove DEF Views
<1>14. HoldersOK' /\ MadeOK'
  <2>1. Fewer(models, Handing, Reading, Going, Kept, models, Handing, Reading, Going', Kept)
    BY <1>11, <1>13 DEF Fewer, Views
  <2>2. Holders(models, Handing, Reading, Going', Kept) /\ UpTo(models, Handing, Reading, Going', Kept, counter)
    BY <2>1, <1>1, HoldersFewer DEF HoldersOK, MadeOK, TablesOK
  <2> QED BY <1>2, <1>10, <1>13, <2>2 DEF HoldersOK, MadeOK
<1>15. InService'
  <2>1. \A x : Served(x) /\ x # k => Served(x)' BY <1>12 DEF Served
  <2>2. \A n \in Names : models[n] # 0 => models[n] # k
    BY <1>1, <1>13 DEF HoldersOK, Holders, Apart, Views
  <2>3. \A d \in Calls : Handing[d] # 0 => Handing[d] # k
    BY <1>1, <1>13 DEF HoldersOK, Holders, Apart, Views
  <2>4. \A d \in Calls : Reading[d] # 0 => Reading[d] # k
    BY <1>1, <1>13 DEF HoldersOK, Holders, Apart, Views
  <2>5. \A d \in Calls : HandedTo(d)' # 0 => Served(HandedTo(d))'
    <3> SUFFICES ASSUME NEW d \in Calls, HandedTo(d)' # 0 PROVE Served(HandedTo(d))' OBVIOUS
    <3>1. PICK x : x = HandedTo(d) OBVIOUS
    <3>2. HandedTo(d)' = x BY <3>1, <1>6, <1>11, OthersStay
    <3>3. Served(x) /\ x # k BY <3>1, <3>2, <1>1, <2>3 DEF InService, Handing
    <3>4. Served(x)' BY <3>3, <2>1
    <3> QED BY <3>2, <3>4 DEF Served
  <2>6. \A d \in Calls : ReadBy(d)' # 0 /\ job'[d] = "loaded" => held'[d] \in loaded'
    <3> SUFFICES ASSUME NEW d \in Calls, ReadBy(d)' # 0, job'[d] = "loaded" PROVE held'[d] \in loaded' OBVIOUS
    <3>1. ReadBy(d)' = ReadBy(d) BY <1>6, <1>11, OthersStay
    <3>2. job[d] = "loaded" /\ held'[d] = held[d] BY <1>2 DEF jobs
    <3>3. held[d] \in loaded BY <3>1, <3>2, <1>1 DEF InService
    <3>4. Reading[d] = held[d] BY <3>2 DEF Reading, ReadBy
    <3>5. held[d] # k BY <3>1, <3>4, <2>4 DEF Reading
    <3> QED BY <3>2, <3>3, <3>5, <1>12
  <2>7. \A n \in Names : models'[n] # 0 => Served(models[n])'
    <3> SUFFICES ASSUME NEW n \in Names, models'[n] # 0 PROVE Served(models[n])' OBVIOUS
    <3>1. PICK x : x = models[n] OBVIOUS
    <3>2. Served(x) /\ x # k BY <3>1, <1>1, <1>2, <2>2 DEF InService
    <3>3. Served(x)' BY <3>2, <2>1
    <3>4. models'[n] = x BY <3>1, <1>2
    <3> QED BY <3>3, <3>4 DEF Served
  <2> QED BY <2>5, <2>6, <2>7 DEF InService
<1>16. Room'
  <2>1. c \in Loaders' => c \in Loaders BY <1>7 DEF Loaders
  <2> QED BY <1>2, <1>6, <2>1, SameLoaders
<1> QED BY <1>6, <1>8, <1>9, <1>10, <1>12, <1>14, <1>15, <1>16, StepKeeps

-----------------------------------------------------------------------------
\* The program's own steps.
LEMMA NextTurn == \A t \in Nat : t + 1 \in Nat
OBVIOUS

LEMMA MainMoves ==
  ASSUME main \in MainRecords,
         \/ \E p \in {"load", "bind", "open", "prompt", "turn", "closing", "down"} :
              main' = [main EXCEPT !.at = p]
         \/ main' = [main EXCEPT !.at = "open", !.name = NoName, !.tried = 0]
         \/ main' = [main EXCEPT !.at = "down", !.name = NoName, !.tried = 0]
         \/ main' = [main EXCEPT !.tried = @ + 1]
         \/ main' = [main EXCEPT !.at = "turn", !.turns = @ + 1]
         \/ \E h \in Nat : main' = [main EXCEPT !.at = "prompt", !.handle = h]
  PROVE  main' \in MainRecords
<1>1. CASE \E p \in {"load", "bind", "open", "prompt", "turn", "closing", "down"} :
              main' = [main EXCEPT !.at = p]
  BY <1>1 DEF MainRecords
<1>2. CASE \E p \in {"open", "down"} : main' = [main EXCEPT !.at = p, !.name = NoName, !.tried = 0]
  <2>1. PICK p \in {"open", "down"} : main' = [main EXCEPT !.at = p, !.name = NoName, !.tried = 0] BY <1>2
  <2> QED BY <2>1 DEF MainRecords
<1>3. CASE main' = [main EXCEPT !.tried = @ + 1] BY <1>3 DEF MainRecords
<1>4. CASE main' = [main EXCEPT !.at = "turn", !.turns = @ + 1]
  <2>1. main.turns \in Nat BY DEF MainRecords
  <2>4. main.turns + 1 \in Nat BY <2>1, NextTurn
  <2>2. PICK t \in Nat : t = main.turns + 1 BY <2>4
  <2>3. main' = [main EXCEPT !.at = "turn", !.turns = t] BY <1>4, <2>2
  <2> QED BY <2>3 DEF MainRecords
<1>5. CASE \E h \in Nat : main' = [main EXCEPT !.at = "prompt", !.handle = h] BY <1>5 DEF MainRecords
<1> QED BY <1>1, <1>2, <1>3, <1>4, <1>5

\* Nothing of a call changes.
LEMMA IdleCalm ==
  ASSUME ServingInv, SameTask, UNCHANGED <<tables, models, call>>
  PROVE  Calm(Main)
<1>1. Main \in Calls BY CallsFinite
<1>2. CallsOK /\ StageOK(Main) /\ StreamOK(Main) BY <1>1 DEF ServingInv
<1>3. CallsOK' BY <1>2 DEF CallsOK, SameTask, jobs
<1>4. Only(Main) BY <1>3 DEF Only, SameTask, jobs
<1>5. StageOK(Main)' BY <1>2 DEF StageOK, At, SameTask, jobs
<1>6. StreamOK(Main)' BY <1>2 DEF StreamOK, At, SameTask, jobs
<1>7. HandedTo(Main)' = HandedTo(Main) /\ ReadBy(Main)' = ReadBy(Main) /\ GoingBy(Main)' = GoingBy(Main)
      /\ job'[Main] = job[Main] /\ held'[Main] = held[Main]
  BY DEF HandedTo, ReadBy, GoingBy, At, SameTask, jobs
<1>8. Main \in Loaders' => Main \in Loaders BY DEF Loaders, SameTask, jobs
<1> QED BY <1>4, <1>5, <1>6, <1>7, <1>8 DEF Calm

LEMMA IdleStep ==
  ASSUME ServingInv, SameTask, UNCHANGED <<tables, models, call>>,
         \/ UNCHANGED main
         \/ MainOK' /\ Kept' \in {0, Kept}
  PROVE  ServingInv'
BY IdleCalm, CalmStep, CallsFinite

MainAlone == NotLoaded \/ Opens \/ Busy \/ GivesUp \/ TurnEnds
LEMMA MainAloneStep ==
  ASSUME ServingInv, MainAlone
  PROVE  ServingInv'
<1>1. main \in MainRecords /\ MainOK BY DEF ServingInv, MainOK
<1>2. SameTask /\ UNCHANGED <<tables, models, call>>
  BY DEF MainAlone, NotLoaded, Opens, Busy, GivesUp, TurnEnds, inferenceVars, callVars, SameTask
<1>3. CASE NotLoaded
  <2>1. PICK p \in {"bind", "down"} : main' = [main EXCEPT !.at = p] BY <1>3 DEF NotLoaded, Goes
  <2>2. main' \in MainRecords BY <2>1, <1>1, MainMoves
  <2>3. main'.at = p BY <2>1, <1>1 DEF MainRecords
  <2>4. MainOK' /\ Kept' = 0 BY <2>2, <2>3 DEF MainOK, Kept
  <2> QED BY <2>4, <1>2, IdleStep
<1>4. CASE Opens \/ GivesUp
  <2>1. PICK p \in {"open", "down"} : main' = [main EXCEPT !.at = p, !.name = NoName, !.tried = 0]
    BY <1>4 DEF Opens, GivesUp
  <2>2. main' \in MainRecords BY <2>1, <1>1, MainMoves
  <2>3. main'.at = p BY <2>1, <1>1 DEF MainRecords
  <2>4. MainOK' /\ Kept' = 0 BY <2>2, <2>3 DEF MainOK, Kept
  <2> QED BY <2>4, <1>2, IdleStep
<1>5. CASE Busy
  <2>1. main' = [main EXCEPT !.tried = @ + 1] /\ main.at = "bind" BY <1>5 DEF Busy, Stands
  <2>2. main' \in MainRecords BY <2>1, <1>1, MainMoves
  <2>3. main'.at = "bind" BY <2>1, <1>1 DEF MainRecords
  <2>4. MainOK' /\ Kept' = 0 BY <2>2, <2>3 DEF MainOK, Kept
  <2> QED BY <2>4, <1>2, IdleStep
<1>6. CASE TurnEnds
  <2>1. main' = [main EXCEPT !.at = "prompt"] /\ main.at = "turn" /\ Over(Main) BY <1>6 DEF TurnEnds, Stands, Goes
  <2>2. main' \in MainRecords BY <2>1, <1>1, MainMoves
  <2>3. main'.at = "prompt" /\ main'.handle = main.handle BY <2>1, <1>1 DEF MainRecords
  <2>4. MainOK' /\ Kept' = Kept BY <2>1, <2>2, <2>3, <1>2 DEF MainOK, Kept, Over, At
  <2> QED BY <2>4, <1>2, IdleStep
<1> QED BY <1>3, <1>4, <1>5, <1>6 DEF MainAlone

\* The program starts to read its model, or goes on without.
LEMMA FileStep ==
  ASSUME ServingInv, main.at = "start", LoadsFile, Goes("load"), UNCHANGED <<models, got, notes>>
  PROVE  ServingInv'
<1>1. main \in MainRecords /\ MainOK /\ CallsOK /\ Main \in Calls /\ StageOK(Main)
  BY CallsFinite DEF ServingInv, MainOK
<1>2. main' = [main EXCEPT !.at = "load"] BY DEF Goes
<1>3. main' \in MainRecords BY <1>1, <1>2, MainMoves
<1>4. main'.at = "load" BY <1>1, <1>2 DEF MainRecords
<1>5. MainOK' /\ Kept' = 0 /\ main' # main BY <1>3, <1>4 DEF MainOK, Kept
<1>6. /\ Asked(Main, "boot", main.name, FALSE, "load")
      /\ job' = [job EXCEPT ![Main] = "reading"]
      /\ UNCHANGED <<tables, held, chan, made, listens>> /\ At(Main, "new")
  BY <1>1 DEF LoadsFile, MainOK
<1>7. Moved(Main) /\ Becomes(call'[Main], main.name, "load", call[Main].handle, call[Main].result)
  <2>1. main.name \in Names \cup {NoName} BY <1>1 DEF MainRecords
  <2> QED BY <2>1, <1>1, <1>6, AskedMoves DEF Ops, Places
<1>8. TaskMoves(Main) BY <1>6, <1>7 DEF TaskMoves, Jobs
<1>9. Only(Main) BY <1>1, <1>8, TaskMovesOnly
<1>10. call'[Main].at = "load" /\ call'[Main].result = call[Main].result /\ job'[Main] = "reading"
       /\ notes'[Main] = notes[Main] /\ got'[Main] = got[Main]
  BY <1>1, <1>6, <1>7 DEF Becomes, CallsOK
<1>11. StageOK(Main)' BY <1>1, <1>6, <1>10 DEF StageOK, At
<1>12. StreamOK(Main)' BY <1>10 DEF StreamOK, At
<1>13. HandedTo(Main)' = 0 /\ GoingBy(Main)' = 0 /\ ReadBy(Main)' = 0
  BY <1>10 DEF HandedTo, GoingBy, ReadBy, At
<1>14. Main \in Loaders BY <1>1, <1>6 DEF Loaders, At
<1>15. Calm(Main) BY <1>5, <1>6, <1>9, <1>11, <1>12, <1>13, <1>14 DEF Calm
<1> QED BY <1>1, <1>5, <1>15, CalmStep

MainStarts == ServeStarts \/ RunStarts \/ QuickstartStarts \/ OthersStart
LEMMA MainStartsStep ==
  ASSUME ServingInv, MainStarts
  PROVE  ServingInv'
<1>1. main \in MainRecords /\ MainOK /\ main.at = "start" /\ UNCHANGED <<models, got, notes>> /\ Main \in Calls
  BY CallsFinite DEF ServingInv, MainOK, MainStarts, ServeStarts, RunStarts, QuickstartStarts, OthersStart, Stands
<1>2. CASE LoadsFile /\ Goes("load") BY <1>1, <1>2, FileStep
<1>3. CASE (Goes("bind") \/ Goes("down")) /\ UNCHANGED <<inferenceVars, call>>
  <2>1. PICK p \in {"bind", "down"} : main' = [main EXCEPT !.at = p] BY <1>3 DEF Goes
  <2>2. main' \in MainRecords BY <2>1, <1>1, MainMoves
  <2>3. main'.at = p BY <2>1, <1>1 DEF MainRecords
  <2>4. MainOK' /\ Kept' = 0 BY <2>2, <2>3 DEF MainOK, Kept
  <2>5. SameTask /\ UNCHANGED <<tables, models, call>> BY <1>1, <1>3 DEF inferenceVars, SameTask
  <2> QED BY <2>4, <2>5, IdleStep
<1>4. CASE CloudLoads(Main) /\ GoWith(Main, "insert", counter + 1) /\ Goes("load")
  <2>1. main' = [main EXCEPT !.at = "load"] BY <1>4 DEF Goes
  <2>2. main' \in MainRecords BY <2>1, <1>1, MainMoves
  <2>3. main'.at = "load" BY <2>1, <1>1 DEF MainRecords
  <2>4. MainOK' /\ Kept' = Kept BY <1>1, <2>2, <2>3 DEF MainOK, Kept
  <2>5. call[Main].at \in {"new", "resolve"} BY <1>1 DEF MainOK, At
  <2> QED BY <1>1, <1>4, <2>4, <2>5, CloudStep
<1> QED BY <1>2, <1>3, <1>4 DEF MainStarts, ServeStarts, RunStarts, QuickstartStarts, OthersStart

LEMMA TurnStep ==
  ASSUME ServingInv, Turn
  PROVE  ServingInv'
<1>1. main \in MainRecords /\ MainOK /\ CallsOK /\ Main \in Calls /\ Over(Main) /\ main.at = "prompt"
      /\ SameTask /\ UNCHANGED <<tables, models>>
  BY CallsFinite DEF ServingInv, MainOK, Turn, Stands, SameTask, inferenceVars
<1>2. main' = [main EXCEPT !.at = "turn", !.turns = @ + 1] BY DEF Turn
<1>3. main' \in MainRecords BY <1>1, <1>2, MainMoves
<1>4. main'.at = "turn" /\ main'.handle = main.handle BY <1>1, <1>2 DEF MainRecords
<1>5. MainOK' /\ Kept' = Kept /\ main' # main BY <1>1, <1>3, <1>4 DEF MainOK, Kept
<1>6. PICK h \in Nat : h = main.handle BY <1>1 DEF MainRecords
<1>7. call \in [Calls -> CallRecords] /\ call[Main] \in CallRecords BY <1>1 DEF CallsOK
<1>8. PICK r : r = [call[Main] EXCEPT !.op = "turn", !.streamed = TRUE, !.at = "dispatch",
                                      !.handle = h, !.result = "none"]
  OBVIOUS
<1>9. r \in CallRecords /\ Becomes(r, call[Main].name, "dispatch", h, "none")
  BY <1>7, <1>8 DEF CallRecords, Becomes, Places, Ops
<1>10. call' = [call EXCEPT ![Main] = r] BY <1>6, <1>8 DEF Turn
<1>11. Moved(Main) /\ Becomes(call'[Main], call[Main].name, "dispatch", h, "none")
  BY <1>1, <1>7, <1>9, <1>10 DEF Moved
<1>12. Calm(Main) BY <1>1, <1>5, <1>11, MoveIsCalm DEF Over, At, Fresh, Early
<1> QED BY <1>1, <1>5, <1>12, CalmStep

LEMMA ClosesStep ==
  ASSUME ServingInv, Closes
  PROVE  ServingInv'
<1>1. main \in MainRecords /\ Main \in Calls /\ main.at = "closing" /\ At(Main, "remove") /\ End(Main, "none")
      /\ SameTask /\ UNCHANGED <<tables, models>>
  BY CallsFinite DEF ServingInv, MainOK, Closes, Stands, SameTask, inferenceVars
<1>2. main' = [main EXCEPT !.at = "down"] BY DEF Closes, Goes
<1>3. main' \in MainRecords BY <1>1, <1>2, MainMoves
<1>4. main'.at = "down" BY <1>1, <1>2 DEF MainRecords
<1>5. MainOK' /\ Kept' = 0 BY <1>3, <1>4 DEF MainOK, Kept
<1>6. Calm(Main) BY <1>1, EndIsCalm DEF At
<1> QED BY <1>1, <1>5, <1>6, CalmStep

\* The program gives back the model of its chat.
LEMMA GivesBackStep ==
  ASSUME ServingInv, main.at = "prompt", GoWith(Main, "unload", main.handle), Goes("closing"),
         UNCHANGED <<inferenceVars, models, got, notes>>
  PROVE  ServingInv'
<1>1. main \in MainRecords /\ MainOK /\ CallsOK /\ Main \in Calls /\ Over(Main) /\ StageOK(Main)
      /\ SameTask /\ UNCHANGED <<tables, models>>
  BY CallsFinite DEF ServingInv, MainOK, SameTask, inferenceVars
<1>2. main' = [main EXCEPT !.at = "closing"] BY DEF Goes
<1>3. main' \in MainRecords BY <1>1, <1>2, MainMoves
<1>4. main'.at = "closing" BY <1>1, <1>2 DEF MainRecords
<1>5. MainOK' /\ Kept' = 0 BY <1>1, <1>3, <1>4 DEF MainOK, Kept
<1>6. PICK k \in Nat : k = main.handle BY <1>1 DEF MainRecords
<1>7. Kept = k BY <1>6 DEF Kept
<1>8. Moved(Main) /\ Becomes(call'[Main], call[Main].name, "unload", k, call[Main].result)
  BY <1>1, <1>6, GoWithMoves DEF Places
<1>9. Only(Main) BY <1>1, <1>8, CallOnly
<1>10. call'[Main].at = "unload" /\ call'[Main].handle = k /\ job'[Main] = job[Main] /\ held'[Main] = held[Main]
       /\ notes'[Main] = notes[Main] /\ got'[Main] = got[Main]
  BY <1>1, <1>8 DEF Becomes, SameTask, jobs
<1>11. StageOK(Main)' BY <1>1, <1>10 DEF StageOK, At, Over
<1>12. StreamOK(Main)' BY <1>10 DEF StreamOK, At
<1>13. HandedTo(Main) = 0 /\ HandedTo(Main)' = 0 /\ ReadBy(Main)' = ReadBy(Main) /\ GoingBy(Main)' = k
  BY <1>1, <1>10 DEF HandedTo, GoingBy, ReadBy, At, Over
<1>14. /\ Handing' = Handing /\ Reading' = Reading /\ Going' = [Going EXCEPT ![Main] = Kept]
       /\ Views(models, Handing, Reading, Going, Kept)
  BY <1>1, <1>7, <1>9, <1>13, ViewsMove DEF Views
<1>15. /\ Holders(models, Handing, Reading, [Going EXCEPT ![Main] = Kept], 0)
       /\ UpTo(models, Handing, Reading, [Going EXCEPT ![Main] = Kept], 0, counter)
  BY <1>1, <1>14, HolderGoes DEF ServingInv, HoldersOK, MadeOK, TablesOK
<1>16. HoldersOK' /\ MadeOK' /\ TablesOK'
  BY <1>1, <1>5, <1>14, <1>15 DEF HoldersOK, MadeOK, ServingInv, TablesOK, tables
<1>17. InService'
  <2>1. \A x : Served(x)' <=> Served(x) BY <1>1 DEF Served, tables
  <2>2. \A d \in Calls : HandedTo(d)' = HandedTo(d) /\ ReadBy(d)' = ReadBy(d)
    BY <1>1, <1>9, <1>13, OthersStay
  <2>3. UNCHANGED <<job, held, loaded, models>> BY <1>1 DEF SameTask, jobs, tables
  <2> QED BY <2>1, <2>2, <2>3 DEF InService, ServingInv
<1>18. Room'
  <2>1. Main \in Loaders' => Main \in Loaders BY <1>10 DEF Loaders
  <2> QED BY <1>1, <1>9, <2>1, SameLoaders DEF tables
<1> QED BY <1>1, <1>5, <1>9, <1>11, <1>12, <1>16, <1>17, <1>18, StepKeeps

LEMMA QuitsStep ==
  ASSUME ServingInv, Quits \/ BenchmarkEnds
  PROVE  ServingInv'
<1>1. main.at = "prompt" /\ UNCHANGED <<inferenceVars, models, got, notes>>
  BY DEF Quits, BenchmarkEnds, Stands
<1>2. CASE GoWith(Main, "unload", main.handle) /\ Goes("closing") BY <1>1, <1>2, GivesBackStep
<1>3. CASE Goes("down") /\ UNCHANGED call
  <2>0. main \in MainRecords BY DEF ServingInv, MainOK
  <2>1. main' = [main EXCEPT !.at = "down"] BY <1>3 DEF Goes
  <2>2. main' \in MainRecords BY <2>0, <2>1, MainMoves
  <2>3. main'.at = "down" BY <2>0, <2>1 DEF MainRecords
  <2>4. MainOK' /\ Kept' = 0 BY <2>2, <2>3 DEF MainOK, Kept
  <2>5. SameTask /\ UNCHANGED <<tables, models, call>> BY <1>1, <1>3 DEF inferenceVars, SameTask
  <2> QED BY <2>4, <2>5, IdleStep
<1> QED BY <1>2, <1>3 DEF Quits, BenchmarkEnds

\* The handle of the program's own load goes into the map, or the program keeps it.
LEMMA LoadedStep ==
  ASSUME ServingInv, Loaded
  PROVE  ServingInv'
<1>1. /\ CallsOK /\ StageOK(Main) /\ StreamOK(Main) /\ TablesOK /\ InService /\ HoldersOK /\ MadeOK
      /\ main \in MainRecords /\ MainOK /\ Main \in Calls
  BY CallsFinite DEF ServingInv, MainOK
<1>2. At(Main, "insert") /\ main.at = "load" /\ End(Main, "none") /\ SameTask /\ UNCHANGED <<tables>>
  BY DEF Loaded, Stands, inferenceVars, SameTask
<1>3. PICK k \in Nat : k = call[Main].handle BY <1>1 DEF CallsOK, CallRecords
<1>4. PICK m : m = main.name OBVIOUS
<1>5. \/ models' = [models EXCEPT ![m] = k] /\ main' = [main EXCEPT !.at = "bind"]
      \/ models' = models /\ main' = [main EXCEPT !.at = "prompt", !.handle = k]
  BY <1>3, <1>4 DEF Loaded
<1>6. Moved(Main) /\ Becomes(call'[Main], call[Main].name, "over", 0, "none")
  BY <1>1, <1>2, EndMoves
<1>7. Only(Main) BY <1>1, <1>2, <1>6, CallOnly
<1>8. call'[Main].at = "over" /\ job'[Main] = job[Main] /\ held'[Main] = held[Main]
      /\ notes'[Main] = notes[Main] /\ got'[Main] = got[Main]
  BY <1>2, <1>6 DEF Becomes, SameTask, jobs
<1>9. StageOK(Main)' BY <1>1, <1>2, <1>8 DEF StageOK, At
<1>10. StreamOK(Main)' BY <1>8 DEF StreamOK, At
<1>11. HandedTo(Main) = k /\ HandedTo(Main)' = 0 /\ ReadBy(Main)' = ReadBy(Main)
       /\ GoingBy(Main)' = 0 /\ GoingBy(Main) = 0
  BY <1>2, <1>3, <1>8 DEF HandedTo, GoingBy, ReadBy, At
<1>12. /\ Going' = Going /\ Reading' = Reading /\ Handing' = [Handing EXCEPT ![Main] = 0]
       /\ Handing[Main] = k /\ Views(models, Handing, Reading, Going, Kept)
  <2>1. GoingBy(Main)' = Going[Main] /\ ReadBy(Main)' = Reading[Main] /\ Handing[Main] = k
    BY <1>1, <1>7, <1>11, ViewsMove
  <2> QED BY <1>1, <1>7, <1>11, <2>1, ViewsMove DEF Views
<1>13. Kept = 0 BY <1>2 DEF Kept
<1>14. main' \in MainRecords BY <1>1, <1>5, MainMoves
<1>15. /\ main'.at \in {"bind", "prompt"}
       /\ main'.at = "bind" => models' = [models EXCEPT ![m] = k]
       /\ main'.at = "prompt" => models' = models /\ main'.handle = k
  BY <1>1, <1>5 DEF MainRecords
<1>16. MainOK' BY <1>8, <1>14, <1>15 DEF MainOK, Over, At
<1>17. HoldersOK' /\ MadeOK' /\ TablesOK'
  <2>1. CASE main'.at = "bind"
    <3>1. Kept' = Kept BY <1>13, <2>1 DEF Kept
    <3>2. models' = [models EXCEPT ![m] = Handing[Main]] BY <1>12, <1>15, <2>1
    <3>3. /\ Holders([models EXCEPT ![m] = Handing[Main]], [Handing EXCEPT ![Main] = 0], Reading, Going, Kept)
          /\ UpTo([models EXCEPT ![m] = Handing[Main]], [Handing EXCEPT ![Main] = 0], Reading, Going, Kept, counter)
          /\ [models EXCEPT ![m] = Handing[Main]] \in [Names -> Nat]
      BY <1>1, <1>12, HolderInserts DEF HoldersOK, MadeOK, TablesOK
    <3> QED BY <1>1, <1>2, <1>12, <3>1, <3>2, <3>3 DEF HoldersOK, MadeOK, TablesOK, tables
  <2>2. CASE main'.at = "prompt"
    <3>1. Kept' = Handing[Main] /\ models' = models BY <1>12, <1>15, <2>2 DEF Kept
    <3>2. /\ Holders(models, [Handing EXCEPT ![Main] = 0], Reading, Going, Handing[Main])
          /\ UpTo(models, [Handing EXCEPT ![Main] = 0], Reading, Going, Handing[Main], counter)
      BY <1>1, <1>12, HolderKeeps DEF HoldersOK, MadeOK, TablesOK
    <3> QED BY <1>1, <1>2, <1>12, <3>1, <3>2 DEF HoldersOK, MadeOK, TablesOK, tables
  <2> QED BY <1>15, <2>1, <2>2
<1>18. InService'
  <2>1. \A x : Served(x)' <=> Served(x) BY <1>2 DEF Served, tables
  <2>2. \A n \in Names : models'[n] \in {models[n], k} BY <1>1, <1>5 DEF TablesOK
  <2>3. k # 0 => Served(k) BY <1>1, <1>11 DEF InService
  <2>4. \A d \in Calls : HandedTo(d)' \in {0, HandedTo(d)} /\ ReadBy(d)' = ReadBy(d)
    BY <1>1, <1>7, <1>11, OthersStay
  <2>5. UNCHANGED <<job, held, loaded>> BY <1>2 DEF jobs, tables, SameTask
  <2> QED BY <1>1, <2>1, <2>2, <2>3, <2>4, <2>5 DEF InService
<1>19. Room'
  <2>1. Main \in Loaders' => Main \in Loaders BY <1>8 DEF Loaders
  <2> QED BY <1>1, <1>2, <1>7, <2>1, SameLoaders DEF tables
<1> QED BY <1>1, <1>7, <1>9, <1>10, <1>16, <1>17, <1>18, <1>19, StepKeeps

LEMMA ServingInvInit ==
  ASSUME CommandsInit
  PROVE  ServingInv
<1>1. /\ ServingInit /\ InferenceInit
      /\ main \in MainRecords /\ main.at = "start"
  <2>1. PICK s \in DOMAIN Asks :
          main = [program |-> s[1], name |-> s[2], at |-> "start", handle |-> 0, tried |-> 0, turns |-> 0]
    BY DEF CommandsInit
  <2>2. s[1] \in {"serve", "api", "run", "quickstart", "fallback", "benchmark"} /\ s[2] \in Names \cup {NoName}
    BY <2>1, CommandsAssumption
  <2> QED BY <2>1, <2>2 DEF MainRecords, CommandsInit, ServingInit
<1>2. None \in CallRecords /\ None.at = "new" /\ None.result = "none"
  BY DEF None, CallRecords, Ops, Places, Engines
<1>3. \A c \in Calls : call[c] = None /\ job[c] = "none" /\ notes[c] = 0 /\ got[c] = 0
  BY <1>1 DEF ServingInit, InferenceInit
<1>4. TablesOK BY <1>1 DEF TablesOK, ServingInit, InferenceInit
<1>5. CallsOK
  <2>1. << >> \in Seq(Items) OBVIOUS
  <2> QED BY <1>1, <1>2, <2>1 DEF CallsOK, ServingInit, InferenceInit, Jobs
<1>6. MainOK BY <1>1, <1>2, <1>3, CallsFinite DEF MainOK, At
<1>7. \A c \in Calls : StageOK(c) /\ StreamOK(c) BY <1>2, <1>3 DEF StageOK, StreamOK, At
<1>8. \A c \in Calls : HandedTo(c) = 0 /\ ReadBy(c) = 0 /\ GoingBy(c) = 0
  BY <1>2, <1>3 DEF HandedTo, ReadBy, GoingBy, At
<1>9. models = [n \in Names |-> 0] /\ Kept = 0 /\ counter = 0
  BY <1>1 DEF ServingInit, InferenceInit, Kept
<1>10. Handing = [c \in Calls |-> 0] /\ Reading = [c \in Calls |-> 0] /\ Going = [c \in Calls |-> 0]
  BY <1>8 DEF Handing, Reading, Going
<1>11. HoldersOK BY <1>9, <1>10 DEF HoldersOK, Holders, Single, Apart, Without0
<1>12. MadeOK BY <1>9, <1>10 DEF MadeOK, UpTo
<1>13. InService BY <1>8, <1>9 DEF InService
<1>14. Room
  <2>1. Cardinality(Loaders) <= Cardinality(Calls) /\ Cardinality(Loaders) \in Nat
    BY CallsFinite, FS_Subset, FS_CardinalityType DEF Loaders
  <2> QED BY <1>9, <2>1, CallsFinite DEF Room
<1> QED BY <1>4, <1>5, <1>6, <1>7, <1>11, <1>12, <1>13, <1>14 DEF ServingInv

\* The steps that every call makes, the program's own among them.
SharedStep(c) ==
  \/ LoadFallsBack(c) \/ LoadTracks(c) \/ Dispatch(c) \/ Begin(c) \/ Chunk(c) \/ LastChunk(c)
  \/ Unload(c) \/ UnloadEngine(c) \/ UnloadEnds(c)
LEMMA SharedSteps ==
  ASSUME ServingInv, NEW c \in Calls, SharedStep(c), UNCHANGED main
  PROVE  ServingInv'
<1>1. CASE LoadFallsBack(c) BY <1>1, FallsBackStep
<1>2. CASE LoadTracks(c) BY <1>2, TracksStep
<1>3. CASE Dispatch(c)
  <2>1. ~Look(c) BY <1>3 DEF Dispatch, Look, At
  <2>2. Calm(c) BY <1>3, <2>1, LookCalm
  <2> QED BY <2>2, CalmStep
<1>4. CASE Begin(c)
  <2>1. Calm(c) BY <1>4, BeginCalm
  <2> QED BY <2>1, CalmStep
<1>5. CASE Chunk(c)
  <2>1. Calm(c) BY <1>5, ChunkCalm
  <2> QED BY <2>1, CalmStep
<1>6. CASE LastChunk(c)
  <2>1. Calm(c) BY <1>6, LastChunkCalm
  <2> QED BY <2>1, CalmStep
<1>7. CASE Unload(c)
  <2>1. Calm(c) BY <1>7, UnloadCalm
  <2> QED BY <2>1, CalmStep
<1>8. CASE UnloadEngine(c) \/ UnloadEnds(c) BY <1>8, GoingStep
<1> QED BY <1>1, <1>2, <1>3, <1>4, <1>5, <1>6, <1>7, <1>8 DEF SharedStep

\* The steps that only a request's handler makes.
LEMMA RequestSteps ==
  ASSUME ServingInv, NEW c \in Calls, RequestStep(c)
  PROVE  ServingInv'
<1>1. c # Main /\ HandlerStep(c) /\ UNCHANGED main BY DEF RequestStep
<1>2. CASE SharedStep(c) BY <1>1, <1>2, SharedSteps
<1>3. CASE Look(c)
  <2>1. Calm(c) BY <1>1, <1>3, LookCalm
  <2> QED BY <1>1, <2>1, CalmStep
<1>4. CASE ResolveCloud(c) BY <1>1, <1>4, ResolveCloudStep
<1>5. CASE Resolve(c)
  <2>1. Calm(c) BY <1>1, <1>5, ResolveCalm
  <2> QED BY <1>1, <2>1, CalmStep
<1>6. CASE InsertModel(c) BY <1>1, <1>6, InsertStep
<1>7. CASE Collect(c)
  <2>1. Calm(c) BY <1>1, <1>7, CollectCalm
  <2> QED BY <1>1, <2>1, CalmStep
<1>8. CASE PullLine(c) \/ LastLine(c)
  <2>1. Calm(c) BY <1>1, <1>8, FollowCalm
  <2> QED BY <1>1, <2>1, CalmStep
<1>9. CASE PullInstalls(c) \/ TagsEnd(c) \/ Remove(c)
  <2>1. Calm(c) BY <1>1, <1>9, EndsCalm
  <2> QED BY <1>1, <2>1, CalmStep
<1>10. CASE TakeOut(c) BY <1>1, <1>10, TakeOutStep
<1> QED BY <1>1, <1>2, <1>3, <1>4, <1>5, <1>6, <1>7, <1>8, <1>9, <1>10 DEF HandlerStep, SharedStep

LEMMA ClientSteps ==
  ASSUME ServingInv, NEW c \in Calls, Client(c)
  PROVE  ServingInv'
<1>1. c # Main /\ (Ask(c) \/ ClientLeaves(c)) /\ UNCHANGED main BY DEF Client
<1>2. CASE AsksStep(c)
  <2>1. Calm(c) BY <1>1, <1>2, AsksCalm
  <2> QED BY <1>1, <2>1, CalmStep
<1>3. CASE Pull(c)
  <2>1. Calm(c) BY <1>1, <1>3, PullCalm
  <2> QED BY <1>1, <2>1, CalmStep
<1>4. CASE ClientLeaves(c)
  <2>1. Calm(c) BY <1>1, <1>4, LeavesCalm
  <2> QED BY <1>1, <2>1, CalmStep
<1>5. CASE OllamaChat(c) \/ OllamaGenerate(c)
  <2>1. Chat(c) BY <1>5 DEF OllamaChat, OllamaGenerate, Chat
  <2>2. Calm(c) BY <1>1, <2>1, AsksCalm DEF AsksStep
  <2> QED BY <1>1, <2>2, CalmStep
<1>6. CASE OllamaPs(c) BY <1>1, <1>2, <1>6 DEF OllamaPs, AsksStep
<1> QED BY <1>1, <1>2, <1>3, <1>4, <1>5, <1>6 DEF Ask, AsksStep

LEMMA TaskSteps ==
  ASSUME ServingInv, NEW c \in Calls, Task(c)
  PROVE  ServingInv'
<1>1. TaskStep(c) /\ UNCHANGED main BY DEF Task
<1>2. CASE LoadEnds(c) /\ UNCHANGED callVars BY <1>1, <1>2, LoadEndsStep
<1>3. CASE LoadRefused(c) /\ UNCHANGED callVars
  <2>1. Calm(c) BY <1>3, LoadRefusedCalm
  <2> QED BY <1>1, <2>1, CalmStep
<1>4. CASE Generate(c) /\ UNCHANGED callVars
  <2>1. Calm(c) BY <1>4, GenerateCalm
  <2> QED BY <1>1, <2>1, CalmStep
<1>5. CASE (GenerationEnds(c) \/ GenerationFails(c)) /\ UNCHANGED callVars
  <2>1. Calm(c) BY <1>5, GenerationStopsCalm
  <2> QED BY <1>1, <2>1, CalmStep
<1>6. CASE PullNotes(c) \/ PullProgress(c) \/ PullEnds(c)
  <2>1. Calm(c) BY <1>6, PullTaskCalm
  <2> QED BY <1>1, <2>1, CalmStep
<1> QED BY <1>1, <1>2, <1>3, <1>4, <1>5, <1>6 DEF TaskStep, JobStep

LEMMA MainSteps ==
  ASSUME ServingInv, MainStep \/ TurnBegins \/ Quits
  PROVE  ServingInv'
<1>1. CASE SharedStep(Main) /\ UNCHANGED main BY <1>1, CallsFinite, SharedSteps
<1>2. CASE MainStarts BY <1>2, MainStartsStep
<1>3. CASE Loaded BY <1>3, LoadedStep
<1>4. CASE MainAlone BY <1>4, MainAloneStep
<1>5. CASE Turn BY <1>5, TurnStep
<1>6. CASE Quits \/ BenchmarkEnds BY <1>6, QuitsStep
<1>7. CASE Closes BY <1>7, ClosesStep
<1> QED BY <1>1, <1>2, <1>3, <1>4, <1>5, <1>6, <1>7
        DEF MainStep, SharedStep, MainStarts, MainAlone, TurnBegins, Iterates

LEMMA ServingInvNext ==
  ASSUME ServingInv, [CommandsNext]_<<servingVars, main>>
  PROVE  ServingInv'
<1>1. CASE UNCHANGED <<servingVars, main>>
  <2>1. SameTask /\ UNCHANGED <<tables, models, call, main>>
    BY <1>1 DEF servingVars, callVars, inferenceVars, SameTask
  <2> QED BY <2>1, IdleStep
<1>2. CASE MainStep \/ TurnBegins \/ Quits BY <1>2, MainSteps
<1>3. ASSUME NEW c \in Calls, RequestStep(c) \/ Client(c) \/ Task(c)
      PROVE  ServingInv'
  BY <1>3, RequestSteps, ClientSteps, TaskSteps
<1>4. CASE PeersChange /\ UNCHANGED <<callVars, server, main>>
  <2>1. SameTask /\ UNCHANGED <<tables, models, call, main>> BY <1>4 DEF PeersChange, callVars, SameTask
  <2> QED BY <2>1, IdleStep
<1> QED BY <1>1, <1>2, <1>3, <1>4 DEF CommandsNext

LEMMA ServingInvHolds == CommandsSpec => []ServingInv
<1>1. CommandsInit => ServingInv BY ServingInvInit
<1>2. ServingInv /\ [CommandsNext]_<<servingVars, main>> => ServingInv' BY ServingInvNext
<1> QED BY <1>1, <1>2, PTL DEF CommandsSpec

\* resolve_model, ollama_delete, Orchestrator::unload: at any time, for any requests
\* and any bounds, a name that is in the server's map is of a model that the
\* orchestrator can dispatch to and that its engine holds, and no two names share one.
THEOREM ServingListsServed == CommandsSpec => []ListedIsServed
<1>1. ASSUME ServingInv PROVE ListedIsServed
  <2>1. TablesOK /\ Single(models) /\ \A n \in Names : models[n] # 0 => Served(models[n])
    BY <1>1 DEF ServingInv, HoldersOK, Holders, InService
  <2>2. \A n, m \in Names : models[n] # 0 /\ models[n] = models[m] => n = m
    BY <2>1 DEF Single, TablesOK
  <2> QED BY <2>1, <2>2 DEF ListedIsServed, Listed, Served
<1> QED BY <1>1, ServingInvHolds, PTL

\* A step of one call is a step of no other.
LEMMA OneCall ==
  ASSUME CallsOK, NEW d \in Calls, NEW c \in Calls, c # d,
         HandlerStep(d) \/ Ask(d) \/ ClientLeaves(d)
  PROVE  call'[c] = call[c]
<1>0. call \in [Calls -> CallRecords] BY DEF CallsOK
<1>1. \A p : Go(d, p) => call'[c] = call[c] BY <1>0 DEF Go
<1>2. \A p, h : GoWith(d, p, h) => call'[c] = call[c] BY <1>0 DEF GoWith
<1>3. \A how : End(d, how) => call'[c] = call[c] BY <1>0 DEF End
<1>4. \A op, n, s, p : Asked(d, op, n, s, p) => call'[c] = call[c] BY <1>0 DEF Asked
<1>5. CASE Look(d) \/ ResolveCloud(d) \/ Resolve(d) \/ LoadFallsBack(d) \/ LoadTracks(d) \/ InsertModel(d)
  BY <1>1, <1>2, <1>3, <1>5 DEF Look, ResolveCloud, Resolve, LoadFallsBack, LoadTracks, InsertModel
<1>6. CASE Dispatch(d) BY <1>0, <1>3, <1>6 DEF Dispatch
<1>7. CASE Unload(d) BY <1>0, <1>1, <1>7 DEF Unload
<1>8. CASE Begin(d) \/ Collect(d) \/ LastChunk(d) \/ PullInstalls(d) \/ LastLine(d) \/ TagsEnd(d)
  BY <1>1, <1>3, <1>8 DEF Begin, Collect, LastChunk, PullInstalls, LastLine, TagsEnd
<1>9. CASE Chunk(d) BY <1>0, <1>9 DEF Chunk
<1>10. CASE PullLine(d) BY <1>0, <1>10 DEF PullLine
<1>11. CASE TakeOut(d) \/ UnloadEngine(d) \/ UnloadEnds(d) \/ Remove(d) \/ ClientLeaves(d)
  BY <1>1, <1>2, <1>3, <1>11 DEF TakeOut, UnloadEngine, UnloadEnds, Remove, ClientLeaves
<1>12. CASE Ask(d)
  <2>1. CASE Refused(d) \/ ListModels(d) \/ OllamaPs(d) \/ OllamaShow(d)
    BY <1>3, <2>1 DEF Refused, ListModels, OllamaPs, OllamaShow
  <2>2. CASE Chat(d) \/ OllamaChat(d) \/ OllamaGenerate(d) \/ Delete(d) \/ OllamaTags(d)
    BY <1>4, <2>2 DEF Chat, OllamaChat, OllamaGenerate, Delete, OllamaTags
  <2>3. CASE Pull(d)
    <3>1. PICK n \in Names, s \in BOOLEAN, p \in {"follow", "pull"}, how \in {"ok", "error"} :
            End(d, how) \/ Asked(d, "pull", n, s, p)
      BY <2>3 DEF Pull
    <3> QED BY <3>1, <1>3, <1>4
  <2>4. CASE ChatAny(d) BY <1>0, <1>3, <2>4 DEF ChatAny
  <2> QED BY <1>12, <2>1, <2>2, <2>3, <2>4 DEF Ask
<1> QED BY <1>5, <1>6, <1>7, <1>8, <1>9, <1>10, <1>11, <1>12 DEF HandlerStep

\* While its answer is streamed, a call takes what is in the channel, or leaves.
LEMMA StreamSteps ==
  ASSUME NEW c \in Calls, At(c, "stream"), HandlerStep(c) \/ Ask(c) \/ ClientLeaves(c)
  PROVE  Chunk(c) \/ LastChunk(c) \/ ClientLeaves(c)
<1>1. call[c].at = "stream" BY DEF At
<1>2. ~(Look(c) \/ ResolveCloud(c) \/ Resolve(c) \/ LoadFallsBack(c) \/ LoadTracks(c) \/ InsertModel(c))
  BY <1>1 DEF At, Look, ResolveCloud, Resolve, LoadFallsBack, LoadTracks, InsertModel
<1>3. ~(Dispatch(c) \/ Begin(c) \/ Collect(c) \/ PullInstalls(c) \/ PullLine(c) \/ LastLine(c) \/ TagsEnd(c))
  BY <1>1 DEF At, Dispatch, Begin, Collect, PullInstalls, PullLine, LastLine, TagsEnd
<1>4. ~(TakeOut(c) \/ Unload(c) \/ UnloadEngine(c) \/ UnloadEnds(c) \/ Remove(c))
  BY <1>1 DEF At, TakeOut, Unload, UnloadEngine, UnloadEnds, Remove
<1>5. ~Ask(c)
  <2>1. \A op, n, s : ~May(c, op, n, s) BY <1>1 DEF May, At
  <2>2. ~Refused(c) BY <1>1 DEF Refused, At
  <2> QED BY <2>1, <2>2 DEF Ask, Chat, ChatAny, OllamaChat, OllamaGenerate, Pull, Delete, ListModels,
                            OllamaPs, OllamaShow, OllamaTags
<1> QED BY <1>2, <1>3, <1>4, <1>5 DEF HandlerStep

\* Nothing but the last chunk ends an answer without an error, and then there is
\* nothing left to send.
LEMMA AnswerEnds ==
  ASSUME ServingInv, NEW c \in Calls, NEW d \in Calls, HandlerStep(d) \/ Ask(d) \/ ClientLeaves(d),
         At(c, "stream"), call'[c].at = "over", call'[c].result = "ok"
  PROVE  got[c] = made[c] /\ job[c] = "ended"
<1>1. CallsOK /\ StreamOK(c) BY DEF ServingInv
<1>2. call \in [Calls -> CallRecords] /\ call[c].at = "stream" BY <1>1 DEF CallsOK, At
<1>3. d = c BY <1>1, <1>2, OneCall
<1>4. Chunk(c) \/ LastChunk(c) \/ ClientLeaves(c) BY <1>3, StreamSteps
<1>5. ~Chunk(c)
  <2>1. SUFFICES ASSUME Chunk(c) PROVE FALSE OBVIOUS
  <2>2. call' = call \/ call' = [call EXCEPT ![c].result = "error"] BY <2>1 DEF Chunk
  <2>3. call[c] \in CallRecords BY <1>2
  <2>4. [call[c] EXCEPT !.result = "error"].at = call[c].at BY <2>3 DEF CallRecords
  <2>5. call'[c].at = call[c].at
    <3>1. CASE call' = call BY <3>1
    <3>2. CASE call' = [call EXCEPT ![c].result = "error"]
      <4>1. call'[c] = [call[c] EXCEPT !.result = "error"] BY <1>2, <3>2
      <4> QED BY <4>1, <2>4
    <3> QED BY <2>2, <3>1, <3>2
  <2> QED BY <2>5, <1>2
<1>6. ~ClientLeaves(c)
  <2>1. SUFFICES ASSUME ClientLeaves(c) PROVE FALSE OBVIOUS
  <2>2. End(c, "error") BY <2>1 DEF ClientLeaves
  <2>3. call'[c].result = "error" BY <1>1, <2>2, EndMoves DEF Becomes
  <2> QED BY <2>3
<1>7. chan[c] = << >> /\ job[c] \in {"ended", "failed"} /\ call[c].result = "none"
  <2>1. LastChunk(c) BY <1>4, <1>5, <1>6
  <2>2. chan[c] = << >> /\ job[c] \in {"ended", "failed"} BY <2>1 DEF LastChunk, EndSeen, Stopped
  <2>3. End(c, IF call[c].result = "none" THEN "ok" ELSE call[c].result) BY <2>1 DEF LastChunk
  <2>4. call'[c].result = IF call[c].result = "none" THEN "ok" ELSE call[c].result
    BY <1>2, <2>3 DEF End, None
  <2>5. call[c].result \in {"none", "error"} BY <1>1 DEF StreamOK
  <2> QED BY <2>2, <2>4, <2>5
<1>8. job[c] = "ended" /\ made[c] = got[c] + Len(chan[c]) BY <1>1, <1>7 DEF StreamOK
<1>9. Len(chan[c]) = 0 BY <1>7
<1>10. got[c] \in Nat /\ made[c] \in Nat BY <1>1 DEF CallsOK
<1> QED BY <1>8, <1>9, <1>10

\* The program's own steps that no other call makes end no answer.
LEMMA MainEndsNone ==
  ASSUME ServingInv, NEW c \in Calls, At(c, "stream"),
         MainStarts \/ Loaded \/ MainAlone \/ Turn \/ Quits \/ BenchmarkEnds \/ Closes
  PROVE  call'[c].at # "over"
<1>1. CallsOK /\ MainOK /\ Main \in Calls BY CallsFinite DEF ServingInv
<1>2. call \in [Calls -> CallRecords] /\ call[c].at = "stream" BY <1>1 DEF CallsOK, At
<1> SUFFICES ASSUME call' # call PROVE call'[c] = call[c] BY <1>2
<1>3. call[Main].at # "stream"
  <2>1. CASE MainStarts
    BY <2>1, <1>1 DEF MainStarts, ServeStarts, RunStarts, QuickstartStarts, OthersStart, Stands, MainOK, At
  <2>2. CASE Loaded \/ Closes BY <2>2 DEF Loaded, Closes, At
  <2>3. CASE MainAlone
    BY <2>3 DEF MainAlone, NotLoaded, Opens, Busy, GivesUp, TurnEnds, callVars
  <2>4. CASE Turn \/ Quits \/ BenchmarkEnds
    BY <2>4, <1>1 DEF Turn, Quits, BenchmarkEnds, Stands, MainOK, Over, At
  <2> QED BY <2>1, <2>2, <2>3, <2>4
<1>4. c # Main BY <1>2, <1>3
<1>5. \A op, n, s, p : Asked(Main, op, n, s, p) => call'[c] = call[c] BY <1>1, <1>2, <1>4 DEF Asked
<1>6. \A p, h : GoWith(Main, p, h) => call'[c] = call[c] BY <1>1, <1>2, <1>4 DEF GoWith
<1>7. \A how : End(Main, how) => call'[c] = call[c] BY <1>1, <1>2, <1>4 DEF End
<1>8. CASE MainStarts
  BY <1>5, <1>6, <1>8 DEF MainStarts, ServeStarts, RunStarts, QuickstartStarts, OthersStart, LoadsFile
<1>9. CASE Loaded \/ Closes BY <1>7, <1>9 DEF Loaded, Closes
<1>10. CASE MainAlone BY <1>10 DEF MainAlone, NotLoaded, Opens, Busy, GivesUp, TurnEnds, callVars
<1>11. CASE Turn BY <1>1, <1>2, <1>4, <1>11 DEF Turn
<1>12. CASE Quits \/ BenchmarkEnds BY <1>6, <1>12 DEF Quits, BenchmarkEnds
<1> QED BY <1>8, <1>9, <1>10, <1>11, <1>12

\* stream_response, cmd_run, Orchestrator::unload: for any requests and any bounds, an
\* answer whose last chunk says that it ended without an error has been sent every
\* token that was generated for it, by a task that came to its end.
THEOREM ServingAnswersWhole == CommandsSpec => AnswerIsWhole
<1> DEFINE Whole(c) == At(c, "stream") /\ call'[c].at = "over" /\ call'[c].result = "ok"
                         => got[c] = made[c] /\ job[c] = "ended"
<1>1. ASSUME ServingInv, [CommandsNext]_<<servingVars, main>>, NEW c \in Calls
      PROVE  Whole(c)
  <2> SUFFICES ASSUME At(c, "stream"), call'[c].at = "over", call'[c].result = "ok"
               PROVE  got[c] = made[c] /\ job[c] = "ended"
    OBVIOUS
  <2>1. call' # call BY DEF At
  <2>2. Main \in Calls BY CallsFinite
  <2>3. CASE \E d \in Calls : HandlerStep(d) \/ Ask(d) \/ ClientLeaves(d) BY <1>1, <2>3, AnswerEnds
  <2>4. CASE MainStarts \/ Loaded \/ MainAlone \/ Turn \/ Quits \/ BenchmarkEnds \/ Closes
    BY <1>1, <2>4, MainEndsNone
  <2>5. CASE \E d \in Calls : Task(d)
    BY <2>1, <2>5 DEF Task, TaskStep, callVars, PullNotes, PullProgress, PullEnds
  <2>6. CASE PeersChange /\ UNCHANGED <<callVars, server, main>> BY <2>1, <2>6 DEF callVars
  <2>7. CASE UNCHANGED <<servingVars, main>> BY <2>1, <2>7 DEF servingVars, callVars
  <2>8. CASE MainStep \/ TurnBegins \/ Quits
    <3>1. SharedStep(Main) => HandlerStep(Main) BY DEF SharedStep, HandlerStep
    <3> QED BY <2>2, <2>3, <2>4, <2>8, <3>1
            DEF MainStep, SharedStep, MainStarts, MainAlone, TurnBegins, Iterates
  <2>9. CASE \E d \in Calls : RequestStep(d) \/ Client(d) BY <2>3, <2>9 DEF RequestStep, Client
  <2> QED BY <1>1, <2>5, <2>6, <2>7, <2>8, <2>9 DEF CommandsNext
<1>2. ServingInv /\ [CommandsNext]_<<servingVars, main>>
        => [\A c \in Calls : Whole(c)]_<<servingVars, main>>
  BY <1>1
<1>3. (\A c \in Calls : Whole(c)) <=>
        \A c \in Calls : At(c, "stream") /\ call'[c].at = "over" /\ call'[c].result = "ok" =>
          got[c] = made[c] /\ job[c] = "ended"
  OBVIOUS
<1> QED BY <1>2, <1>3, ServingInvHolds, PTL DEF CommandsSpec, AnswerIsWhole
=============================================================================
