---------------------------- MODULE MeshSession ----------------------------
(***************************************************************************)
(* Full-model replication: the sessions that a node runs through           *)
(* PipelineInitiator::stream_tokens_replicated (pipeline/initiator.rs),    *)
(* and the MeshWorkerDaemon (pipeline/daemon.rs) of the nodes it uses.     *)
(*                                                                         *)
(* Every session of the node reads the same inbox, the one of its          *)
(* transport, and drops the messages it has no use for.  The transport     *)
(* keeps the order of the messages of a connection, and a broken           *)
(* connection goes unnoticed for a while: sends succeed and are lost.  The *)
(* caller of a session takes its tokens or drops the channel.              *)
(*                                                                         *)
(* A connection carries only the sends of the node that opened it: the     *)
(* acceptor keeps it in a copy of the connection map (transport/quic.rs),  *)
(* which send never reads.  A daemon answers if its node also dialled.     *)
(***************************************************************************)
EXTENDS Naturals, Sequences

CONSTANTS
  Sessions,   \* calls of stream_tokens_replicated
  Workers,    \* peers that run a daemon
  Dialled,    \* those that opened a connection to the node themselves
  Target,     \* session |-> the worker its plan names first
  MaxTokens   \* bound: session |-> tokens the model may produce for it

ASSUME MeshSessionAssumption ==
  /\ Dialled \subseteq Workers
  /\ Target \in [Sessions -> Workers]
  /\ MaxTokens \in [Sessions -> Nat]

VARIABLES
  reader,    \* session |-> where its receive loop stands
  result,    \* session |-> how it ended
  got,       \* session |-> numbers of the tokens handed to the caller
  dropped,   \* session |-> the caller has dropped the channel
  inbox,     \* messages the transport has for the node, in order
  wire,      \* worker |-> messages on their way to it, in order
  link,      \* worker |-> state of the connection
  work,      \* session |-> where the worker's task for it stands
  made,      \* session |-> tokens produced for it
  disturbed  \* session |-> something else read the inbox while it did

callVars   == <<reader, result, got, dropped, disturbed>>
workerVars == <<work, made>>
vars == <<callVars, inbox, wire, link, workerVars>>

Msg(k, r, n) == [kind |-> k, id |-> r, n |-> n]

Reading(r) == reader[r] = "reading"
Over(r) == reader[r] \in {"closing", "over"}

-----------------------------------------------------------------------------
(* Slips a change of the code could make, each the mutant of the definition  *)
(* it is named after                                                         *)

\* The session id of the plan is used instead of a fresh one.
MineShared(m, s) == TRUE

\* A handler error is logged and not reported to the initiator.
WorkerFailsSilently(s) ==
  /\ work[s] = "running"
  /\ work' = [work EXCEPT ![s] = "ended"]
  /\ UNCHANGED <<callVars, inbox, wire, link, made>>

-----------------------------------------------------------------------------
\* Nothing has been asked of a worker yet.
NoCalls ==
  /\ reader = [s \in Sessions |-> "new"]
  /\ result = [s \in Sessions |-> "none"]
  /\ got = [s \in Sessions |-> << >>]
  /\ dropped = [s \in Sessions |-> FALSE]
  /\ inbox = << >>
  /\ wire = [w \in Workers |-> << >>]
  /\ work = [s \in Sessions |-> "none"]
  /\ made = [s \in Sessions |-> 0]
  /\ disturbed = [s \in Sessions |-> FALSE]

-----------------------------------------------------------------------------
(* Sending: fails on a connection known to be closed, and is lost on one      *)
(* that is broken                                                             *)

ToWorkers(ws, m) ==
  wire' = [w \in Workers |-> IF w \in ws /\ link[w] = "up" THEN Append(wire[w], m) ELSE wire[w]]

\* The daemon of w finds a connection to send on.
CanAnswer(w) == w \in Dialled /\ link[w] # "down"

ToInitiator(w, m) ==
  inbox' = IF CanAnswer(w) /\ link[w] = "up" THEN Append(inbox, m) ELSE inbox

-----------------------------------------------------------------------------
(* The initiator *)

\* s starts reading: it and every session that reads disturb each other.
Disturb(s) ==
  disturbed' = [q \in Sessions |->
    disturbed[q] \/ (q # s /\ Reading(q)) \/ (q = s /\ \E r \in Sessions : Reading(r))]

\* stream_tokens_replicated: a request that cannot be sent ends the session.
Request(s) ==
  LET w == Target[s] IN
  /\ reader[s] = "new"
  /\ \/ /\ link[w] # "down"
        /\ ToWorkers({w}, Msg("request", s, 0))
        /\ reader' = [reader EXCEPT ![s] = "reading"]
        /\ Disturb(s)
        /\ UNCHANGED result
     \/ /\ link[w] = "down"
        /\ reader' = [reader EXCEPT ![s] = "over"]
        /\ result' = [result EXCEPT ![s] = "error"]
        /\ UNCHANGED <<wire, disturbed>>
  /\ UNCHANGED <<got, dropped, inbox, link, workerVars>>

\* The message names the session that reads it.
Mine(m, s) == m.id = s

Finish(s, how) ==
  /\ reader' = [reader EXCEPT ![s] = "closing"]
  /\ result' = [result EXCEPT ![s] = how]

\* A token of this session: handed to the caller, unless it has gone.
TakeToken(s, m) ==
  \/ /\ dropped[s]
     /\ Finish(s, "dropped")
     /\ UNCHANGED got
  \/ /\ ~dropped[s] /\ m.kind = "token"
     /\ got' = [got EXCEPT ![s] = Append(@, m.n)]
     /\ UNCHANGED <<reader, result>>
  \/ /\ ~dropped[s] /\ m.kind = "done"
     /\ Finish(s, "complete")
     /\ UNCHANGED got

\* One round of the receive loop of a session; what is not for it is dropped.
SessionReads(s) ==
  LET m == Head(inbox) IN
  /\ Reading(s) /\ inbox # << >>
  /\ inbox' = Tail(inbox)
  /\ \/ Mine(m, s) /\ m.kind \in {"token", "done"} /\ TakeToken(s, m)
     \/ /\ Mine(m, s) /\ m.kind \in {"complete", "failed"}
        /\ Finish(s, IF m.kind = "failed" THEN "error" ELSE "complete")
        /\ UNCHANGED got
     \/ ~Mine(m, s) /\ UNCHANGED <<reader, result, got>>
  /\ UNCHANGED <<dropped, disturbed, wire, link, workerVars>>

\* ReleaseSession, which leaves the daemon's task running; an error is ignored.
Release(s) ==
  /\ reader[s] = "closing"
  /\ ToWorkers({Target[s]}, Msg("release", s, 0))
  /\ reader' = [reader EXCEPT ![s] = "over"]
  /\ UNCHANGED <<result, got, dropped, disturbed, inbox, link, workerVars>>

\* The caller drops the channel; the session notices at its next token.
CallerLeaves(s) ==
  /\ Reading(s) /\ ~dropped[s]
  /\ dropped' = [dropped EXCEPT ![s] = TRUE]
  /\ UNCHANGED <<reader, result, got, disturbed, inbox, wire, link, workerVars>>

-----------------------------------------------------------------------------
(* The daemon: one task per request *)

DaemonReceives(w) ==
  LET m == Head(wire[w]) IN
  /\ wire[w] # << >>
  /\ wire' = [wire EXCEPT ![w] = Tail(@)]
  /\ \/ m.kind = "request" /\ work' = [work EXCEPT ![m.id] = "running"]
     \/ m.kind = "release" /\ UNCHANGED work
  /\ UNCHANGED <<callVars, inbox, link, made>>

NextToken(s) == made[s] + 1

\* A token that cannot be sent ends the task without another word.
WorkerToken(s) ==
  LET w == Target[s] IN
  /\ work[s] = "running" /\ made[s] < MaxTokens[s]
  /\ made' = [made EXCEPT ![s] = @ + 1]
  /\ ToInitiator(w, Msg("token", s, NextToken(s)))
  /\ work' = IF CanAnswer(w) THEN work ELSE [work EXCEPT ![s] = "ended"]
  /\ UNCHANGED <<callVars, wire, link>>

\* The handler's error, before or in the middle of the stream.
WorkerFails(s) ==
  /\ work[s] = "running"
  /\ ToInitiator(Target[s], Msg("failed", s, 0))
  /\ work' = [work EXCEPT ![s] = "ended"]
  /\ UNCHANGED <<callVars, wire, link, made>>

\* The stream is over: a last token that says so, then a summary.
WorkerDone(s) ==
  /\ work[s] = "running"
  /\ ToInitiator(Target[s], Msg("done", s, 0))
  /\ work' = [work EXCEPT ![s] = "summary"]
  /\ UNCHANGED <<callVars, wire, link, made>>

WorkerComplete(s) ==
  /\ work[s] = "summary"
  /\ ToInitiator(Target[s], Msg("complete", s, 0))
  /\ work' = [work EXCEPT ![s] = "ended"]
  /\ UNCHANGED <<callVars, wire, link, made>>

-----------------------------------------------------------------------------
(* The connection breaks, and later both ends know. *)

LinkBreaks(w) ==
  /\ link[w] # "down"
  /\ link' = [link EXCEPT ![w] = IF @ = "up" THEN "broken" ELSE "down"]
  /\ UNCHANGED <<callVars, inbox, wire, workerVars>>

-----------------------------------------------------------------------------
WorkerStep(s) ==
  WorkerToken(s) \/ WorkerFails(s) \/ WorkerDone(s) \/ WorkerComplete(s)

-----------------------------------------------------------------------------
\* What every session promises, however many of them share the inbox.
Stream == INSTANCE TokenStream WITH
  Streams <- Sessions,
  sent <- made,
  last <- [s \in Sessions |-> IF got[s] = << >> THEN 0 ELSE got[s][Len(got[s])]],
  over <- [s \in Sessions |-> Over(s)]
IsTokenStream == Stream!Spec

\* handle_request, stream_tokens_replicated: a session that had the inbox to
\* itself has handed over the tokens without a gap, and all of them when it ends
\* without an error.
UndisturbedIsWhole ==
  \A s \in Sessions : ~disturbed[s] =>
    /\ \A i \in 1..Len(got[s]) : got[s][i] = i
    /\ result[s] = "complete" => Len(got[s]) = made[s]

\* A session that has the inbox to itself, on connections that hold, ends --
\* also when the handler fails: its error is reported.
UndisturbedEnds ==
  \A s \in Sessions :
    Reading(s) /\ Target[s] \in Dialled
      ~> (Over(s) \/ disturbed[s] \/ link[Target[s]] # "up")

=============================================================================
