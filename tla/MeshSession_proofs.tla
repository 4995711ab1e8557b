------------------------- MODULE MeshSession_proofs -------------------------
(***************************************************************************)
(* Proofs about the replicated sessions and the commands that make them,   *)
(* for every set of sessions, workers and contributors: what reaches the   *)
(* caller is a stream of tokens in order (TokenStream), and the whole of   *)
(* it when the session had the inbox to itself.                            *)
(***************************************************************************)
EXTENDS MeshCommands, TLAPS

USE MeshSessionAssumption, MeshCommandsAssumption

Replies == [kind : {"token", "done", "complete", "failed"}, id : Sessions, n : Nat]
Orders == [kind : {"request", "release"}, id : Sessions, n : Nat]

TypeOK ==
  /\ reader \in [Sessions -> {"new", "reading", "closing", "over"}]
  /\ result \in [Sessions -> {"none", "error", "dropped", "complete"}]
  /\ got \in [Sessions -> Seq(Nat)]
  /\ dropped \in [Sessions -> BOOLEAN]
  /\ disturbed \in [Sessions -> BOOLEAN]
  /\ inbox \in Seq(Replies)
  /\ wire \in [Workers -> Seq(Orders)]
  /\ link \in [Workers -> {"up", "broken", "down"}]
  /\ work \in [Sessions -> {"none", "running", "summary", "ended"}]
  /\ made \in [Sessions -> Nat]
  /\ chosen \in Contributors \cup {Nobody}

\* The number of the last token the caller of s was handed.
Last(s) == IF got[s] = << >> THEN 0 ELSE got[s][Len(got[s])]

\* The i-th message is the n-th token of s.
Token(i, s, n) == inbox[i].kind = "token" /\ inbox[i].id = s /\ inbox[i].n = n

\* The i-th message ends the stream of s.
Final(i, s) == inbox[i].kind \in {"done", "complete"} /\ inbox[i].id = s

\* The worker has been asked, or could not be.
Asked(s) == IF s \in Turns THEN s \in asked ELSE reader[s] # "new"

\* A session is asked of one worker, once, ...
RequestsOnce ==
  \A w \in Workers : \A i \in 1..Len(wire[w]) : wire[w][i].kind = "request" =>
    LET s == wire[w][i].id IN
    /\ w = Target[s] /\ work[s] = "none" /\ Asked(s)
    /\ \A j \in 1..Len(wire[w]) : wire[w][j].kind = "request" /\ wire[w][j].id = s => i = j

\* ... and nothing is made for it, or sent to it, before.
Unheard(s) == \A i \in 1..Len(inbox) : inbox[i].id # s

IdleBefore ==
  /\ \A s \in Sessions : ~Asked(s) => work[s] = "none" /\ got[s] = << >> /\ result[s] = "none"
  /\ \A s \in Sessions : work[s] = "none" => made[s] = 0 /\ Unheard(s)

AskedOnce == RequestsOnce /\ IdleBefore

\* Tokens lie in the inbox in the order they were made, after those handed over.
InOrder ==
  /\ \A s \in Sessions : Last(s) <= made[s]
  /\ \A i \in 1..Len(inbox) : inbox[i].kind = "token" =>
       /\ Last(inbox[i].id) < inbox[i].n
       /\ inbox[i].n <= made[inbox[i].id]
  /\ \A i, j \in 1..Len(inbox) :
       i < j /\ inbox[i].kind = "token" /\ inbox[j].kind = "token" /\ inbox[i].id = inbox[j].id
         => inbox[i].n < inbox[j].n

\* After the end of a stream the worker makes no more tokens.
FinalIsLast ==
  \A i \in 1..Len(inbox) : \A s \in Sessions : Final(i, s) => work[s] \in {"summary", "ended"}

\* Two sessions that read the inbox have disturbed each other.
AloneIfUndisturbed ==
  \A s, r \in Sessions : Reading(s) /\ Reading(r) /\ s # r => disturbed[s]

\* What the caller of s has is the start of the stream, and what follows is in the inbox:
\* without a gap, with all of it before the end, and all of it while the link holds.
Handed(s) ==
  /\ \A i \in 1..Len(got[s]) : got[s][i] = i
  /\ result[s] = "complete" => Len(got[s]) = made[s] /\ work[s] \in {"summary", "ended"}

Coming(s) ==
  /\ \A i \in 1..Len(inbox) : \A n \in Nat :
       Token(i, s, n) /\ n > Len(got[s]) + 1 => \E j \in 1..Len(inbox) : j < i /\ Token(j, s, n - 1)
  /\ \A i \in 1..Len(inbox) : Final(i, s) =>
       \A n \in Len(got[s]) + 1 .. made[s] : \E j \in 1..Len(inbox) : j < i /\ Token(j, s, n)
  /\ Target[s] \in Dialled /\ link[Target[s]] = "up" =>
       \A n \in Len(got[s]) + 1 .. made[s] : \E j \in 1..Len(inbox) : Token(j, s, n)

Whole ==
  \A s \in Sessions : ~disturbed[s] => Handed(s) /\ (Reading(s) => Coming(s))

Inv ==
  /\ TypeOK
  /\ AskedOnce /\ InOrder /\ FinalIsLast
  /\ AloneIfUndisturbed /\ Whole

-----------------------------------------------------------------------------
(* Sequences.                                                              *)

LEMMA AppendedType ==
  ASSUME NEW S, NEW q \in Seq(S), NEW m \in S
  PROVE  /\ Append(q, m) \in Seq(S)
         /\ Len(Append(q, m)) = Len(q) + 1
         /\ \A i \in 1..Len(q) : Append(q, m)[i] = q[i]
         /\ Append(q, m)[Len(q) + 1] = m
  OBVIOUS

LEMMA TailType ==
  ASSUME NEW S, NEW q \in Seq(S), q # << >>
  PROVE  /\ Tail(q) \in Seq(S)
         /\ Len(Tail(q)) = Len(q) - 1
         /\ \A i \in 1..Len(Tail(q)) : i + 1 \in 1..Len(q) /\ Tail(q)[i] = q[i + 1]
         /\ Len(q) \in Nat \ {0}
         /\ Head(q) = q[1] /\ q[1] \in S
  OBVIOUS

LEMMA MsgType ==
  /\ \A k \in {"token", "done", "complete", "failed"}, s \in Sessions, n \in Nat :
       /\ Msg(k, s, n) \in Replies
       /\ Msg(k, s, n).kind = k /\ Msg(k, s, n).id = s /\ Msg(k, s, n).n = n
  /\ \A k \in {"request", "release"}, s \in Sessions :
       /\ Msg(k, s, 0) \in Orders
       /\ Msg(k, s, 0).kind = k /\ Msg(k, s, 0).id = s
  BY DEF Msg, Replies, Orders

\* What a step may do to the inbox: nothing, a reply of the worker of s, or a reading.
Same == inbox' = inbox

Sends(s, m) ==
  /\ inbox' = Append(inbox, m)
  /\ Target[s] \in Dialled /\ link[Target[s]] = "up"

LEMMA Replied ==
  ASSUME NEW s \in Sessions, NEW m, ToInitiator(Target[s], m)
  PROVE  Sends(s, m) \/ (Same /\ ~(Target[s] \in Dialled /\ link[Target[s]] = "up"))
  BY DEF ToInitiator, CanAnswer, Sends, Same

\* What a step may do to the wire: one message more for a worker, or not.
LEMMA Ordered ==
  ASSUME TypeOK, NEW w \in Workers, NEW m \in Orders, ToWorkers({w}, m)
  PROVE  /\ wire' \in [Workers -> Seq(Orders)]
         /\ \A v \in Workers \ {w} : wire'[v] = wire[v]
         /\ wire'[w] = wire[w] \/ wire'[w] = Append(wire[w], m)
<1>1. \A v \in Workers : wire[v] \in Seq(Orders)
  BY DEF TypeOK
<1>2. Append(wire[w], m) \in Seq(Orders)
  BY <1>1, AppendedType
<1>3. QED
  BY <1>1, <1>2 DEF ToWorkers

-----------------------------------------------------------------------------
\* The steps that leave the sessions, the daemons and the connections alone.
Quiet ==
  /\ UNCHANGED <<vars, asked>>
  /\ chosen' = chosen \/ chosen' \in Contributors

LEMMA QuietSteps ==
  /\ \A w \in Contributors :
       \/ Starts(w) \/ Registers(w) \/ Matchmakes(w) \/ Joins(w) \/ Loads(w) \/ Listens(w)
       \/ Leaves(w) \/ Deregisters(w) \/ Forgets(w) \/ StopsNode(w) \/ Interrupted(w) \/ Ticks(w)
       \/ Heartbeats(w) \/ Cancels(w) \/ NodePosts(w) \/ Given(w) \/ CoordinatorForgets(w)
       => Quiet
  /\ Finds \/ ConnectFails \/ Quits \/ CoordinatorReachable => Quiet
<1>1. ASSUME NEW w \in Contributors,
             Starts(w) \/ Registers(w) \/ Matchmakes(w) \/ Joins(w) \/ Loads(w) \/ Listens(w)
      PROVE  Quiet
  BY <1>1 DEF Starts, Registers, Matchmakes, Joins, Loads, Listens, Quiet, runVars
<1>2. ASSUME NEW w \in Contributors,
             Leaves(w) \/ Deregisters(w) \/ Forgets(w) \/ StopsNode(w) \/ Interrupted(w) \/ Ticks(w)
      PROVE  Quiet
  BY <1>2 DEF Leaves, Deregisters, Forgets, StopsNode, Interrupted, Ticks, Quiet, runVars
<1>3. ASSUME NEW w \in Contributors,
             Heartbeats(w) \/ Cancels(w) \/ NodePosts(w) \/ Given(w) \/ CoordinatorForgets(w)
      PROVE  Quiet
  BY <1>3 DEF Heartbeats, Cancels, NodePosts, Given, CoordinatorForgets, Quiet, runVars
<1>4. ASSUME Finds \/ ConnectFails \/ Quits \/ CoordinatorReachable
      PROVE  Quiet
  BY <1>4 DEF Finds, ConnectFails, Quits, CoordinatorReachable, Quiet, runVars, Listed, Serving
<1>5. QED
  BY <1>1, <1>2, <1>3, <1>4

LEMMA QuietInv ==
  ASSUME Inv, Quiet
  PROVE  Inv'
<1> USE DEF Quiet, vars, callVars, workerVars
<1>1. TypeOK'
  BY DEF Inv, TypeOK
<1>2. AskedOnce'
  BY DEF Inv, AskedOnce, RequestsOnce, IdleBefore, Unheard, Asked
<1>3. InOrder'
  BY DEF Inv, InOrder, Last
<1>4. FinalIsLast' /\ AloneIfUndisturbed'
  BY DEF Inv, FinalIsLast, Final, AloneIfUndisturbed, Reading
<1>5. Whole'
  BY DEF Inv, Whole, Handed, Coming, Reading, Token, Final
<1>6. QED
  BY <1>1, <1>2, <1>3, <1>4, <1>5 DEF Inv

-----------------------------------------------------------------------------
(* A request or a prompt.                                                  *)

\* A message more on the wire of w: a request must be the first of its session.
LEMMA WireKeepsOnce ==
  ASSUME TypeOK, RequestsOnce, NEW w \in Workers, NEW m \in Orders, ToWorkers({w}, m),
         m.kind = "request" => ~Asked(m.id) /\ w = Target[m.id] /\ work[m.id] = "none",
         UNCHANGED work,
         \A s \in Sessions : Asked(s)' <=> Asked(s) \/ (m.kind = "request" /\ s = m.id)
  PROVE  RequestsOnce'
<1>1. \A v \in Workers : wire[v] \in Seq(Orders) /\ (\A i \in 1..Len(wire[v]) : wire[v][i] \in Orders)
  BY DEF TypeOK
<1>2. ASSUME NEW v \in Workers, NEW i \in 1..Len(wire'[v])
      PROVE  \/ i \in 1..Len(wire[v]) /\ wire'[v][i] = wire[v][i]
             \/ v = w /\ i = Len(wire[w]) + 1 /\ wire'[v][i] = m
  <2>1. CASE wire'[v] = wire[v]
    BY <2>1
  <2>2. CASE v = w /\ wire'[w] = Append(wire[w], m)
    BY <1>1, <2>2, AppendedType
  <2>3. QED
    BY <2>1, <2>2, Ordered
<1> SUFFICES ASSUME NEW v \in Workers, NEW i \in 1..Len(wire'[v]), wire'[v][i].kind = "request",
                    NEW s, s = wire'[v][i].id
             PROVE  /\ v = Target[s] /\ work[s] = "none" /\ Asked(s)'
                    /\ \A j \in 1..Len(wire'[v]) : wire'[v][j].kind = "request" /\ wire'[v][j].id = s => i = j
  BY DEF RequestsOnce
<1>3. CASE i \in 1..Len(wire[v]) /\ wire'[v][i] = wire[v][i]
  <2>1. /\ v = Target[s] /\ work[s] = "none" /\ Asked(s)
        /\ \A j \in 1..Len(wire[v]) : wire[v][j].kind = "request" /\ wire[v][j].id = s => i = j
    BY <1>3 DEF RequestsOnce
  <2>2. s \in Sessions
    BY <1>1, <1>3 DEF Orders
  <2>3. QED
    BY <1>2, <2>1, <2>2
<1>4. CASE v = w /\ i = Len(wire[w]) + 1 /\ wire'[v][i] = m
  <2>1. s \in Sessions /\ v = Target[s] /\ work[s] = "none" /\ ~Asked(s) /\ Asked(s)'
    BY <1>4 DEF Orders
  <2>2. \A j \in 1..Len(wire[v]) : wire[v][j].kind = "request" => Asked(wire[v][j].id)
    BY DEF RequestsOnce
  <2>3. ASSUME NEW j \in 1..Len(wire'[v]), wire'[v][j].kind = "request", wire'[v][j].id = s
        PROVE  i = j
    <3>1. CASE j \in 1..Len(wire[v]) /\ wire'[v][j] = wire[v][j]
      BY <2>1, <2>2, <2>3, <3>1, Zenon
    <3>2. CASE v = w /\ j = Len(wire[w]) + 1 /\ wire'[v][j] = m
      BY <1>4, <3>2, Zenon
    <3>3. QED
      BY <1>2, <3>1, <3>2, Zenon
  <2>4. QED
    BY <2>1, <2>3, Zenon
<1>5. QED
  BY <1>2, <1>3, <1>4

LEMMA RequestInv ==
  ASSUME Inv, NEW s \in Calls, Call(s)
  PROVE  Inv'
<1> USE DEF Inv
<1>0. s \in Sessions /\ s \notin Turns /\ Target[s] \in Workers
  BY DEF Calls
<1>1. ~Asked(s)
  BY <1>0 DEF Call, Request, Asked
<1>2. UNCHANGED <<got, dropped, inbox, link, work, made, asked, chosen>>
  BY DEF Call, Request, workerVars, commandVars, runVars
<1>3. CASE link[Target[s]] # "down"
  <2>1. /\ ToWorkers({Target[s]}, Msg("request", s, 0))
        /\ reader' = [reader EXCEPT ![s] = "reading"]
        /\ Disturb(s) /\ UNCHANGED result
    BY <1>3 DEF Call, Request
  <2>2. \A q \in Sessions : disturbed'[q] <=>
            disturbed[q] \/ (q # s /\ Reading(q)) \/ (q = s /\ \E r \in Sessions : Reading(r))
    BY <2>1 DEF Disturb
  <2>3. disturbed' \in [Sessions -> BOOLEAN]
    BY <2>1 DEF Disturb, TypeOK
  <2>4. wire' \in [Workers -> Seq(Orders)]
    BY <1>0, <2>1, MsgType, Ordered
  <2>5. TypeOK'
    BY <1>2, <2>1, <2>3, <2>4 DEF TypeOK
  <2>6. AskedOnce'
    <3>1. \A r \in Sessions : Asked(r)' <=> Asked(r) \/ r = s
      BY <1>0, <1>2, <2>1 DEF Asked, TypeOK
    <3>2. RequestsOnce'
      <4>1. Msg("request", s, 0) \in Orders /\ Msg("request", s, 0).kind = "request" /\ Msg("request", s, 0).id = s
        BY <1>0, MsgType
      <4>2. work[s] = "none"
        BY <1>0, <1>1 DEF AskedOnce, IdleBefore
      <4>3. QED
        BY <1>0, <1>1, <1>2, <2>1, <3>1, <4>1, <4>2, WireKeepsOnce DEF AskedOnce
    <3>3. IdleBefore'
      BY <1>2, <2>1, <3>1 DEF AskedOnce, IdleBefore, Unheard
    <3>4. QED
      BY <3>2, <3>3 DEF AskedOnce
  <2>7. InOrder' /\ FinalIsLast'
    BY <1>2 DEF InOrder, Last, FinalIsLast, Final
  <2>8. \A r \in Sessions : Reading(r)' <=> Reading(r) \/ r = s
    BY <2>1 DEF Reading, TypeOK
  <2>9. AloneIfUndisturbed'
    BY <2>2, <2>8 DEF AloneIfUndisturbed
  <2>10. Whole'
    <3> SUFFICES ASSUME NEW r \in Sessions, ~disturbed'[r]
                 PROVE  Handed(r)' /\ (Reading(r)' => Coming(r)')
      BY DEF Whole
    <3>1. ~disturbed[r] /\ (r # s => ~Reading(r))
      BY <2>2
    <3>2. Handed(r)'
      BY <1>2, <2>1, <3>1 DEF Whole, Handed
    <3>3. CASE r = s
      <4>1. made[s] = 0 /\ got[s] = << >> /\ \A i \in 1..Len(inbox) : inbox[i].id # s
        BY <1>0, <1>1 DEF AskedOnce, IdleBefore, Unheard
      <4>2. Coming(s)'
        BY <1>2, <4>1 DEF Coming, Token, Final
      <4>3. QED
        BY <3>2, <3>3, <4>2
    <3>4. QED
      BY <2>8, <3>1, <3>2, <3>3
  <2>11. QED
    BY <2>5, <2>6, <2>7, <2>9, <2>10
<1>4. CASE link[Target[s]] = "down"
  <2>1. /\ UNCHANGED <<wire, disturbed>>
        /\ reader' = [reader EXCEPT ![s] = "over"]
        /\ result' = [result EXCEPT ![s] = "error"]
    BY <1>4 DEF Call, Request
  <2>2. TypeOK'
    BY <1>2, <2>1 DEF TypeOK
  <2>3. \A r \in Sessions : (Asked(r) => Asked(r)') /\ (~Asked(r)' => result'[r] = result[r])
    BY <1>0, <1>2, <2>1 DEF Asked, TypeOK
  <2>4. AskedOnce'
    <3>1. \A w \in Workers : \A i \in 1..Len(wire[w]) : wire[w][i] \in Orders
      BY DEF TypeOK
    <3>2. RequestsOnce'
      BY <1>2, <2>1, <2>3, <3>1 DEF AskedOnce, RequestsOnce, Orders
    <3>3. IdleBefore'
      BY <1>2, <2>1, <2>3 DEF AskedOnce, IdleBefore, Unheard
    <3>4. QED
      BY <3>2, <3>3 DEF AskedOnce
  <2>5. InOrder' /\ FinalIsLast'
    BY <1>2 DEF InOrder, Last, FinalIsLast, Final
  <2>6. \A r \in Sessions : (Reading(r)' => Reading(r)) /\ (result'[r] = "complete" => result[r] = "complete")
    BY <2>1 DEF Reading, TypeOK
  <2>7. AloneIfUndisturbed'
    BY <2>1, <2>6 DEF AloneIfUndisturbed
  <2>8. Whole'
    <3> SUFFICES ASSUME NEW r \in Sessions, ~disturbed[r]
                 PROVE  Handed(r)' /\ (Reading(r)' => Coming(r)')
      BY <2>1 DEF Whole
    <3>1. Handed(r) /\ (Reading(r) => Coming(r))
      BY DEF Whole
    <3>2. Handed(r)'
      BY <1>2, <2>6, <3>1 DEF Handed
    <3>3. Coming(r)' <=> Coming(r)
      BY <1>2 DEF Coming, Token, Final
    <3>4. QED
      BY <2>6, <3>1, <3>2, <3>3
  <2>9. QED
    BY <2>2, <2>4, <2>5, <2>7, <2>8
<1>5. QED
  BY <1>3, <1>4

LEMMA AsksInv ==
  ASSUME Inv, NEW t \in Turns, Asks(t)
  PROVE  Inv'
<1> USE DEF Inv
<1>0. t \in Sessions /\ Target[t] \in Workers /\ ~Asked(t) /\ Target[t] = chosen
  BY DEF Asks, Asked
<1>1. UNCHANGED <<reader, result, got, dropped, disturbed, inbox, link, work, made, chosen>>
  BY DEF Asks, callVars, workerVars
<1>2. asked' = asked \cup {t}
  BY DEF Asks
<1>3. InOrder' /\ FinalIsLast' /\ AloneIfUndisturbed' /\ Whole'
  BY <1>1 DEF InOrder, Last, FinalIsLast, Final, AloneIfUndisturbed, Reading, Whole, Handed, Coming, Token
<1>4. CASE ToWorkers({Target[t]}, Msg("request", t, 0))
  <2>1. wire' \in [Workers -> Seq(Orders)]
    BY <1>0, <1>4, MsgType, Ordered
  <2>2. TypeOK'
    BY <1>1, <2>1 DEF TypeOK
  <2>3. \A r \in Sessions : Asked(r)' <=> Asked(r) \/ r = t
    BY <1>1, <1>2 DEF Asked
  <2>4. AskedOnce'
    <3>1. Msg("request", t, 0) \in Orders /\ Msg("request", t, 0).kind = "request" /\ Msg("request", t, 0).id = t
      BY <1>0, MsgType
    <3>2. work[t] = "none"
      BY <1>0 DEF AskedOnce, IdleBefore
    <3>3. RequestsOnce'
      BY <1>0, <1>1, <1>4, <2>3, <3>1, <3>2, WireKeepsOnce DEF AskedOnce
    <3>4. IdleBefore'
      BY <1>1, <2>3 DEF AskedOnce, IdleBefore, Unheard
    <3>5. QED
      BY <3>3, <3>4 DEF AskedOnce
  <2>5. QED
    BY <1>3, <2>2, <2>4
<1>5. CASE UNCHANGED wire
  <2>1. TypeOK'
    BY <1>1, <1>5 DEF TypeOK
  <2>2. \A r \in Sessions : Asked(r) => Asked(r)'
    BY <1>1, <1>2 DEF Asked
  <2>3. AskedOnce'
    <3>1. \A w \in Workers : \A i \in 1..Len(wire[w]) : wire[w][i] \in Orders
      BY DEF TypeOK
    <3>2. RequestsOnce'
      BY <1>1, <1>5, <2>2, <3>1 DEF AskedOnce, RequestsOnce, Orders
    <3>3. IdleBefore'
      BY <1>1, <2>2 DEF AskedOnce, IdleBefore, Unheard
    <3>4. QED
      BY <3>2, <3>3 DEF AskedOnce
  <2>4. QED
    BY <1>3, <2>1, <2>3
<1>6. QED
  BY <1>0, <1>4, <1>5 DEF Asks

-----------------------------------------------------------------------------
(* The worker.                                                             *)

\* A reply lies behind everything that was in the inbox.
LEMMA InboxGrows ==
  ASSUME TypeOK, NEW s \in Sessions, NEW m \in Replies, Sends(s, m) \/ Same
  PROVE  /\ inbox' \in Seq(Replies)
         /\ Len(inbox') \in Nat /\ Len(inbox) \in Nat /\ Len(inbox) <= Len(inbox')
         /\ \A i \in 1..Len(inbox) : inbox'[i] = inbox[i]
         /\ \A i \in 1..Len(inbox') :
              \/ i \in 1..Len(inbox) /\ inbox'[i] = inbox[i]
              \/ i = Len(inbox) + 1 /\ inbox'[i] = m /\ Sends(s, m)
         /\ Sends(s, m) => Len(inbox) + 1 \in 1..Len(inbox') /\ inbox'[Len(inbox) + 1] = m
<1>1. CASE Same /\ ~Sends(s, m)
  BY <1>1 DEF Same, TypeOK
<1>2. CASE Sends(s, m)
  BY <1>2, AppendedType DEF Sends, TypeOK
<1>3. QED
  BY <1>1, <1>2

\* What every step of the worker's task for s has in common.
Answers(s, m) ==
  /\ work[s] \in {"running", "summary"}
  /\ Sends(s, m) \/ (Same /\ ~(Target[s] \in Dialled /\ link[Target[s]] = "up"))
  /\ \E to \in {"running", "summary", "ended"} : work' = [work EXCEPT ![s] = to]
  /\ \A r \in Sessions \ {s} : made'[r] = made[r]
  /\ made' \in [Sessions -> Nat] /\ made[s] <= made'[s]
  /\ UNCHANGED <<callVars, wire, link, asked, chosen>>

LEMMA AnswersAsked ==
  ASSUME Inv, NEW s \in Sessions, NEW m \in Replies, m.id = s, Answers(s, m)
  PROVE  TypeOK' /\ AskedOnce' /\ AloneIfUndisturbed'
<1> USE DEF Inv, callVars
<1>1. PICK to \in {"running", "summary", "ended"} : work' = [work EXCEPT ![s] = to]
  BY DEF Answers
<1>2. /\ work[s] \in {"running", "summary"}
      /\ Sends(s, m) \/ Same
      /\ \A r \in Sessions \ {s} : made'[r] = made[r] /\ work'[r] = work[r]
      /\ made' \in [Sessions -> Nat] /\ work'[s] # "none" /\ work[s] # "none"
      /\ UNCHANGED <<reader, result, got, dropped, disturbed, wire, link, asked, chosen>>
  BY <1>1 DEF Answers, TypeOK
<1>3. inbox' \in Seq(Replies)
  BY <1>2, InboxGrows
<1>4. TypeOK'
  BY <1>1, <1>2, <1>3 DEF TypeOK
<1>5. \A r \in Sessions : Asked(r)' <=> Asked(r)
  BY <1>2 DEF Asked
<1>6. \A w \in Workers : \A i \in 1..Len(wire[w]) : wire[w][i] \in Orders
  BY DEF TypeOK
<1>7. RequestsOnce'
  <2> SUFFICES ASSUME NEW w \in Workers, NEW i \in 1..Len(wire'[w]), wire'[w][i].kind = "request",
                      NEW q, q = wire'[w][i].id
               PROVE  /\ w = Target[q] /\ work'[q] = "none" /\ Asked(q)'
                      /\ \A j \in 1..Len(wire'[w]) : wire'[w][j].kind = "request" /\ wire'[w][j].id = q => i = j
    BY DEF RequestsOnce
  <2>1. /\ w = Target[q] /\ work[q] = "none" /\ Asked(q)
        /\ \A j \in 1..Len(wire[w]) : wire[w][j].kind = "request" /\ wire[w][j].id = q => i = j
    BY <1>2 DEF AskedOnce, RequestsOnce
  <2>2. q # s /\ q \in Sessions
    BY <1>2, <1>6, <2>1 DEF Orders
  <2>3. QED
    BY <1>2, <1>5, <2>1, <2>2
<1>8. \A r \in Sessions : Unheard(r) /\ r # s => Unheard(r)'
  <2> SUFFICES ASSUME NEW r \in Sessions, Unheard(r), r # s, NEW i \in 1..Len(inbox')
               PROVE  inbox'[i].id # r
    BY DEF Unheard
  <2> HIDE DEF Inv
  <2>1. (i \in 1..Len(inbox) /\ inbox'[i] = inbox[i]) \/ inbox'[i] = m
    BY <1>2, InboxGrows DEF Inv
  <2>2. QED
    BY <2>1 DEF Unheard
<1>9. IdleBefore'
  <2>1. IdleBefore
    BY DEF AskedOnce
  <2>2. \A r \in Sessions : ~Asked(r)' =>
          work'[r] = "none" /\ got'[r] = << >> /\ result'[r] = "none"
    BY <1>2, <1>5, <2>1 DEF IdleBefore
  <2>3. \A r \in Sessions : work'[r] = "none" => made'[r] = 0 /\ Unheard(r)'
    BY <1>2, <1>8, <2>1 DEF IdleBefore
  <2>4. QED
    BY <2>2, <2>3 DEF IdleBefore
<1>10. AloneIfUndisturbed'
  BY <1>2 DEF AloneIfUndisturbed, Reading
<1>11. QED
  BY <1>4, <1>7, <1>9, <1>10 DEF AskedOnce

\* Other sessions do not notice.
LEMMA AnswersOthers ==
  ASSUME Inv, NEW s \in Sessions, NEW m \in Replies, m.id = s, Answers(s, m),
         NEW r \in Sessions \ {s}, ~disturbed'[r]
  PROVE  Handed(r)' /\ (Reading(r)' => Coming(r)')
<1> USE DEF Inv, callVars
<1>1. /\ Sends(s, m) \/ Same
      /\ made'[r] = made[r] /\ work'[r] = work[r]
      /\ UNCHANGED <<reader, result, got, disturbed, link>>
  BY DEF Answers, TypeOK
<1>2. Handed(r) /\ (Reading(r) => Coming(r))
  BY <1>1 DEF Whole
<1>3. Handed(r)'
  BY <1>1, <1>2 DEF Handed
<1>4. ASSUME Reading(r)
      PROVE  Coming(r)'
  <2>1. Coming(r)
    BY <1>2, <1>4
  <2>2. \A i \in 1..Len(inbox), n \in Nat : Token(i, r, n)' <=> Token(i, r, n)
    BY <1>1, InboxGrows DEF Token
  <2>3. \A i \in 1..Len(inbox'), n \in Nat : Token(i, r, n)' => i \in 1..Len(inbox)
    BY <1>1, InboxGrows DEF Token
  <2>4. \A i \in 1..Len(inbox') : Final(i, r)' => i \in 1..Len(inbox) /\ Final(i, r)
    BY <1>1, InboxGrows DEF Final
  <2>5. /\ Len(inbox) \in Nat /\ Len(inbox') \in Nat /\ Len(inbox) <= Len(inbox')
        /\ Len(got[r]) \in Nat /\ made[r] \in Nat
    BY <1>1, InboxGrows DEF TypeOK
  <2>6. /\ \A i \in 1..Len(inbox) : \A n \in Nat :
             Token(i, r, n) /\ n > Len(got[r]) + 1 => \E j \in 1..Len(inbox) : j < i /\ Token(j, r, n - 1)
        /\ \A i \in 1..Len(inbox) : Final(i, r) =>
             \A n \in Len(got[r]) + 1 .. made[r] : \E j \in 1..Len(inbox) : j < i /\ Token(j, r, n)
        /\ Target[r] \in Dialled /\ link[Target[r]] = "up" =>
             \A n \in Len(got[r]) + 1 .. made[r] : \E j \in 1..Len(inbox) : Token(j, r, n)
    BY <2>1 DEF Coming
  <2>7. \A i \in 1..Len(inbox') : \A n \in Nat :
          Token(i, r, n)' /\ n > Len(got'[r]) + 1 => \E j \in 1..Len(inbox') : j < i /\ Token(j, r, n - 1)'
    BY <1>1, <2>2, <2>3, <2>5, <2>6
  <2>8. \A i \in 1..Len(inbox') : Final(i, r)' =>
          \A n \in Len(got'[r]) + 1 .. made'[r] : \E j \in 1..Len(inbox') : j < i /\ Token(j, r, n)'
    BY <1>1, <2>2, <2>4, <2>5, <2>6
  <2>9. Target[r] \in Dialled /\ link'[Target[r]] = "up" =>
          \A n \in Len(got'[r]) + 1 .. made'[r] : \E j \in 1..Len(inbox') : Token(j, r, n)'
    BY <1>1, <2>2, <2>5, <2>6
  <2>10. QED
    BY <2>7, <2>8, <2>9 DEF Coming
<1>5. QED
  BY <1>1, <1>3, <1>4 DEF Reading

LEMMA OrderedLast ==
  ASSUME TypeOK, NEW s \in Sessions
  PROVE  Last(s) \in Nat
  BY DEF Last, TypeOK

LEMMA TokenInv ==
  ASSUME Inv, NEW s \in Sessions, WorkerToken(s), UNCHANGED <<asked, chosen>>
  PROVE  Inv'
<1> USE DEF Inv, callVars
<1> DEFINE m == Msg("token", s, NextToken(s))
<1>1. /\ work[s] = "running" /\ made' = [made EXCEPT ![s] = @ + 1]
      /\ UNCHANGED <<reader, result, got, dropped, disturbed, wire, link>>
      /\ ToInitiator(Target[s], m)
      /\ work' = IF CanAnswer(Target[s]) THEN work ELSE [work EXCEPT ![s] = "ended"]
  BY DEF WorkerToken
<1>2. made[s] \in Nat /\ made'[s] = made[s] + 1 /\ made' \in [Sessions -> Nat]
      /\ \A r \in Sessions \ {s} : made'[r] = made[r]
  BY <1>1 DEF TypeOK
<1>3. m \in Replies /\ m.kind = "token" /\ m.id = s /\ m.n = made[s] + 1
  BY <1>2, MsgType DEF NextToken
<1> HIDE DEF m
<1>4. Sends(s, m) \/ (Same /\ ~(Target[s] \in Dialled /\ link[Target[s]] = "up"))
  BY <1>1, Replied
<1>5. Answers(s, m)
  <2>1. \E to \in {"running", "summary", "ended"} : work' = [work EXCEPT ![s] = to]
    BY <1>1 DEF TypeOK
  <2>2. made[s] <= made'[s]
    BY <1>2
  <2>3. QED
    BY <1>1, <1>2, <1>4, <2>1, <2>2 DEF Answers
<1>6. TypeOK' /\ AskedOnce' /\ AloneIfUndisturbed'
  BY <1>3, <1>5, AnswersAsked
<1>7. \A r \in Sessions : Last(r)' = Last(r) /\ Last(r) \in Nat /\ Last(r) <= made[r] /\ made[r] <= made'[r]
  <2> TAKE r \in Sessions
  <2>1. Last(r)' = Last(r)
    BY <1>1 DEF Last
  <2>2. Last(r) \in Nat
    BY OrderedLast
  <2>3. Last(r) <= made[r]
    BY DEF InOrder
  <2>4. made[r] <= made'[r]
    <3>1. made[r] \in Nat
      BY DEF TypeOK
    <3>2. QED
      BY <1>2, <3>1
  <2>5. QED
    BY <2>1, <2>2, <2>3, <2>4
<1>8. InOrder'
  <2>1. \A i \in 1..Len(inbox') : inbox'[i] \in Replies
    BY <1>6 DEF TypeOK
  <2>2. ASSUME NEW i \in 1..Len(inbox'), inbox'[i].kind = "token", NEW q \in Sessions, q = inbox'[i].id
        PROVE  Last(q) < inbox'[i].n /\ inbox'[i].n <= made'[q]
    <3>1. CASE i \in 1..Len(inbox) /\ inbox'[i] = inbox[i]
      <4>1. inbox[i].n \in Nat /\ made[q] \in Nat /\ made'[q] \in Nat
        BY <2>1, <3>1, <1>2 DEF Replies, TypeOK
      <4>2. Last(q) < inbox[i].n /\ inbox[i].n <= made[q]
        BY <2>2, <3>1 DEF InOrder
      <4>3. QED
        BY <1>7, <3>1, <4>1, <4>2
    <3>2. CASE inbox'[i] = m
      <4>1. q = s /\ inbox'[i].n = made[s] + 1
        BY <1>3, <2>2, <3>2
      <4>2. QED
        BY <1>2, <1>7, <4>1
    <3>3. QED
      BY <1>3, <1>4, <3>1, <3>2, InboxGrows
  <2>3. ASSUME NEW i \in 1..Len(inbox'), NEW j \in 1..Len(inbox'), i < j,
               inbox'[i].kind = "token", inbox'[j].kind = "token", inbox'[i].id = inbox'[j].id
        PROVE  inbox'[i].n < inbox'[j].n
    <3>1. i \in 1..Len(inbox) /\ inbox'[i] = inbox[i]
      BY <1>3, <1>4, <2>3, InboxGrows
    <3>2. CASE j \in 1..Len(inbox) /\ inbox'[j] = inbox[j]
      BY <2>3, <3>1, <3>2 DEF InOrder
    <3>3. CASE inbox'[j] = m
      <4>1. inbox[i].n <= made[s] /\ inbox[i].n \in Nat
        BY <1>3, <2>1, <2>3, <3>1, <3>3 DEF InOrder, Replies
      <4>2. QED
        BY <1>2, <1>3, <3>1, <3>3, <4>1
    <3>4. QED
      BY <1>3, <1>4, <3>2, <3>3, InboxGrows
  <2>4. \A q \in Sessions : Last(q)' <= made'[q]
    BY <1>2, <1>7 DEF TypeOK
  <2>5. \A i \in 1..Len(inbox') : inbox'[i].id \in Sessions
    BY <2>1 DEF Replies
  <2>6. \A i \in 1..Len(inbox') : inbox'[i].kind = "token" =>
          (Last(inbox[i].id) < inbox[i].n)' /\ (inbox[i].n <= made[inbox[i].id])'
    BY <1>1, <2>2, <2>5 DEF Last
  <2>7. QED
    BY <2>3, <2>4, <2>6 DEF InOrder
<1>9. FinalIsLast'
  <2>1. \A i \in 1..Len(inbox'), r \in Sessions : Final(i, r)' => i \in 1..Len(inbox) /\ Final(i, r)
    BY <1>3, <1>4, InboxGrows DEF Final
  <2>2. \A r \in Sessions : work[r] \in {"summary", "ended"} => work'[r] = work[r]
    BY <1>1 DEF TypeOK
  <2>3. QED
    BY <2>1, <2>2 DEF FinalIsLast
<1>10. Whole'
  <2> SUFFICES ASSUME NEW r \in Sessions, ~disturbed'[r]
               PROVE  Handed(r)' /\ (Reading(r)' => Coming(r)')
    BY DEF Whole
  <2>1. CASE r # s
    BY <1>3, <1>5, <2>1, AnswersOthers
  <2>2. CASE r = s
    <3>1. Handed(s) /\ (Reading(s) => Coming(s))
      BY <1>1, <2>2 DEF Whole
    <3>2. Handed(s)'
      BY <1>1, <3>1 DEF Handed
    <3>3. ASSUME Reading(s)
          PROVE  Coming(s)'
      <4>1. \A i \in 1..Len(inbox), n \in Nat : Token(i, s, n)' <=> Token(i, s, n)
        BY <1>3, <1>4, InboxGrows DEF Token
      <4>2. \A i \in 1..Len(inbox'), n \in Nat : Token(i, s, n)' =>
              i \in 1..Len(inbox) \/ (i = Len(inbox) + 1 /\ n = made[s] + 1 /\ Sends(s, m))
        BY <1>3, <1>4, InboxGrows DEF Token
      <4>3. /\ Len(inbox) \in Nat /\ Len(inbox') \in Nat /\ Len(inbox) <= Len(inbox')
            /\ Len(got[s]) \in Nat /\ made[s] \in Nat
        BY <1>3, <1>4, InboxGrows DEF TypeOK
      <4>4. /\ \A i \in 1..Len(inbox) : \A n \in Nat :
                 Token(i, s, n) /\ n > Len(got[s]) + 1 => \E j \in 1..Len(inbox) : j < i /\ Token(j, s, n - 1)
            /\ Target[s] \in Dialled /\ link[Target[s]] = "up" =>
                 \A n \in Len(got[s]) + 1 .. made[s] : \E j \in 1..Len(inbox) : Token(j, s, n)
        BY <3>1, <3>3 DEF Coming
      <4>5. \A i \in 1..Len(inbox') : \A n \in Nat :
              Token(i, s, n)' /\ n > Len(got'[s]) + 1 => \E j \in 1..Len(inbox') : j < i /\ Token(j, s, n - 1)'
        <5> SUFFICES ASSUME NEW i \in 1..Len(inbox'), NEW n \in Nat, Token(i, s, n)', n > Len(got[s]) + 1
                     PROVE  \E j \in 1..Len(inbox') : j < i /\ Token(j, s, n - 1)'
          BY <1>1
        <5>1. CASE i \in 1..Len(inbox)
          BY <4>1, <4>3, <4>4, <5>1
        <5>2. CASE i = Len(inbox) + 1 /\ n = made[s] + 1 /\ Sends(s, m)
          <6>1. made[s] \in Len(got[s]) + 1 .. made[s]
            BY <4>3, <5>2
          <6>2. PICK j \in 1..Len(inbox) : Token(j, s, made[s])
            BY <4>4, <5>2, <6>1 DEF Sends
          <6>3. n - 1 \in Nat /\ n - 1 = made[s] /\ j \in 1..Len(inbox') /\ j < i
            <7>1. n - 1 = made[s] /\ made[s] \in Nat
              BY ONLY <4>3, <5>2
            <7>2. j \in 1..Len(inbox') /\ j < i
              BY ONLY <4>3, <5>2, j \in 1..Len(inbox)
            <7>3. QED
              BY ONLY <7>1, <7>2
          <6>4. Token(j, s, n - 1)
            BY <6>2, <6>3
          <6>5. Token(j, s, n - 1)'
            BY <4>1, <6>3, <6>4, Zenon
          <6>6. QED
            BY <6>3, <6>5, Zenon
        <5>3. QED
          BY <4>2, <5>1, <5>2
      <4>6. \A i \in 1..Len(inbox') : ~Final(i, s)'
        BY <1>1, <1>3, <1>4, InboxGrows DEF FinalIsLast, Final
      <4>7. Target[s] \in Dialled /\ link'[Target[s]] = "up" =>
              \A n \in Len(got'[s]) + 1 .. made'[s] : \E j \in 1..Len(inbox') : Token(j, s, n)'
        <5> SUFFICES ASSUME Target[s] \in Dialled, link[Target[s]] = "up", NEW n \in Len(got[s]) + 1 .. made[s] + 1
                     PROVE  \E j \in 1..Len(inbox') : Token(j, s, n)'
          BY <1>1, <1>2
        <5>1. CASE n = made[s] + 1
          <6>1. Sends(s, m)
            BY <1>4
          <6>2. Len(inbox) + 1 \in 1..Len(inbox') /\ inbox'[Len(inbox) + 1] = m
            BY <1>3, <6>1, InboxGrows
          <6>3. QED
            BY <1>3, <5>1, <6>2 DEF Token
        <5>2. CASE n \in Len(got[s]) + 1 .. made[s]
          <6>1. PICK j \in 1..Len(inbox) : Token(j, s, n)
            BY <4>4, <5>2
          <6>2. QED
            BY <4>1, <4>3, <6>1
        <5>3. QED
          BY <4>3, <5>1, <5>2
      <4>8. QED
        BY <4>5, <4>6, <4>7 DEF Coming
    <3>4. QED
      BY <1>1, <2>2, <3>2, <3>3 DEF Reading
  <2>3. QED
    BY <2>1, <2>2
<1>11. QED
  BY <1>6, <1>8, <1>9, <1>10

\* A reply that is not a token: the last the worker makes is behind it.
LEMMA NoTokenInv ==
  ASSUME Inv, NEW s \in Sessions, NEW m \in Replies, m.id = s, m.kind # "token", Answers(s, m),
         made' = made, work'[s] \in {"summary", "ended"}
  PROVE  Inv'
<1> USE DEF Inv, callVars
<1>1. /\ Sends(s, m) \/ (Same /\ ~(Target[s] \in Dialled /\ link[Target[s]] = "up"))
      /\ \A r \in Sessions \ {s} : work'[r] = work[r]
      /\ UNCHANGED <<reader, result, got, disturbed, link, made>>
  BY DEF Answers, TypeOK
<1>2. TypeOK' /\ AskedOnce' /\ AloneIfUndisturbed'
  BY AnswersAsked
<1>3. \A i \in 1..Len(inbox') : inbox'[i].kind = "token" => i \in 1..Len(inbox) /\ inbox'[i] = inbox[i]
  BY <1>1, InboxGrows
<1>4. InOrder'
  BY <1>1, <1>3 DEF InOrder, Last
<1>5. FinalIsLast'
  <2>1. ASSUME NEW i \in 1..Len(inbox'), NEW r \in Sessions \ {s}, Final(i, r)'
        PROVE  work'[r] \in {"summary", "ended"}
    BY <1>1, <2>1, InboxGrows DEF FinalIsLast, Final
  <2>2. QED
    BY <2>1 DEF FinalIsLast
<1>6. Whole'
  <2> SUFFICES ASSUME NEW r \in Sessions, ~disturbed'[r]
               PROVE  Handed(r)' /\ (Reading(r)' => Coming(r)')
    BY DEF Whole
  <2>1. CASE r # s
    BY <2>1, AnswersOthers
  <2>2. CASE r = s
    <3>1. Handed(s) /\ (Reading(s) => Coming(s))
      BY <1>1, <2>2 DEF Whole
    <3>2. Handed(s)'
      BY <1>1, <3>1 DEF Handed
    <3>3. ASSUME Reading(s)
          PROVE  Coming(s)'
      <4>1. \A i \in 1..Len(inbox), n \in Nat : Token(i, s, n)' <=> Token(i, s, n)
        BY <1>1, InboxGrows DEF Token
      <4>2. \A i \in 1..Len(inbox'), n \in Nat : Token(i, s, n)' => i \in 1..Len(inbox)
        BY <1>3 DEF Token
      <4>3. /\ Len(inbox) \in Nat /\ Len(inbox') \in Nat /\ Len(inbox) <= Len(inbox')
            /\ Len(got[s]) \in Nat /\ made[s] \in Nat
        BY <1>1, InboxGrows DEF TypeOK
      <4>4. /\ \A i \in 1..Len(inbox) : \A n \in Nat :
                 Token(i, s, n) /\ n > Len(got[s]) + 1 => \E j \in 1..Len(inbox) : j < i /\ Token(j, s, n - 1)
            /\ \A i \in 1..Len(inbox) : Final(i, s) =>
                 \A n \in Len(got[s]) + 1 .. made[s] : \E j \in 1..Len(inbox) : j < i /\ Token(j, s, n)
            /\ Target[s] \in Dialled /\ link[Target[s]] = "up" =>
                 \A n \in Len(got[s]) + 1 .. made[s] : \E j \in 1..Len(inbox) : Token(j, s, n)
        BY <3>1, <3>3 DEF Coming
      <4>5. \A i \in 1..Len(inbox') : \A n \in Nat :
              Token(i, s, n)' /\ n > Len(got'[s]) + 1 => \E j \in 1..Len(inbox') : j < i /\ Token(j, s, n - 1)'
        <5> SUFFICES ASSUME NEW i \in 1..Len(inbox'), NEW n \in Nat, Token(i, s, n)', n > Len(got[s]) + 1
                     PROVE  \E j \in 1..Len(inbox') : j < i /\ Token(j, s, n - 1)'
          BY <1>1
        <5>1. i \in 1..Len(inbox) /\ Token(i, s, n)
          BY <4>1, <4>2
        <5>2. PICK j \in 1..Len(inbox) : j < i /\ Token(j, s, n - 1)
          BY <4>4, <5>1
        <5>3. n - 1 \in Nat /\ j \in 1..Len(inbox')
          BY <4>3
        <5>4. QED
          BY <4>1, <5>2, <5>3
      <4>6. ASSUME NEW i \in 1..Len(inbox'), Final(i, s)', NEW n \in Len(got[s]) + 1 .. made[s]
            PROVE  \E j \in 1..Len(inbox') : j < i /\ Token(j, s, n)'
        <5>1. CASE i \in 1..Len(inbox) /\ inbox'[i] = inbox[i]
          <6>1. Final(i, s)
            BY <4>6, <5>1 DEF Final
          <6>2. PICK j \in 1..Len(inbox) : j < i /\ Token(j, s, n)
            BY <4>4, <5>1, <6>1, Zenon
          <6>3. n \in Nat /\ j \in 1..Len(inbox')
            BY <4>3
          <6>4. Token(j, s, n)'
            BY <4>1, <6>2, <6>3, Zenon
          <6>5. QED
            BY <6>2, <6>3, <6>4, Zenon
        <5>2. CASE i = Len(inbox) + 1 /\ Sends(s, m)
          <6>1. PICK j \in 1..Len(inbox) : Token(j, s, n)
            BY <4>4, <5>2 DEF Sends
          <6>2. n \in Nat /\ j \in 1..Len(inbox') /\ j < i
            BY <4>3, <5>2
          <6>3. Token(j, s, n)'
            BY <4>1, <6>1, <6>2, Zenon
          <6>4. QED
            BY <6>2, <6>3, Zenon
        <5>3. QED
          BY <1>1, <5>1, <5>2, InboxGrows
      <4>7. Target[s] \in Dialled /\ link'[Target[s]] = "up" =>
              \A n \in Len(got'[s]) + 1 .. made'[s] : \E j \in 1..Len(inbox') : Token(j, s, n)'
        <5> SUFFICES ASSUME Target[s] \in Dialled, link[Target[s]] = "up", NEW n \in Len(got[s]) + 1 .. made[s]
                     PROVE  \E j \in 1..Len(inbox') : Token(j, s, n)'
          BY <1>1
        <5>1. PICK j \in 1..Len(inbox) : Token(j, s, n)
          BY <4>4
        <5>2. n \in Nat /\ j \in 1..Len(inbox')
          BY <4>3
        <5>3. Token(j, s, n)'
          BY <4>1, <5>1, <5>2, Zenon
        <5>4. QED
          BY <5>2, <5>3, Zenon
      <4>8. QED
        BY <1>1, <4>5, <4>6, <4>7 DEF Coming
    <3>4. QED
      BY <1>1, <2>2, <3>2, <3>3 DEF Reading
  <2>3. QED
    BY <2>1, <2>2
<1>7. QED
  BY <1>2, <1>4, <1>5, <1>6

LEMMA EndsInv ==
  ASSUME Inv, NEW s \in Sessions, WorkerFails(s) \/ WorkerDone(s) \/ WorkerComplete(s),
         UNCHANGED <<asked, chosen>>
  PROVE  Inv'
<1> USE DEF Inv
<1>1. PICK k \in {"failed", "done", "complete"} : ToInitiator(Target[s], Msg(k, s, 0))
  BY DEF WorkerFails, WorkerDone, WorkerComplete
<1> DEFINE m == Msg(k, s, 0)
<1>2. /\ work[s] \in {"running", "summary"}
      /\ UNCHANGED <<callVars, wire, link, made>>
      /\ \E to \in {"summary", "ended"} : work' = [work EXCEPT ![s] = to]
  BY DEF WorkerFails, WorkerDone, WorkerComplete
<1>3. m \in Replies /\ m.kind # "token" /\ m.id = s
  BY MsgType
<1>4. Sends(s, m) \/ (Same /\ ~(Target[s] \in Dialled /\ link[Target[s]] = "up"))
  BY <1>1, Replied
<1> HIDE DEF m
<1>5. Answers(s, m)
  <2>1. /\ \A r \in Sessions \ {s} : made'[r] = made[r]
        /\ made' \in [Sessions -> Nat] /\ made[s] <= made'[s]
    BY <1>2 DEF TypeOK
  <2>2. \E to \in {"running", "summary", "ended"} : work' = [work EXCEPT ![s] = to]
    BY <1>2
  <2>3. QED
    BY <1>2, <1>4, <2>1, <2>2 DEF Answers
<1>6. work'[s] \in {"summary", "ended"}
  BY <1>2 DEF TypeOK
<1>7. QED
  BY <1>2, <1>3, <1>5, <1>6, NoTokenInv

-----------------------------------------------------------------------------
(* The daemon and the connections.                                         *)

LEMMA DaemonInv ==
  ASSUME Inv, NEW w \in Workers, DaemonReceives(w), UNCHANGED <<asked, chosen>>
  PROVE  Inv'
<1> USE DEF Inv, callVars
<1> DEFINE m == Head(wire[w])
<1>1. /\ UNCHANGED <<reader, result, got, dropped, disturbed, inbox, link, made>>
      /\ wire' = [wire EXCEPT ![w] = Tail(@)] /\ wire[w] # << >>
      /\ \/ m.kind = "request" /\ work' = [work EXCEPT ![m.id] = "running"]
         \/ m.kind = "release" /\ UNCHANGED work
  BY DEF DaemonReceives
<1>2. /\ wire[w] \in Seq(Orders) /\ m = wire[w][1] /\ m \in Orders /\ m.id \in Sessions
      /\ 1 \in 1..Len(wire[w])
      /\ wire'[w] = Tail(wire[w]) /\ wire'[w] \in Seq(Orders)
      /\ \A v \in Workers \ {w} : wire'[v] = wire[v]
      /\ \A i \in 1..Len(wire'[w]) : i + 1 \in 1..Len(wire[w]) /\ wire'[w][i] = wire[w][i + 1]
  <2>1. wire[w] \in Seq(Orders)
    BY DEF TypeOK
  <2>2. wire'[w] = Tail(wire[w]) /\ \A v \in Workers \ {w} : wire'[v] = wire[v]
    BY <1>1 DEF TypeOK
  <2>3. /\ m = wire[w][1] /\ wire[w][1] \in Orders /\ Len(wire[w]) \in Nat \ {0}
        /\ Tail(wire[w]) \in Seq(Orders)
        /\ \A i \in 1..Len(Tail(wire[w])) : i + 1 \in 1..Len(wire[w]) /\ Tail(wire[w])[i] = wire[w][i + 1]
    BY <1>1, <2>1, TailType
  <2>4. m.id \in Sessions
    BY <2>3 DEF Orders
  <2>5. QED
    BY <2>1, <2>2, <2>3, <2>4
<1> HIDE DEF m
<1>3. m.kind = "request" => w = Target[m.id] /\ work[m.id] = "none" /\ Asked(m.id)
  BY <1>2 DEF AskedOnce, RequestsOnce
<1>4. \A r \in Sessions : work'[r] = work[r] \/ (m.kind = "request" /\ r = m.id /\ work'[r] = "running")
  BY <1>1, <1>2 DEF TypeOK
<1>5. wire' \in [Workers -> Seq(Orders)]
  BY <1>1, <1>2 DEF TypeOK
<1>6. TypeOK'
  <2>1. work' \in [Sessions -> {"none", "running", "summary", "ended"}]
    BY <1>1, <1>2 DEF TypeOK
  <2>2. QED
    BY <1>1, <1>5, <2>1 DEF TypeOK
<1>a. \A v \in Workers : \A i \in 1..Len(wire'[v]) : wire'[v][i] \in Orders /\ wire'[v][i].id \in Sessions
  <2>1. \A v \in Workers : wire'[v] \in Seq(Orders)
    BY <1>5
  <2>2. \A v \in Workers : \A i \in 1..Len(wire'[v]) : wire'[v][i] \in Orders
    BY <2>1
  <2>3. QED
    BY <2>2 DEF Orders
<1>7. \A r \in Sessions : Asked(r)' <=> Asked(r)
  BY <1>1 DEF Asked
<1>8. IdleBefore'
  BY <1>1, <1>3, <1>4, <1>7 DEF AskedOnce, IdleBefore, Unheard
<1>9. RequestsOnce'
  <2> SUFFICES ASSUME NEW v \in Workers, NEW i \in 1..Len(wire'[v]), wire'[v][i].kind = "request",
                      NEW q, q = wire'[v][i].id
               PROVE  /\ v = Target[q] /\ work'[q] = "none" /\ Asked(q)'
                      /\ \A j \in 1..Len(wire'[v]) : wire'[v][j].kind = "request" /\ wire'[v][j].id = q => i = j
    BY DEF RequestsOnce
  <2>1. CASE v # w
    <3>1. wire'[v] = wire[v] /\ RequestsOnce
      BY <1>2, <2>1 DEF AskedOnce
    <3>2. /\ v = Target[q] /\ work[q] = "none" /\ Asked(q)
          /\ \A j \in 1..Len(wire[v]) : wire[v][j].kind = "request" /\ wire[v][j].id = q => i = j
      BY <3>1 DEF RequestsOnce
    <3>3. q \in Sessions
      BY <1>a
    <3>4. work'[q] = "none" /\ Asked(q)'
      BY <1>3, <1>4, <1>7, <2>1, <3>2, <3>3
    <3>5. QED
      BY <3>1, <3>2, <3>4
  <2>2. CASE v = w
    <3>1. i + 1 \in 1..Len(wire[w]) /\ wire[w][i + 1].kind = "request" /\ wire[w][i + 1].id = q
      BY <1>2, <2>2
    <3>2. /\ v = Target[q] /\ work[q] = "none" /\ Asked(q)
          /\ \A j \in 1..Len(wire[w]) : wire[w][j].kind = "request" /\ wire[w][j].id = q => i + 1 = j
      BY <2>2, <3>1 DEF AskedOnce, RequestsOnce
    <3>3. q \in Sessions
      BY <1>a
    <3>4. m.kind = "request" => q # m.id
      <4> SUFFICES ASSUME m.kind = "request", q = m.id
                   PROVE  FALSE
        OBVIOUS
      <4>1. i + 1 = 1 /\ i \in Nat \ {0}
        BY <1>2, <3>2
      <4>2. QED
        BY <4>1
    <3>5. ASSUME NEW j \in 1..Len(wire'[v]), wire'[v][j].kind = "request", wire'[v][j].id = q
          PROVE  i = j
      <4>1. j + 1 \in 1..Len(wire[w]) /\ wire[w][j + 1] = wire'[w][j]
        BY <1>2, <2>2
      <4>2. wire[w][j + 1].kind = "request" /\ wire[w][j + 1].id = q
        BY <2>2, <3>5, <4>1
      <4>3. i + 1 = j + 1
        BY <3>2, <4>1, <4>2
      <4>4. QED
        BY <4>3
    <3>6. QED
      BY <1>4, <1>7, <3>2, <3>3, <3>4, <3>5
  <2>3. QED
    BY <2>1, <2>2
<1>10. InOrder' /\ AloneIfUndisturbed'
  BY <1>1 DEF InOrder, Last, AloneIfUndisturbed, Reading
<1>11. \A r \in Sessions : work[r] \in {"summary", "ended"} => work'[r] = work[r]
  BY <1>3, <1>4
<1>12. FinalIsLast'
  BY <1>1, <1>11 DEF FinalIsLast, Final
<1>13. Whole'
  BY <1>1, <1>11 DEF Whole, Handed, Coming, Token, Final, Reading
<1>14. QED
  BY <1>6, <1>8, <1>9, <1>10, <1>12, <1>13 DEF AskedOnce

\* A dialled worker's connection never comes up again; a contributor's may.
LEMMA LinksInv ==
  ASSUME Inv, (\E w \in Workers : LinkBreaks(w) /\ Apart) \/ Connects
  PROVE  Inv'
<1> USE DEF Inv, callVars, workerVars, commandVars, runVars
<1>1. UNCHANGED <<reader, result, got, dropped, disturbed, inbox, wire, work, made, asked, chosen>>
  BY DEF LinkBreaks, Connects, Apart
<1>2. /\ link' \in [Workers -> {"up", "broken", "down"}]
      /\ \A w \in Dialled : link'[w] = "up" => link[w] = "up"
  BY DEF LinkBreaks, Connects, TypeOK
<1>3. TypeOK'
  BY <1>1, <1>2 DEF TypeOK
<1>4. RequestsOnce'
  BY <1>1 DEF AskedOnce, RequestsOnce, Asked
<1>5. IdleBefore'
  BY <1>1 DEF AskedOnce, IdleBefore, Asked, Unheard
<1>6. InOrder' /\ FinalIsLast' /\ AloneIfUndisturbed'
  BY <1>1 DEF InOrder, Last, FinalIsLast, Final, AloneIfUndisturbed, Reading
<1>7. Whole'
  BY <1>1, <1>2 DEF Whole, Handed, Coming, Token, Final, Reading
<1>8. QED
  BY <1>3, <1>4, <1>5, <1>6, <1>7 DEF AskedOnce

\* The end of a contributor's process loses what was on its way to it.
LEMMA ExitsInv ==
  ASSUME Inv, NEW w \in Contributors, Exits(w)
  PROVE  Inv'
<1> USE DEF Inv, callVars, runVars
<1>1. UNCHANGED <<reader, result, got, dropped, disturbed, inbox, made, asked, chosen>>
  BY DEF Exits
<1>2. /\ link' \in [Workers -> {"up", "broken", "down"}]
      /\ \A v \in Workers : link'[v] = "up" => link[v] = "up"
  BY DEF Exits, TypeOK
<1>3. /\ wire' \in [Workers -> Seq(Orders)]
      /\ \A v \in Workers : wire'[v] = wire[v] \/ Len(wire'[v]) = 0
  BY DEF Exits, TypeOK
<1>4. /\ work' \in [Sessions -> {"none", "running", "summary", "ended"}]
      /\ \A s \in Sessions : (work'[s] = work[s]) \/ (work[s] # "none" /\ work'[s] = "ended")
  BY DEF Exits, TypeOK
<1>5. TypeOK'
  BY <1>1, <1>2, <1>3, <1>4 DEF TypeOK
<1>a. \A v \in Workers : \A i \in 1..Len(wire'[v]) : wire'[v][i].id \in Sessions
  <2>1. \A v \in Workers : wire'[v] \in Seq(Orders)
    BY <1>3
  <2>2. \A v \in Workers : \A i \in 1..Len(wire'[v]) : wire'[v][i] \in Orders
    BY <2>1
  <2>3. QED
    BY <2>2 DEF Orders
<1>6. \A r \in Sessions : Asked(r)' <=> Asked(r)
  BY <1>1 DEF Asked
<1>7. RequestsOnce'
  <2> SUFFICES ASSUME NEW v \in Workers, NEW i \in 1..Len(wire'[v]), wire'[v][i].kind = "request",
                      NEW q, q = wire'[v][i].id
               PROVE  /\ v = Target[q] /\ work'[q] = "none" /\ Asked(q)'
                      /\ \A j \in 1..Len(wire'[v]) : wire'[v][j].kind = "request" /\ wire'[v][j].id = q => i = j
    BY DEF RequestsOnce
  <2> HIDE DEF Inv
  <2>0. q \in Sessions
    BY <1>a
  <2>1. wire'[v] = wire[v] /\ RequestsOnce
    <3>1. Len(wire'[v]) # 0
      OBVIOUS
    <3> QED
      BY <1>3, <3>1 DEF Inv, AskedOnce
  <2>2. /\ v = Target[q] /\ work[q] = "none" /\ Asked(q)
        /\ \A j \in 1..Len(wire[v]) : wire[v][j].kind = "request" /\ wire[v][j].id = q => i = j
    BY <2>1 DEF RequestsOnce
  <2>3. QED
    BY <1>4, <1>6, <2>0, <2>1, <2>2
<1>8. IdleBefore'
  BY <1>1, <1>4, <1>6 DEF AskedOnce, IdleBefore, Unheard
<1>9. InOrder' /\ AloneIfUndisturbed'
  BY <1>1 DEF InOrder, Last, AloneIfUndisturbed, Reading
<1>10. FinalIsLast'
  BY <1>1, <1>4 DEF FinalIsLast, Final
<1>11. Whole'
  BY <1>1, <1>2, <1>4 DEF Whole, Handed, Coming, Token, Final, Reading
<1>12. QED
  BY <1>5, <1>7, <1>8, <1>9, <1>10, <1>11 DEF AskedOnce

-----------------------------------------------------------------------------
(* The session.                                                            *)

\* What a round of the receive loop does: it hands over a token, it ends, or it drops a
\* message of another session.
TakesNext(s) ==
  /\ inbox[1].kind = "token" /\ inbox[1].id = s
  /\ got' = [got EXCEPT ![s] = Append(@, inbox[1].n)]
  /\ UNCHANGED <<reader, result>>

Ends(s) ==
  /\ inbox[1].id = s
  /\ reader' = [reader EXCEPT ![s] = "closing"]
  /\ \E how \in {"error", "dropped", "complete"} :
       /\ result' = [result EXCEPT ![s] = how]
       /\ how = "complete" => Final(1, s)
  /\ UNCHANGED got

Skips(s) == inbox[1].id # s /\ UNCHANGED <<reader, result, got>>

LEMMA ReadForms ==
  ASSUME TypeOK, NEW s \in Sessions, SessionReads(s)
  PROVE  /\ Reading(s)
         /\ TakesNext(s) \/ Ends(s) \/ Skips(s)
         /\ UNCHANGED <<dropped, disturbed, wire, link, work, made>>
         /\ inbox' \in Seq(Replies) /\ 1 \in 1..Len(inbox) /\ inbox[1] \in Replies
         /\ Len(inbox) \in Nat /\ Len(inbox') = Len(inbox) - 1
         /\ \A i \in 1..Len(inbox') : i + 1 \in 1..Len(inbox) /\ inbox'[i] = inbox[i + 1]
<1> DEFINE m == Head(inbox)
<1>1. /\ Reading(s) /\ inbox # << >> /\ inbox' = Tail(inbox)
      /\ UNCHANGED <<dropped, disturbed, wire, link, work, made>>
      /\ \/ Mine(m, s) /\ m.kind \in {"token", "done"} /\ TakeToken(s, m)
         \/ /\ Mine(m, s) /\ m.kind \in {"complete", "failed"}
            /\ Finish(s, IF m.kind = "failed" THEN "error" ELSE "complete")
            /\ UNCHANGED got
         \/ ~Mine(m, s) /\ UNCHANGED <<reader, result, got>>
  BY DEF SessionReads, workerVars
<1>2. inbox \in Seq(Replies)
  BY DEF TypeOK
<1>3. m = inbox[1]
  BY <1>1, <1>2, TailType
<1> HIDE DEF m
<1>4. ASSUME Mine(m, s), m.kind \in {"token", "done"}, TakeToken(s, m)
      PROVE  TakesNext(s) \/ Ends(s)
  BY <1>3, <1>4 DEF TakeToken, Finish, Mine, TakesNext, Ends, Final
<1>5. ASSUME Mine(m, s), m.kind \in {"complete", "failed"}, UNCHANGED got,
             Finish(s, IF m.kind = "failed" THEN "error" ELSE "complete")
      PROVE  Ends(s)
  BY <1>3, <1>5 DEF Finish, Mine, Ends, Final
<1>6. ASSUME ~Mine(m, s), UNCHANGED <<reader, result, got>>
      PROVE  Skips(s)
  BY <1>3, <1>6 DEF Mine, Skips
<1>7. TakesNext(s) \/ Ends(s) \/ Skips(s)
  BY <1>1, <1>4, <1>5, <1>6
<1>8. QED
  BY <1>1, <1>2, <1>7, TailType

LEMMA TakenLast ==
  ASSUME TypeOK, NEW s \in Sessions, TakesNext(s), inbox[1].n \in Nat
  PROVE  /\ got' \in [Sessions -> Seq(Nat)]
         /\ got'[s] = Append(got[s], inbox[1].n)
         /\ Last(s)' = inbox[1].n
         /\ \A r \in Sessions \ {s} : got'[r] = got[r] /\ Last(r)' = Last(r)
<1>1. got[s] \in Seq(Nat)
  BY DEF TypeOK
<1>2. /\ Append(got[s], inbox[1].n) \in Seq(Nat)
      /\ Len(Append(got[s], inbox[1].n)) = Len(got[s]) + 1 /\ Len(got[s]) \in Nat
      /\ Append(got[s], inbox[1].n)[Len(got[s]) + 1] = inbox[1].n
  BY <1>1, AppendedType
<1>3. got'[s] = Append(got[s], inbox[1].n) /\ got' \in [Sessions -> Seq(Nat)]
  BY <1>1, <1>2 DEF TakesNext, TypeOK
<1>4. Last(s)' = inbox[1].n
  BY <1>2, <1>3 DEF Last
<1>5. \A r \in Sessions \ {s} : got'[r] = got[r]
  BY DEF TakesNext, TypeOK
<1>6. QED
  BY <1>3, <1>4, <1>5 DEF Last

LEMMA ReadsAsked ==
  ASSUME Inv, NEW s \in Sessions, SessionReads(s), UNCHANGED <<asked, chosen>>
  PROVE  TypeOK' /\ AskedOnce' /\ FinalIsLast' /\ AloneIfUndisturbed'
<1> USE DEF Inv
<1> USE ReadForms
<1>1. inbox[1].id \in Sessions /\ inbox[1].n \in Nat
  BY DEF Replies
<1>2. TypeOK'
  <2>1. CASE TakesNext(s)
    BY <1>1, <2>1, TakenLast DEF TypeOK, TakesNext
  <2>2. CASE Ends(s)
    <3>1. PICK how \in {"error", "dropped", "complete"} : result' = [result EXCEPT ![s] = how]
      BY <2>2 DEF Ends
    <3>2. /\ result' \in [Sessions -> {"none", "error", "dropped", "complete"}]
          /\ reader' \in [Sessions -> {"new", "reading", "closing", "over"}]
      BY <2>2, <3>1 DEF TypeOK, Ends
    <3>3. UNCHANGED <<got, dropped, disturbed, wire, link, work, made, chosen>> /\ inbox' \in Seq(Replies)
      BY <2>2 DEF Ends
    <3>4. QED
      BY <3>2, <3>3 DEF TypeOK
  <2>3. CASE Skips(s)
    BY <2>3 DEF TypeOK, Skips
  <2>4. QED
    BY <2>1, <2>2, <2>3
<1>3. \A r \in Sessions : (reader'[r] = "new" <=> reader[r] = "new") /\ (Reading(r)' => Reading(r))
  <2>1. reader' = reader \/ reader' = [reader EXCEPT ![s] = "closing"]
    BY DEF TakesNext, Ends, Skips
  <2>2. reader \in [Sessions -> {"new", "reading", "closing", "over"}] /\ reader[s] = "reading"
    BY DEF TypeOK, Reading
  <2>3. QED
    BY <2>1, <2>2 DEF Reading
<1>4. \A r \in Sessions : Asked(r)' <=> Asked(r)
  BY <1>3 DEF Asked
<1>5. \A w \in Workers : \A i \in 1..Len(wire[w]) : wire[w][i].id \in Sessions
  <2>1. \A w \in Workers : wire[w] \in Seq(Orders)
    BY DEF TypeOK
  <2>2. \A w \in Workers : \A i \in 1..Len(wire[w]) : wire[w][i] \in Orders
    BY <2>1
  <2>3. QED
    BY <2>2 DEF Orders
<1>6. RequestsOnce'
  <2> SUFFICES ASSUME NEW v \in Workers, NEW i \in 1..Len(wire'[v]), wire'[v][i].kind = "request",
                      NEW q, q = wire'[v][i].id
               PROVE  /\ v = Target[q] /\ work'[q] = "none" /\ Asked(q)'
                      /\ \A j \in 1..Len(wire'[v]) : wire'[v][j].kind = "request" /\ wire'[v][j].id = q => i = j
    BY DEF RequestsOnce
  <2>1. wire' = wire /\ work' = work
    OBVIOUS
  <2>2. /\ v = Target[q] /\ work[q] = "none" /\ Asked(q) /\ q \in Sessions
        /\ \A j \in 1..Len(wire[v]) : wire[v][j].kind = "request" /\ wire[v][j].id = q => i = j
    BY <1>5, <2>1 DEF AskedOnce, RequestsOnce
  <2>3. QED
    BY <1>4, <2>1, <2>2
<1>7. \A r \in Sessions : Unheard(r) => Unheard(r)'
  BY DEF Unheard
<1>8. \A r \in Sessions : ~Asked(r) => Unheard(r) /\ work[r] = "none"
  BY DEF AskedOnce, IdleBefore
<1>9. \A r \in Sessions : ~Asked(r) => got'[r] = got[r] /\ result'[r] = result[r]
  <2>1. inbox[1].id = s => Asked(s)
    BY <1>8 DEF Unheard
  <2>2. QED
    <3>1. CASE inbox[1].id = s
      <4>1. \A r \in Sessions \ {s} : got'[r] = got[r] /\ result'[r] = result[r]
        <5>1. CASE TakesNext(s)
          BY <5>1 DEF TakesNext, TypeOK
        <5>2. CASE Ends(s)
          BY <5>2 DEF Ends, TypeOK
        <5>3. QED
          BY <3>1, <5>1, <5>2 DEF Skips
      <4>2. QED
        BY <2>1, <3>1, <4>1
    <3>2. CASE inbox[1].id # s
      BY <3>2 DEF TakesNext, Ends, Skips
    <3>3. QED
      BY <3>1, <3>2
<1>10. IdleBefore'
  BY <1>4, <1>7, <1>9 DEF AskedOnce, IdleBefore
<1>11. FinalIsLast'
  BY DEF FinalIsLast, Final
<1>12. AloneIfUndisturbed'
  BY <1>3 DEF AloneIfUndisturbed
<1>13. QED
  BY <1>2, <1>6, <1>10, <1>11, <1>12 DEF AskedOnce

LEMMA ReadsInOrder ==
  ASSUME Inv, NEW s \in Sessions, SessionReads(s)
  PROVE  InOrder'
<1> USE DEF Inv
<1>0. /\ TakesNext(s) \/ Ends(s) \/ Skips(s)
      /\ UNCHANGED made
      /\ inbox' \in Seq(Replies) /\ 1 \in 1..Len(inbox) /\ inbox[1] \in Replies
      /\ Len(inbox) \in Nat /\ Len(inbox') = Len(inbox) - 1
      /\ \A i \in 1..Len(inbox') : i + 1 \in 1..Len(inbox) /\ inbox'[i] = inbox[i + 1]
  BY ReadForms
<1> USE <1>0
<1>1. inbox[1].id \in Sessions /\ inbox[1].n \in Nat
  BY DEF Replies
<1>2. \A i \in 1..Len(inbox') : inbox'[i].id \in Sessions /\ inbox'[i].n \in Nat
  <2>1. \A i \in 1..Len(inbox') : inbox'[i] \in Replies
    OBVIOUS
  <2>2. QED
    BY <2>1 DEF Replies
<1>3. ASSUME NEW q \in Sessions
      PROVE  Last(q)' = Last(q) \/ (TakesNext(s) /\ q = s /\ Last(q)' = inbox[1].n)
  <2>1. CASE TakesNext(s)
    BY <1>1, <2>1, TakenLast
  <2>2. CASE ~TakesNext(s)
    BY <2>2 DEF Ends, Skips, Last
  <2>3. QED
    BY <2>1, <2>2
<1>4. \A q \in Sessions : Last(q)' <= made'[q]
  BY <1>3 DEF InOrder, TakesNext
<1>5. ASSUME NEW i \in 1..Len(inbox'), inbox'[i].kind = "token", NEW q \in Sessions, q = inbox'[i].id
      PROVE  Last(q)' < inbox'[i].n /\ inbox'[i].n <= made'[q]
  <2>1. i + 1 \in 1..Len(inbox) /\ inbox'[i] = inbox[i + 1] /\ 1 < i + 1
    <3>1. i + 1 \in 1..Len(inbox) /\ inbox'[i] = inbox[i + 1]
      BY Zenon
    <3>2. QED
      BY <3>1
  <2>2. Last(q) < inbox[i + 1].n /\ inbox[i + 1].n <= made[q]
    BY <1>5, <2>1 DEF InOrder
  <2>3. CASE TakesNext(s) /\ q = s /\ Last(q)' = inbox[1].n
    BY <1>5, <2>1, <2>2, <2>3 DEF InOrder, TakesNext
  <2>4. QED
    BY <1>3, <2>1, <2>2, <2>3
<1>6. \A i \in 1..Len(inbox') : inbox'[i].kind = "token" =>
        (Last(inbox[i].id) < inbox[i].n)' /\ (inbox[i].n <= made[inbox[i].id])'
  BY <1>2, <1>5 DEF Last
<1>7. \A i, j \in 1..Len(inbox') :
        i < j /\ inbox'[i].kind = "token" /\ inbox'[j].kind = "token" /\ inbox'[i].id = inbox'[j].id
          => inbox'[i].n < inbox'[j].n
  <2> SUFFICES ASSUME NEW i \in 1..Len(inbox'), NEW j \in 1..Len(inbox'), i < j,
                      inbox'[i].kind = "token", inbox'[j].kind = "token", inbox'[i].id = inbox'[j].id
               PROVE  inbox'[i].n < inbox'[j].n
    BY Zenon
  <2>1. /\ i + 1 \in 1..Len(inbox) /\ inbox'[i] = inbox[i + 1]
        /\ j + 1 \in 1..Len(inbox) /\ inbox'[j] = inbox[j + 1]
    BY Zenon
  <2>2. i + 1 < j + 1
    OBVIOUS
  <2>3. QED
    BY <2>1, <2>2 DEF InOrder
<1>8. QED
  BY <1>4, <1>6, <1>7 DEF InOrder

\* What follows in the inbox follows what the caller has by then.
LEMMA ReadsComing ==
  ASSUME Inv, NEW s \in Sessions, SessionReads(s), Handed(s), Coming(s),
         \/ Skips(s) \/ (TakesNext(s) /\ inbox[1].n = Len(got[s]) + 1)
  PROVE  Coming(s)'
<1> USE DEF Inv
<1>1. /\ UNCHANGED <<link, made>>
      /\ Len(inbox) \in Nat /\ Len(inbox') = Len(inbox) - 1 /\ 1 \in 1..Len(inbox)
      /\ \A i \in 1..Len(inbox') : i + 1 \in 1..Len(inbox) /\ inbox'[i] = inbox[i + 1]
      /\ inbox[1].n \in Nat
  BY ReadForms DEF Replies
<1>2. Len(got[s]) \in Nat /\ made[s] \in Nat
  BY DEF TypeOK
<1>3. \A n \in Nat : Token(1, s, n) => n = Len(got[s]) + 1 /\ TakesNext(s)
  BY DEF Token, TakesNext, Skips
<1>4. Len(got'[s]) = IF TakesNext(s) THEN Len(got[s]) + 1 ELSE Len(got[s])
  <2>1. CASE TakesNext(s)
    <3>1. got'[s] = Append(got[s], inbox[1].n) /\ got[s] \in Seq(Nat)
      BY <1>1, <2>1, TakenLast DEF TypeOK
    <3>2. QED
      BY <1>1, <2>1, <3>1, AppendedType
  <2>2. CASE ~TakesNext(s)
    BY <2>2 DEF Skips
  <2>3. QED
    BY <2>1, <2>2
<1>5. \A i \in 1..Len(inbox'), n \in Nat : Token(i, s, n)' <=> Token(i + 1, s, n)
  BY <1>1 DEF Token
<1>6. \A i \in 1..Len(inbox') : Final(i, s)' <=> Final(i + 1, s)
  BY <1>1 DEF Final
<1>7. ASSUME NEW n \in Nat, n > Len(got'[s]), NEW j \in 1..Len(inbox), Token(j, s, n)
      PROVE  j - 1 \in 1..Len(inbox') /\ Token(j - 1, s, n)'
  <2>1. j # 1
    BY <1>2, <1>3, <1>4, <1>7
  <2>2. j - 1 \in 1..Len(inbox') /\ (j - 1) + 1 = j
    BY <1>1, <2>1
  <2>3. QED
    BY <1>5, <1>7, <2>2
<1>8. ASSUME NEW i \in 1..Len(inbox'), NEW n \in Nat, Token(i, s, n)', n > Len(got'[s]) + 1
      PROVE  \E j \in 1..Len(inbox') : j < i /\ Token(j, s, n - 1)'
  <2>1. i + 1 \in 1..Len(inbox) /\ Token(i + 1, s, n) /\ n > Len(got[s]) + 1
    BY <1>1, <1>2, <1>4, <1>5, <1>8
  <2>2. PICK j \in 1..Len(inbox) : j < i + 1 /\ Token(j, s, n - 1)
    BY <2>1 DEF Coming
  <2>3. n - 1 \in Nat /\ n - 1 > Len(got'[s])
    BY <1>2, <1>4, <1>8
  <2>4. j - 1 \in 1..Len(inbox') /\ Token(j - 1, s, n - 1)'
    BY <1>7, <2>2, <2>3
  <2>5. QED
    BY <2>2, <2>4
<1>9. ASSUME NEW i \in 1..Len(inbox'), Final(i, s)', NEW n \in Len(got'[s]) + 1 .. made[s]
      PROVE  \E j \in 1..Len(inbox') : j < i /\ Token(j, s, n)'
  <2>0. n \in Len(got[s]) + 1 .. made[s]
    BY <1>2, <1>4
  <2>1. i + 1 \in 1..Len(inbox) /\ Final(i + 1, s) /\ n \in Len(got[s]) + 1 .. made[s]
    BY <1>1, <1>6, <1>9, <2>0, Zenon
  <2>2. PICK j \in 1..Len(inbox) : j < i + 1 /\ Token(j, s, n)
    BY <2>1 DEF Coming
  <2>3. n \in Nat /\ n > Len(got'[s])
    BY <1>2, <1>4
  <2>4. j - 1 \in 1..Len(inbox') /\ Token(j - 1, s, n)'
    BY <1>7, <2>2, <2>3
  <2>5. QED
    BY <2>2, <2>4
<1>10. ASSUME Target[s] \in Dialled, link[Target[s]] = "up", NEW n \in Len(got'[s]) + 1 .. made[s]
       PROVE  \E j \in 1..Len(inbox') : Token(j, s, n)'
  <2>1. n \in Len(got[s]) + 1 .. made[s] /\ n \in Nat /\ n > Len(got'[s])
    BY <1>2, <1>4
  <2>2. PICK j \in 1..Len(inbox) : Token(j, s, n)
    BY <1>10, <2>1 DEF Coming
  <2>3. QED
    BY <1>7, <2>1, <2>2
<1>11. QED
  BY <1>1, <1>8, <1>9, <1>10 DEF Coming

LEMMA ReadsInv ==
  ASSUME Inv, NEW s \in Sessions, SessionReads(s), UNCHANGED <<asked, chosen>>
  PROVE  Inv'
<1> USE DEF Inv
<1>1. TypeOK' /\ AskedOnce' /\ FinalIsLast' /\ AloneIfUndisturbed' /\ InOrder'
  BY ReadsAsked, ReadsInOrder
<1>2. UNCHANGED <<disturbed, work, made>> /\ Reading(s)
  BY ReadForms
<1>3. ASSUME NEW r \in Sessions \ {s}, ~disturbed'[r]
      PROVE  Handed(r)' /\ (Reading(r)' => Coming(r)')
  <2>1. ~Reading(r)
    BY <1>2, <1>3 DEF AloneIfUndisturbed
  <2>2. /\ reader'[r] = reader[r] /\ got'[r] = got[r] /\ result'[r] = result[r]
    <3>1. CASE TakesNext(s)
      BY <3>1 DEF TakesNext, TypeOK
    <3>2. CASE Ends(s)
      BY <3>2 DEF Ends, TypeOK
    <3>3. CASE Skips(s)
      BY <3>3 DEF Skips
    <3>4. QED
      BY <3>1, <3>2, <3>3, ReadForms
  <2>3. Handed(r)
    BY <1>2, <1>3 DEF Whole
  <2>4. QED
    BY <1>2, <2>1, <2>2, <2>3 DEF Handed, Reading
<1>4. ASSUME ~disturbed'[s]
      PROVE  Handed(s)' /\ (Reading(s)' => Coming(s)')
  <2>1. Handed(s) /\ Coming(s)
    BY <1>2, <1>4 DEF Whole
  <2>2. /\ 1 \in 1..Len(inbox) /\ inbox[1].n \in Nat /\ got[s] \in Seq(Nat) /\ Len(got[s]) \in Nat
        /\ made[s] \in Nat
    <3>1. 1 \in 1..Len(inbox) /\ inbox[1] \in Replies
      BY ReadForms
    <3>2. inbox[1].n \in Nat
      BY <3>1 DEF Replies
    <3>3. got[s] \in Seq(Nat) /\ made[s] \in Nat
      BY DEF TypeOK
    <3>4. Len(got[s]) \in Nat
      BY <3>3
    <3>5. QED
      BY <3>1, <3>2, <3>3, <3>4
  <2>3. Last(s) = Len(got[s])
    BY <2>1, <2>2 DEF Last, Handed
  <2>4. CASE TakesNext(s)
    <3>1. inbox[1].kind = "token" /\ inbox[1].id = s /\ reader' = reader /\ result' = result
      BY <2>4 DEF TakesNext
    <3>2. Last(s) < inbox[1].n /\ inbox[1].n <= made[s]
      BY <2>2, <3>1 DEF InOrder
    <3>3. ~(inbox[1].n > Len(got[s]) + 1)
      BY <2>1, <2>2, <3>1 DEF Coming, Token
    <3>4. inbox[1].n = Len(got[s]) + 1
      BY <2>2, <2>3, <3>2, <3>3
    <3>5. Coming(s)'
      BY <2>1, <2>4, <3>4, ReadsComing
    <3>6. got'[s] = Append(got[s], Len(got[s]) + 1)
      BY <2>2, <2>4, <3>4, TakenLast
    <3>7. result[s] # "complete"
      BY <2>1, <2>2, <3>2, <3>4 DEF Handed
    <3>8. \A i \in 1..Len(got'[s]) : got'[s][i] = i
      BY <2>1, <2>2, <3>6, AppendedType DEF Handed
    <3>9. QED
      BY <3>1, <3>5, <3>7, <3>8 DEF Handed
  <2>5. CASE Ends(s)
    <3>1. PICK how \in {"error", "dropped", "complete"} :
            result' = [result EXCEPT ![s] = how] /\ (how = "complete" => Final(1, s))
      BY <2>5 DEF Ends
    <3>2. got' = got /\ reader'[s] = "closing"
      BY <2>5 DEF Ends, TypeOK
    <3>3. ASSUME how = "complete"
          PROVE  Len(got[s]) = made[s] /\ work[s] \in {"summary", "ended"}
      <4>1. work[s] \in {"summary", "ended"}
        BY <2>2, <3>1, <3>3 DEF FinalIsLast
      <4>2. \A n \in Len(got[s]) + 1 .. made[s] : \E j \in 1..Len(inbox) : j < 1 /\ Token(j, s, n)
        BY <2>1, <2>2, <3>1, <3>3 DEF Coming
      <4>3. Len(got[s]) + 1 .. made[s] = {}
        BY <4>2
      <4>4. Len(got[s]) <= made[s]
        BY <2>3 DEF InOrder
      <4>5. QED
        BY <2>2, <4>1, <4>3, <4>4
    <3>4. result'[s] = how
      BY <3>1 DEF TypeOK
    <3>5. Handed(s)'
      BY <1>2, <2>1, <3>2, <3>3, <3>4 DEF Handed
    <3>6. QED
      BY <3>2, <3>5 DEF Reading
  <2>6. CASE Skips(s)
    <3>1. Coming(s)'
      BY <2>1, <2>6, ReadsComing
    <3>2. QED
      BY <1>2, <2>1, <2>6, <3>1 DEF Handed, Skips
  <2>7. QED
    BY <2>4, <2>5, <2>6, ReadForms
<1>5. Whole'
  BY <1>3, <1>4 DEF Whole
<1>6. QED
  BY <1>1, <1>5

\* The release, and the caller that leaves.
LEMMA CloseInv ==
  ASSUME Inv, NEW s \in Sessions, Release(s) \/ CallerLeaves(s), UNCHANGED <<asked, chosen>>
  PROVE  Inv'
<1> USE DEF Inv
<1>1. UNCHANGED <<result, got, disturbed, inbox, link, work, made, asked, chosen>>
  BY DEF Release, CallerLeaves, workerVars
<1>2. \/ reader' = reader
      \/ reader[s] = "closing" /\ reader' = [reader EXCEPT ![s] = "over"]
  BY DEF Release, CallerLeaves
<1>3. dropped' \in [Sessions -> BOOLEAN]
  BY DEF Release, CallerLeaves, TypeOK
<1>4. wire' \in [Workers -> Seq(Orders)] /\ RequestsOnce'
  <2>1. \A r \in Sessions : Asked(r)' <=> Asked(r)
    BY <1>1, <1>2 DEF Asked, TypeOK
  <2>2. CASE Release(s)
    <3>1. Msg("release", s, 0) \in Orders /\ Msg("release", s, 0).kind = "release" /\ Target[s] \in Workers
      BY MsgType
    <3>2. ToWorkers({Target[s]}, Msg("release", s, 0))
      BY <2>2 DEF Release
    <3>3. QED
      BY <1>1, <2>1, <3>1, <3>2, Ordered, WireKeepsOnce DEF AskedOnce
  <2>3. CASE CallerLeaves(s)
    <3>1. reader' = reader /\ wire' = wire
      BY <2>3 DEF CallerLeaves
    <3>2. QED
      BY <1>1, <3>1 DEF TypeOK, AskedOnce, RequestsOnce, Asked
  <2>4. QED
    BY <2>2, <2>3
<1>5. TypeOK'
  BY <1>1, <1>2, <1>3, <1>4 DEF TypeOK
<1>6. \A r \in Sessions : (Asked(r)' <=> Asked(r)) /\ (Reading(r)' <=> Reading(r))
  BY <1>1, <1>2 DEF Asked, Reading, TypeOK
<1>7. IdleBefore'
  BY <1>1, <1>6 DEF AskedOnce, IdleBefore, Unheard
<1>8. InOrder' /\ FinalIsLast'
  BY <1>1 DEF InOrder, Last, FinalIsLast, Final
<1>9. AloneIfUndisturbed'
  BY <1>1, <1>6 DEF AloneIfUndisturbed
<1>10. Whole'
  BY <1>1, <1>6 DEF Whole, Handed, Coming, Token, Final
<1>11. QED
  BY <1>4, <1>5, <1>7, <1>8, <1>9, <1>10 DEF AskedOnce

-----------------------------------------------------------------------------
LEMMA InitInv == Init => Inv
<1> SUFFICES ASSUME Init
             PROVE  Inv
  OBVIOUS
<1> USE DEF Init, NoCalls
<1>1. TypeOK
  BY DEF TypeOK
<1>2. Len(inbox) = 0 /\ \A w \in Workers : Len(wire[w]) = 0
  OBVIOUS
<1>3. AskedOnce
  BY <1>2 DEF AskedOnce, RequestsOnce, IdleBefore, Unheard
<1>4. InOrder /\ FinalIsLast
  BY <1>2 DEF InOrder, Last, FinalIsLast
<1>5. AloneIfUndisturbed
  BY DEF AloneIfUndisturbed, Reading
<1>6. Whole
  BY DEF Whole, Handed, Reading
<1>7. QED
  BY <1>1, <1>3, <1>4, <1>5, <1>6 DEF Inv

\* The steps of Next by what they do to the sessions.
LEMMA NextCases ==
  ASSUME [Next]_allVars
  PROVE  \/ \E s \in Calls : Call(s)
         \/ \E t \in Turns : Asks(t)
         \/ \E s \in Sessions :
              /\ UNCHANGED <<asked, chosen>>
              /\ \/ SessionReads(s) \/ Release(s) \/ CallerLeaves(s)
                 \/ WorkerToken(s) \/ WorkerFails(s) \/ WorkerDone(s) \/ WorkerComplete(s)
         \/ \E w \in Workers : UNCHANGED <<asked, chosen>> /\ DaemonReceives(w)
         \/ (\E w \in Workers : LinkBreaks(w) /\ Apart) \/ Connects
         \/ \E w \in Contributors : Exits(w)
         \/ Quiet
<1>1. CASE UNCHANGED allVars
  BY <1>1 DEF allVars, commandVars, runVars, Quiet
<1>2. Apart => UNCHANGED <<asked, chosen>>
  BY DEF Apart, commandVars, runVars
<1>3. CASE Next
  BY <1>2, <1>3, QuietSteps DEF Next, Contribute
<1>4. QED
  BY <1>1, <1>3

LEMMA InvStep == Inv /\ [Next]_allVars => Inv'
  BY NextCases, RequestInv, AsksInv, ReadsInv, CloseInv, TokenInv, EndsInv, DaemonInv, LinksInv,
     ExitsInv, QuietInv

\* Types, and what the inbox and the wires hold for each session.
THEOREM Invariant == Spec => []Inv
  BY InitInv, InvStep, PTL DEF Spec

\* handle_request, stream_tokens_replicated: whoever else uses the node's transport, and
\* whatever connection breaks, a session that had the inbox to itself has handed over the
\* tokens without a gap, and all of them when it ends without an error.
THEOREM WholeIfAlone == Spec => []UndisturbedIsWhole
<1>1. Inv => UndisturbedIsWhole
  BY DEF Inv, Whole, Handed, UndisturbedIsWhole
<1>2. QED
  BY <1>1, Invariant, PTL

-----------------------------------------------------------------------------
(* Refinement of TokenStream.                                              *)

\* The abstract variables: what is made, the last token handed over, the end.
last == [s \in Sessions |-> Last(s)]
over == [s \in Sessions |-> Over(s)]

\* A step that TokenStream does not see, and the three it sees.
Unseen == UNCHANGED made /\ UNCHANGED last /\ UNCHANGED over

Makes(s) == made' = [made EXCEPT ![s] = @ + 1] /\ UNCHANGED last /\ UNCHANGED over

Delivers(s) ==
  /\ ~over[s]
  /\ \E n \in last[s] + 1 .. made[s] : last' = [last EXCEPT ![s] = n]
  /\ UNCHANGED made /\ UNCHANGED over

Closes(s) ==
  /\ ~over[s]
  /\ over' = [over EXCEPT ![s] = TRUE]
  /\ UNCHANGED made /\ UNCHANGED last

LEMMA LastSame == UNCHANGED got => UNCHANGED last
  BY DEF last, Last

LEMMA OverSame ==
  ASSUME \A s \in Sessions : Over(s)' <=> Over(s)
  PROVE  UNCHANGED over
<1>1. \A s \in Sessions : Over(s)' = Over(s)
  BY DEF Over
<1>2. QED
  BY <1>1, Zenon DEF over

LEMMA StreamClose ==
  ASSUME Inv, NEW s \in Sessions, ~Over(s),
         \E at \in {"closing", "over"} : reader' = [reader EXCEPT ![s] = at],
         UNCHANGED <<got, made>>
  PROVE  Closes(s)
<1>1. UNCHANGED last
  BY LastSame
<1>2. ~over[s]
  BY DEF over
<1>3. \A r \in Sessions : Over(r)' = (IF r = s THEN TRUE ELSE Over(r))
  BY DEF Over, Inv, TypeOK
<1>4. over' = [over EXCEPT ![s] = TRUE]
  BY <1>3, Zenon DEF over
<1>5. QED
  BY <1>1, <1>2, <1>4 DEF Closes

\* A step that leaves what was made and handed over, and ends no session.
LEMMA StreamStutter ==
  ASSUME UNCHANGED <<got, made>>, \A s \in Sessions : Over(s)' <=> Over(s)
  PROVE  Unseen
  BY LastSame, OverSame DEF Unseen

LEMMA StreamCall ==
  ASSUME Inv, NEW s \in Calls, Call(s)
  PROVE  Unseen \/ Closes(s)
<1>1. /\ s \in Sessions /\ reader[s] = "new" /\ UNCHANGED <<got, made>>
      /\ \/ reader' = [reader EXCEPT ![s] = "reading"]
         \/ reader' = [reader EXCEPT ![s] = "over"]
  BY DEF Call, Request, Calls, workerVars
<1>2. reader \in [Sessions -> {"new", "reading", "closing", "over"}]
  BY DEF Inv, TypeOK
<1>3. CASE reader' = [reader EXCEPT ![s] = "reading"]
  <2>1. \A r \in Sessions : Over(r)' <=> Over(r)
    BY <1>1, <1>2, <1>3 DEF Over
  <2>2. QED
    BY <1>1, <2>1, StreamStutter
<1>4. CASE reader' = [reader EXCEPT ![s] = "over"]
  <2>1. ~Over(s)
    BY <1>1, <1>2 DEF Over
  <2>2. QED
    BY <1>1, <1>4, <2>1, StreamClose
<1>5. QED
  BY <1>1, <1>3, <1>4

LEMMA StreamRead ==
  ASSUME Inv, NEW s \in Sessions, SessionReads(s)
  PROVE  Unseen \/ Delivers(s) \/ Closes(s)
<1> USE DEF Inv
<1>1. /\ Reading(s) /\ UNCHANGED made
      /\ TakesNext(s) \/ Ends(s) \/ Skips(s)
      /\ 1 \in 1..Len(inbox) /\ inbox[1] \in Replies
  BY ReadForms
<1>2. ~Over(s)
  BY <1>1 DEF Over, Reading
<1>3. CASE TakesNext(s)
  <2>1. inbox[1].n \in Nat /\ made[s] \in Nat /\ Last(s) \in Nat
    BY <1>1, OrderedLast DEF Replies, TypeOK
  <2>2. inbox[1].n \in Last(s) + 1 .. made[s]
    BY <1>1, <1>3, <2>1 DEF InOrder, TakesNext
  <2>3. \A r \in Sessions : Last(r)' = IF r = s THEN inbox[1].n ELSE Last(r)
    BY <1>3, <2>1, TakenLast
  <2>4. last' = [last EXCEPT ![s] = inbox[1].n] /\ last[s] = Last(s)
    BY <2>3 DEF last
  <2>5. reader' = reader
    BY <1>3 DEF TakesNext
  <2>6. UNCHANGED over
    BY <2>5, OverSame DEF Over
  <2>7. ~over[s]
    BY <1>2 DEF over
  <2>8. inbox[1].n \in last[s] + 1 .. made[s]
    BY <2>2, <2>4
  <2>9. QED
    BY <1>1, <2>4, <2>6, <2>7, <2>8, Zenon DEF Delivers
<1>4. CASE Ends(s)
  <2>1. reader' = [reader EXCEPT ![s] = "closing"] /\ UNCHANGED <<got, made>>
    BY <1>1, <1>4 DEF Ends
  <2>2. QED
    BY <1>2, <2>1, StreamClose
<1>5. CASE Skips(s)
  <2>1. UNCHANGED <<got, made, reader>>
    BY <1>1, <1>5 DEF Skips
  <2>2. \A r \in Sessions : Over(r)' <=> Over(r)
    BY <2>1 DEF Over
  <2>3. QED
    BY <2>1, <2>2, StreamStutter
<1>6. QED
  BY <1>1, <1>3, <1>4, <1>5

LEMMA StreamStep ==
  ASSUME Inv, [Next]_allVars
  PROVE  Unseen \/ \E s \in Sessions : Makes(s) \/ Delivers(s) \/ Closes(s)
<1>1. CASE \E s \in Calls : Call(s)
  BY <1>1, StreamCall DEF Calls
<1>2. ASSUME NEW s \in Sessions, SessionReads(s)
      PROVE  Unseen \/ Delivers(s) \/ Closes(s)
  BY <1>2, StreamRead
<1>3. ASSUME NEW s \in Sessions, Release(s)
      PROVE  Unseen
  <2>1. UNCHANGED <<got, made>> /\ reader[s] = "closing" /\ reader' = [reader EXCEPT ![s] = "over"]
    BY <1>3 DEF Release, workerVars
  <2>2. \A r \in Sessions : Over(r)' <=> Over(r)
    BY <2>1 DEF Over, Inv, TypeOK
  <2>3. QED
    BY <2>1, <2>2, StreamStutter
<1>4. ASSUME NEW s \in Sessions, WorkerToken(s)
      PROVE  Makes(s)
  <2>1. made' = [made EXCEPT ![s] = @ + 1] /\ UNCHANGED <<got, reader>>
    BY <1>4 DEF WorkerToken, callVars
  <2>2. UNCHANGED over
    BY <2>1, OverSame DEF Over
  <2>3. QED
    BY <2>1, <2>2, LastSame DEF Makes
<1>5. ASSUME UNCHANGED <<got, made, reader>>
      PROVE  Unseen
  BY <1>5, StreamStutter DEF Over
<1>6. ASSUME NEW s \in Sessions, CallerLeaves(s) \/ WorkerFails(s) \/ WorkerDone(s) \/ WorkerComplete(s)
      PROVE  UNCHANGED <<got, made, reader>>
  BY <1>6 DEF CallerLeaves, WorkerFails, WorkerDone, WorkerComplete, callVars, workerVars
<1>7. ASSUME \/ \E t \in Turns : Asks(t)
             \/ \E w \in Workers : DaemonReceives(w) \/ LinkBreaks(w)
             \/ Connects \/ Quiet
             \/ \E w \in Contributors : Exits(w)
      PROVE  UNCHANGED <<got, made, reader>>
  BY <1>7 DEF Asks, DaemonReceives, LinkBreaks, Connects, Quiet, Exits, callVars, workerVars, vars
<1>8. QED
  BY <1>1, <1>2, <1>3, <1>4, <1>5, <1>6, <1>7, NextCases

\* stream_tokens_replicated, handle_request: every session is a TokenStream, however
\* many share the inbox and whatever breaks: its caller gets its own tokens only, in the
\* order they were made, none twice and none after the end.
THEOREM Refines == Spec => IsTokenStream
<1>1. Init => Stream!Init
  <2> SUFFICES ASSUME Init
               PROVE  Stream!Init
    OBVIOUS
  <2> USE DEF Init, NoCalls
  <2>1. [s \in Sessions |-> IF got[s] = << >> THEN 0 ELSE got[s][Len(got[s])]] = [s \in Sessions |-> 0]
    OBVIOUS
  <2>a. \A s \in Sessions : ~Over(s)
    BY DEF Over
  <2>2. \A s \in Sessions : Over(s) = FALSE
    <3> SUFFICES ASSUME NEW s \in Sessions
                 PROVE  Over(s) = FALSE
      OBVIOUS
    <3>1. (Over(s) = FALSE) <=> ~Over(s)
      BY ONLY DEF Over
    <3>2. QED
      BY <2>a, <3>1
  <2>3. [s \in Sessions |-> Over(s)] = [s \in Sessions |-> FALSE]
    BY <2>2, Zenon
  <2>4. QED
    BY <2>1, <2>3 DEF Stream!Init
<1>2. Inv /\ [Next]_allVars => [Stream!Next]_(Stream!vars)
  <2> SUFFICES ASSUME Inv, [Next]_allVars
               PROVE  [Stream!Next]_(Stream!vars)
    OBVIOUS
  <2>1. CASE Unseen
    BY <2>1 DEF Unseen, Stream!vars, last, Last, over
  <2>2. ASSUME NEW s \in Sessions, Makes(s)
        PROVE  Stream!Make(s)
    BY <2>2 DEF Makes, Stream!Make, last, Last, over
  <2>3. ASSUME NEW s \in Sessions, Delivers(s)
        PROVE  Stream!Deliver(s)
    BY <2>3 DEF Delivers, Stream!Deliver, last, Last, over
  <2>4. ASSUME NEW s \in Sessions, Closes(s)
        PROVE  Stream!Close(s)
    BY <2>4 DEF Closes, Stream!Close, last, Last, over
  <2>5. QED
    BY <2>1, <2>2, <2>3, <2>4, StreamStep DEF Stream!Next
<1>3. QED
  BY <1>1, <1>2, Invariant, PTL DEF Spec, IsTokenStream, Stream!Spec

=============================================================================
