-------------------------------- MODULE Chat --------------------------------
(***************************************************************************)
(* The chat of the desktop application: the page (pages/Chat.tsx with the  *)
(* hooks useChat and useConversations), the commands it calls              *)
(* (commands/inference.rs, commands/chat.rs, connect_mesh_peer) and the    *)
(* database of conversations (hivebear-persistence).                       *)
(*                                                                         *)
(* The page runs on one thread, and anything may happen where it awaits a  *)
(* command.  stream_chat sends every token as an event of the window, in   *)
(* order and without a name of the stream; its answer may overtake them.   *)
(* A page that is left goes on with what it awaits, and the next visit     *)
(* starts with fresh state.  What the page displays, and the order of the  *)
(* conversations and of their messages, are left out.                      *)
(***************************************************************************)
EXTENDS Naturals, Sequences, FiniteSets

CONSTANTS
  Turns,      \* bound: messages sent, replies regenerated, prompts edited
  Convs,      \* conversations there may be
  Old,        \* those of an earlier run
  Models,     \* handles of the loaded models
  Peers,      \* handles of the sessions with mesh peers
  AsNumber,   \* handle |-> what the page, which holds it as a number, sends back
  Visits,     \* bound: visits of the page
  MaxTokens,  \* bound: turn |-> tokens of its reply
  Nothing

ASSUME ChatAssumption ==
  /\ Old \subseteq Convs
  /\ Visits \in Nat \ {0}
  /\ MaxTokens \in [Turns -> Nat]
  /\ DOMAIN AsNumber = Models \cup Peers
  /\ Nothing \notin Turns \cup Convs

VARIABLES
  convs,     \* conversations in the database
  rows,      \* messages in the database
  used,      \* conversations created so far
  stream,    \* turn |-> where its stream_chat stands
  made,      \* turn |-> tokens its stream has produced
  events,    \* tokens on their way to the window
  visit,     \* the visit of the page that the user sees
  page,      \* visit |-> state and refs of useChat
  listening, \* turns whose listener of chat-token is registered
  turn,      \* turn |-> where its handler stands, with what it has captured
  mixed,     \* turns that ran beside another, or beside what is left of one
  pressed,   \* of the others, those during which stop was pressed
  unsaved    \* turns whose reply could not be stored

dbVars   == <<convs, rows, used>>
backVars == <<stream, made>>
ghosts   == <<mixed, pressed, unsaved>>
vars     == <<dbVars, backVars, events, visit, page, listening, turn, ghosts>>

Tokens(t, n) == [i \in 1..n |-> <<t, i>>]

\* slot: the turn whose listener is in unlistenRefs.current, an object that stop
\* and the end of every turn replace.
FreshPage == [streaming |-> FALSE, stop |-> FALSE, buffer |-> << >>, slot |-> Nothing]

\* held: the object that the turn will put its listener into is still current.
NoTurn == [at |-> "new", visit |-> 1, conv |-> Nothing, held |-> FALSE, reply |-> << >>]

Idle(t) == turn[t].at = "new"
Sending(t) == turn[t].at \in {"listen", "stream"}
Page(t) == page[turn[t].visit]

-----------------------------------------------------------------------------
(* Slips a change of the code could make, each the mutant of the definition  *)
(* it is named after                                                         *)

\* The buffer of the turn before is kept.
ClearedButBuffer(p) == [p EXCEPT !.stop = FALSE, !.streaming = TRUE]

\* A stopped turn returns its buffer, though there may be nothing in it.
ReplyOfStopped(t) ==
  IF Page(t).stop THEN Page(t).buffer
  ELSE IF stream[t] = "ok" THEN Tokens(t, made[t]) ELSE << >>

\* Foreign keys are not enforced.
AddsToAny(t, role, text) ==
  /\ rows' = rows \cup {[conv |-> turn[t].conv, role |-> role, turn |-> t, text |-> text]}
  /\ UNCHANGED <<convs, used, unsaved>>

\* The end of a turn does not give the input back.
UnlistensOnly(v, p) ==
  /\ listening' = listening \ {page[v].slot}
  /\ page' = [page EXCEPT ![v] = [p EXCEPT !.slot = Nothing]]

-----------------------------------------------------------------------------
Init ==
  /\ convs = Old /\ used = Old /\ rows = {}
  /\ stream = [t \in Turns |-> "none"]
  /\ made = [t \in Turns |-> 0]
  /\ events = << >>
  /\ visit = 1
  /\ page = [v \in 1..Visits |-> FreshPage]
  /\ listening = {}
  /\ turn = [t \in Turns |-> NoTurn]
  /\ mixed = {} /\ pressed = {} /\ unsaved = {}

-----------------------------------------------------------------------------
(* The database: one connection behind a lock, foreign keys enforced *)

\* create_conversation, with a fresh id.
Creates(c) ==
  /\ c \notin used
  /\ used' = used \cup {c}
  /\ convs' = convs \cup {c}
  /\ UNCHANGED rows

\* add_message of turn t: the key of a conversation that is gone is refused, and
\* any write may fail.  Both leave nothing behind.
AddsMessage(t, role, text) ==
  LET c == turn[t].conv IN
  /\ UNCHANGED <<convs, used>>
  /\ \/ /\ c \in convs
        /\ rows' = rows \cup {[conv |-> c, role |-> role, turn |-> t, text |-> text]}
        /\ UNCHANGED unsaved
     \/ /\ unsaved' = IF role = "assistant" THEN unsaved \cup {t} ELSE unsaved
        /\ UNCHANGED rows

\* delete_conversation: the messages go with it.  Whoever has captured the
\* conversation goes on with it.
Delete(c) ==
  /\ c \in convs
  /\ convs' = convs \ {c}
  /\ rows' = {r \in rows : r.conv # c}
  /\ UNCHANGED <<used, backVars, events, visit, page, listening, turn, ghosts>>

-----------------------------------------------------------------------------
(* The page.  The active conversation is whatever the user's clicks and the  *)
(* refreshes have made it, one that is deleted meanwhile included.            *)

Active == {Nothing} \cup used

\* The user goes to another page and comes back, while something is going on.
Leave ==
  /\ visit < Visits
  /\ \E t \in Turns : turn[t].at \notin {"new", "over", "refused"}
  /\ visit' = visit + 1
  /\ UNCHANGED <<dbVars, backVars, events, page, listening, turn, ghosts>>

\* The unlistenRefs object of visit v is replaced: a listen that is awaited will
\* put its listener into the old one.
Detached(v) ==
  [t \in Turns |-> IF turn[t].visit = v THEN [turn[t] EXCEPT !.held = FALSE] ELSE turn[t]]

\* Nothing runs, and nothing is left of what ran.
Clean == (\A t \in Turns : ~Sending(t)) /\ events = << >> /\ listening = {}

\* The page as send leaves it before it awaits.
Cleared(p) == [p EXCEPT !.stop = FALSE, !.streaming = TRUE, !.buffer = << >>]

\* The start of send.
Sends(t, rec) ==
  /\ turn' = [turn EXCEPT ![t] = [rec EXCEPT !.at = "listen", !.held = TRUE]]
  /\ page' = [page EXCEPT ![rec.visit] = Cleared(@)]
  /\ mixed' = IF Clean THEN mixed ELSE mixed \cup {t} \cup {q \in Turns : Sending(q)}
  /\ pressed' = pressed \ mixed'

\* A handler takes the active conversation of its render.
Taken(t, c) == [turn[t] EXCEPT !.visit = visit, !.conv = c]

\* handleSend, which the input offers while nothing streams.  What useChat.send
\* tests later is the same render's streaming.
Submit(t) ==
  /\ Idle(t) /\ ~page[visit].streaming
  /\ \E c \in Active :
       turn' = [turn EXCEPT ![t] = [Taken(t, c) EXCEPT !.at = IF c = Nothing THEN "create" ELSE "prompt"]]
  /\ UNCHANGED <<dbVars, backVars, events, visit, page, listening, ghosts>>

\* The same by a suggestion, which an empty conversation offers also while a turn
\* streams: send, of that render, will turn the prompt down.
Suggest(t) ==
  /\ Idle(t) /\ page[visit].streaming
  /\ \E c \in Active :
       turn' = [turn EXCEPT ![t] = [Taken(t, c) EXCEPT !.at = IF c = Nothing THEN "suggest" ELSE "note"]]
  /\ UNCHANGED <<dbVars, backVars, events, visit, page, listening, ghosts>>

\* regenerate and editAndResend, without a prompt to store: useChat.send turns
\* them down while something streams.
Resend(t) ==
  /\ Idle(t) /\ ~page[visit].streaming
  /\ \E c \in Active : Sends(t, Taken(t, c))
  /\ UNCHANGED <<dbVars, backVars, events, visit, listening, unsaved>>

\* create.  Without a conversation the message is sent and not stored.
Create(t) ==
  /\ turn[t].at = "create"
  /\ \/ /\ \E c \in Convs : /\ Creates(c)
                            /\ turn' = [turn EXCEPT ![t].at = "prompt", ![t].conv = c]
        /\ UNCHANGED <<page, mixed, pressed>>
     \/ Sends(t, turn[t]) /\ UNCHANGED dbVars
  /\ UNCHANGED <<backVars, events, visit, listening, unsaved>>

\* The prompt is stored, or not, and the page goes on to send.
SavePrompt(t) ==
  /\ turn[t].at = "prompt"
  /\ AddsMessage(t, "user", << >>)
  /\ Sends(t, turn[t])
  /\ UNCHANGED <<backVars, events, visit, listening>>

\* What is left of a prompt that send turns down: create, and the prompt stored.
Open(t) ==
  /\ turn[t].at = "suggest"
  /\ \/ \E c \in Convs : /\ Creates(c)
                         /\ turn' = [turn EXCEPT ![t].at = "note", ![t].conv = c]
     \/ turn' = [turn EXCEPT ![t].at = "refused"] /\ UNCHANGED dbVars
  /\ UNCHANGED <<backVars, events, visit, page, listening, ghosts>>
Note(t) ==
  /\ turn[t].at = "note"
  /\ AddsMessage(t, "user", << >>)
  /\ turn' = [turn EXCEPT ![t].at = "refused"]
  /\ UNCHANGED <<backVars, events, visit, page, listening, mixed, pressed>>

\* The listeners of chat-token and chat-error are registered and stream_chat is
\* called; a stop between the two does what it does just after.
Listen(t) ==
  /\ turn[t].at = "listen"
  /\ listening' = listening \cup {t}
  /\ page' = [page EXCEPT ![turn[t].visit].slot = IF turn[t].held THEN t ELSE @]
  /\ turn' = [turn EXCEPT ![t].at = "stream", ![t].held = FALSE]
  /\ stream' = [stream EXCEPT ![t] = "asked"]
  /\ UNCHANGED <<dbVars, made, events, visit, ghosts>>

\* Every listener appends an event to the buffer of its page, unless stopped.
Deliver ==
  LET copies(v) == IF page[v].stop THEN 0 ELSE Cardinality({t \in listening : turn[t].visit = v}) IN
  /\ events # << >>
  /\ events' = Tail(events)
  /\ page' = [v \in 1..Visits |->
                [page[v] EXCEPT !.buffer = @ \o [i \in 1..copies(v) |-> Head(events)]]]
  /\ UNCHANGED <<dbVars, backVars, visit, listening, turn, ghosts>>

\* The listener in the page's current object is removed, and the object replaced.
Unlistens(v, p) ==
  /\ listening' = listening \ {page[v].slot}
  /\ page' = [page EXCEPT ![v] = [p EXCEPT !.streaming = FALSE, !.slot = Nothing]]

\* stop: the stream itself goes on.
Stop ==
  /\ page[visit].streaming
  /\ Unlistens(visit, [page[visit] EXCEPT !.stop = TRUE])
  /\ turn' = Detached(visit)
  /\ pressed' = pressed \cup {t \in Turns \ mixed : Sending(t) /\ turn[t].visit = visit}
  /\ UNCHANGED <<dbVars, backVars, events, visit, mixed, unsaved>>

\* What send returns: the buffer when the page is stopped and has some, or else
\* the answer of stream_chat, if it is not an error.
Reply(t) ==
  IF Page(t).stop /\ Page(t).buffer # << >> THEN Page(t).buffer
  ELSE IF stream[t] = "ok" THEN Tokens(t, made[t]) ELSE << >>

\* stream_chat has answered.
Return(t) ==
  LET v == turn[t].visit
      keeps == turn[t].conv # Nothing /\ Reply(t) # << >> IN
  /\ turn[t].at = "stream" /\ stream[t] \in {"ok", "error"}
  /\ Unlistens(v, page[v])
  /\ turn' = [Detached(v) EXCEPT ![t].at = IF keeps THEN "save" ELSE "over",
                                 ![t].reply = IF keeps THEN Reply(t) ELSE << >>]
  /\ UNCHANGED <<dbVars, backVars, events, visit, ghosts>>

SaveReply(t) ==
  /\ turn[t].at = "save"
  /\ AddsMessage(t, "assistant", turn[t].reply)
  /\ turn' = [turn EXCEPT ![t].at = "over", ![t].reply = << >>]
  /\ UNCHANGED <<backVars, events, visit, page, listening, mixed, pressed>>

-----------------------------------------------------------------------------
(* stream_chat *)

Streams(t, how) ==
  /\ stream' = [stream EXCEPT ![t] = how]
  /\ UNCHANGED <<dbVars, made, events, visit, page, listening, turn, ghosts>>

\* The handle that comes back from the page is one of a loaded model, or of a
\* session with a peer, which must take the request; or of nothing.
Begin(t) ==
  /\ stream[t] = "asked"
  /\ \E h \in DOMAIN AsNumber :
       \/ AsNumber[h] \in Models \cup Peers /\ Streams(t, "running")
       \/ AsNumber[h] \notin Models /\ Streams(t, "error")

Produce(t) ==
  /\ stream[t] = "running" /\ made[t] < MaxTokens[t]
  /\ made' = [made EXCEPT ![t] = @ + 1]
  /\ events' = Append(events, <<t, made[t] + 1>>)
  /\ UNCHANGED <<dbVars, stream, visit, page, listening, turn, ghosts>>

\* The end of the stream, or an error of it: with no text it is an error.
End(t) == stream[t] = "running" /\ Streams(t, IF made[t] > 0 THEN "ok" ELSE "error")

\* A stream of a mesh peer waits for its transport without a limit: a peer that is
\* lost is never noticed.
LosePeer(t) == stream[t] = "running" /\ Peers # {} /\ Streams(t, "waiting")

-----------------------------------------------------------------------------
Handles(t) ==
  \/ Create(t) \/ SavePrompt(t) \/ Listen(t) \/ Return(t) \/ SaveReply(t)
  \/ Open(t) \/ Note(t)
Backend(t) == Begin(t) \/ Produce(t) \/ End(t)

Next ==
  \/ \E t \in Turns : Submit(t) \/ Suggest(t) \/ Resend(t) \/ Handles(t) \/ Backend(t) \/ LosePeer(t)
  \/ \E c \in Convs : Delete(c)
  \/ Leave \/ Deliver \/ Stop

Spec == Init /\ [][Next]_vars

\* The page's thread and the application's tasks run, and a model's output ends.
Fairness == \A t \in Turns : WF_vars(Handles(t)) /\ WF_vars(Backend(t))
FairSpec == Spec /\ Fairness

-----------------------------------------------------------------------------
Replies == {r \in rows : r.role = "assistant"}

\* useChat.send, handleSend: the reply stored for a turn that no other one ran
\* beside consists of the tokens of its own stream, in order and without a gap,
\* and of all of them unless the user stopped it -- whatever the turns before it
\* had left behind.
ReplyIsOwn ==
  \A r \in Replies : r.turn \notin mixed =>
    /\ r.text = Tokens(r.turn, Len(r.text)) /\ Len(r.text) <= made[r.turn]
    /\ r.turn \notin pressed => Len(r.text) = made[r.turn]

\* handleSend, add_message: the reply of a turn that has run its course is stored,
\* also when the page was left, stopped or shared: unless a write failed or its
\* conversation is gone.
ReplyIsKept ==
  \A t \in Turns :
    (turn[t].at = "over" /\ stream[t] = "ok" /\ turn[t].conv \in convs /\ t \notin unsaved)
    => \E r \in Replies : r.turn = t /\ r.conv = turn[t].conv

\* delete_conversation, add_message: no message stays or arrives for a conversation
\* that has been deleted, whoever was still writing to it.
NoOrphans == \A r \in rows : r.conv \in convs

\* useChat.send: every turn ends, or was turned down, unless it waits for a mesh
\* peer that was lost, and a page of which all turns have ended takes the next
\* input.
InputFree(v) ==
  (\A t \in Turns : turn[t].visit = v => ~Sending(t)) => ~page[v].streaming
TurnsEnd ==
  \A t \in Turns :
    ~Idle(t) ~> (turn[t].at \in {"over", "refused"} /\ InputFree(turn[t].visit)) \/ stream[t] = "waiting"

=============================================================================
