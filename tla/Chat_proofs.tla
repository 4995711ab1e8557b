---------------------------- MODULE Chat_proofs ----------------------------
(***************************************************************************)
(* Proofs about the chat for every set of turns, conversations and models, *)
(* any number of visits and replies of any length.                         *)
(***************************************************************************)
EXTENDS Chat, FiniteSetTheorems, SequenceTheorems, TLAPS

Texts == Seq(Turns \X Nat)

Rows == [conv : Convs, role : {"user", "assistant"}, turn : Turns, text : Texts]

Pages == [streaming : BOOLEAN, stop : BOOLEAN, buffer : Texts, slot : Turns \cup {Nothing}]

Handlers ==
  [at : {"new", "create", "prompt", "listen", "stream", "save", "over",
         "suggest", "note", "refused"},
   visit : 1..Visits, conv : Convs \cup {Nothing}, held : BOOLEAN, reply : Texts]

TypeOK ==
  /\ convs \subseteq used /\ used \subseteq Convs
  /\ rows \subseteq Rows
  /\ stream \in [Turns -> {"none", "asked", "running", "waiting", "ok", "error"}]
  /\ made \in [Turns -> Nat]
  /\ events \in Texts
  /\ visit \in 1..Visits
  /\ page \in [1..Visits -> Pages]
  /\ listening \subseteq Turns /\ IsFiniteSet(listening)
  /\ turn \in [Turns -> Handlers]
  /\ mixed \subseteq Turns /\ pressed \subseteq Turns /\ unsaved \subseteq Turns

\* A stream is one of a turn that waits for it, or has ended; one that ends well has
\* produced something.
Stages ==
  \A t \in Turns :
    /\ turn[t].at \in {"new", "create", "prompt", "listen"} => stream[t] = "none" /\ made[t] = 0
    /\ stream[t] \in {"asked", "running", "waiting"} => turn[t].at = "stream"
    /\ stream[t] = "ok" => made[t] > 0

\* A turn writes to a conversation that has been created.
Addressed == \A t \in Turns : turn[t].conv \in used \cup {Nothing}

\* The listener in a page's object is one of a turn of that page.
InSlot ==
  \A v \in 1..Visits :
    page[v].slot # Nothing => /\ turn[page[v].slot].visit = v
                              /\ turn[page[v].slot].at # "new"

\* A turn that is sent and has the events, the listeners and its page for itself.
Undisturbed(t) == Sending(t) /\ t \notin mixed

Alone ==
  \A t \in Turns : Undisturbed(t) =>
    /\ \A q \in Turns : Sending(q) => q = t
    /\ listening \subseteq {t}
    /\ turn[t].at = "listen" => listening = {}
    /\ turn[t].at = "stream" /\ ~Page(t).stop => t \in listening
    /\ Page(t).stop => t \in pressed

\* Its buffer holds what its stream has produced up to some point, and the events the
\* rest of it: unless it was stopped, when they no longer matter.
Runs(t, b) ==
  /\ b = Tokens(t, Len(b)) /\ Len(b) <= made[t]
  /\ ~Page(t).stop => /\ Len(b) + Len(events) = made[t]
                      /\ \A i \in 1..Len(events) : events[i] = <<t, Len(b) + i>>

InOrder == \A t \in Turns : Undisturbed(t) => Runs(t, Page(t).buffer)

\* The text is what the stream of turn t has produced, and all of it unless stopped.
IsOwn(t, text) ==
  /\ text = Tokens(t, Len(text)) /\ Len(text) <= made[t]
  /\ t \notin pressed => Len(text) = made[t]

InHand == \A t \in Turns : turn[t].at = "save" /\ t \notin mixed => IsOwn(t, turn[t].reply)

\* Replies are stored by turns that are over.
Written ==
  \A r \in Replies : /\ turn[r.turn].at = "over"
                     /\ r.turn \notin mixed => IsOwn(r.turn, r.text)

Inv ==
  /\ TypeOK /\ Stages /\ Addressed /\ InSlot
  /\ Alone /\ InOrder /\ InHand /\ Written
  /\ ReplyIsKept /\ NoOrphans

-----------------------------------------------------------------------------
LEMMA TextForms ==
  /\ << >> \in Texts
  /\ \A t \in Turns, n \in Nat :
       Tokens(t, n) \in Texts /\ Len(Tokens(t, n)) = n /\ \A i \in 1..n : Tokens(t, n)[i] = <<t, i>>
<1>1. ASSUME NEW t \in Turns, NEW n \in Nat
      PROVE  Tokens(t, n) \in Texts /\ Len(Tokens(t, n)) = n /\ \A i \in 1..n : Tokens(t, n)[i] = <<t, i>>
  BY DEF Tokens, Texts
<1>2. << >> \in Texts
  BY DEF Texts
<1> QED
  BY <1>1, <1>2

LEMMA HandlerForms ==
  ASSUME NEW h \in Handlers
  PROVE
    /\ LET d == [h EXCEPT !.held = FALSE] IN
         d \in Handlers /\ d.at = h.at /\ d.visit = h.visit /\ d.conv = h.conv /\ d.reply = h.reply
    /\ LET d == [h EXCEPT !.at = "listen", !.held = TRUE] IN
         d \in Handlers /\ d.at = "listen" /\ d.visit = h.visit /\ d.conv = h.conv /\ d.reply = h.reply
    /\ LET d == [h EXCEPT !.at = "stream", !.held = FALSE] IN
         d \in Handlers /\ d.at = "stream" /\ d.visit = h.visit /\ d.conv = h.conv /\ d.reply = h.reply
  BY DEF Handlers

LEMMA HandlerMoved ==
  ASSUME NEW h \in Handlers, NEW a \in {"create", "prompt", "suggest", "note", "refused"}
  PROVE  LET d == [h EXCEPT !.at = a] IN
         d \in Handlers /\ d.at = a /\ d.visit = h.visit /\ d.conv = h.conv /\ d.reply = h.reply
  BY DEF Handlers

LEMMA PageForms ==
  \A p \in Pages :
    /\ LET c == Cleared(p) IN c \in Pages /\ ~c.stop /\ c.buffer = << >> /\ c.slot = p.slot
    /\ \A s \in Turns \cup {Nothing} :
         LET c == [p EXCEPT !.slot = s] IN c \in Pages /\ c.stop = p.stop /\ c.buffer = p.buffer /\ c.slot = s
    /\ \A b \in Texts :
         LET c == [p EXCEPT !.buffer = b] IN c \in Pages /\ c.stop = p.stop /\ c.buffer = b /\ c.slot = p.slot
    /\ LET c == [p EXCEPT !.streaming = FALSE, !.slot = Nothing] IN
         c \in Pages /\ c.stop = p.stop /\ c.buffer = p.buffer /\ c.slot = Nothing
    /\ LET c == [p EXCEPT !.stop = TRUE] IN
         c \in Pages /\ c.stop /\ c.buffer = p.buffer /\ c.slot = p.slot
  BY TextForms DEF Pages, Cleared

-----------------------------------------------------------------------------
(* What a step makes of the handlers and of the pages, field by field *)

LEMMA SendsForm ==
  ASSUME TypeOK, NEW t \in Turns, NEW rec \in Handlers, Sends(t, rec)
  PROVE  /\ turn' \in [Turns -> Handlers] /\ page' \in [1..Visits -> Pages]
         /\ turn'[t].at = "listen" /\ turn'[t].visit = rec.visit
         /\ turn'[t].conv = rec.conv /\ turn'[t].reply = rec.reply
         /\ \A q \in Turns \ {t} : turn'[q] = turn[q]
         /\ ~page'[rec.visit].stop /\ page'[rec.visit].buffer = << >>
         /\ page'[rec.visit].slot = page[rec.visit].slot
         /\ \A v \in (1..Visits) \ {rec.visit} : page'[v] = page[v]
         /\ mixed' \subseteq Turns /\ mixed \subseteq mixed' /\ pressed' \subseteq Turns
         /\ t \notin mixed' => Clean
         /\ \A q \in Turns : Sending(q) => q \in mixed'
         /\ \A q \in Turns \ mixed' : q \in pressed <=> q \in pressed'
<1>1. rec.visit \in 1..Visits
  BY DEF Handlers
<1>2. /\ turn' \in [Turns -> Handlers]
      /\ turn'[t].at = "listen" /\ turn'[t].visit = rec.visit
      /\ turn'[t].conv = rec.conv /\ turn'[t].reply = rec.reply
      /\ \A q \in Turns \ {t} : turn'[q] = turn[q]
  <2> DEFINE d == [rec EXCEPT !.at = "listen", !.held = TRUE]
  <2>1. turn' = [turn EXCEPT ![t] = d]
    BY DEF Sends
  <2>2. /\ d \in Handlers /\ d.at = "listen" /\ d.visit = rec.visit
        /\ d.conv = rec.conv /\ d.reply = rec.reply
    BY HandlerForms
  <2> HIDE DEF d
  <2> QED
    BY <2>1, <2>2 DEF TypeOK
<1>3. /\ page' \in [1..Visits -> Pages]
      /\ ~page'[rec.visit].stop /\ page'[rec.visit].buffer = << >>
      /\ page'[rec.visit].slot = page[rec.visit].slot
      /\ \A v \in (1..Visits) \ {rec.visit} : page'[v] = page[v]
  <2> DEFINE c == Cleared(page[rec.visit])
  <2>1. page' = [page EXCEPT ![rec.visit] = c]
    BY DEF Sends
  <2>2. page[rec.visit] \in Pages
    BY <1>1 DEF TypeOK
  <2>3. c \in Pages /\ ~c.stop /\ c.buffer = << >> /\ c.slot = page[rec.visit].slot
    BY <2>2, PageForms
  <2> HIDE DEF c
  <2>4. page' \in [1..Visits -> Pages] /\ page'[rec.visit] = c
    BY <1>1, <2>1, <2>3 DEF TypeOK
  <2>5. \A v \in (1..Visits) \ {rec.visit} : page'[v] = page[v]
    BY <2>1 DEF TypeOK
  <2> QED
    BY <2>3, <2>4, <2>5
<1>4. /\ mixed' \subseteq Turns /\ mixed \subseteq mixed' /\ pressed' \subseteq Turns
      /\ t \notin mixed' => Clean
      /\ \A q \in Turns : Sending(q) => q \in mixed'
      /\ \A q \in Turns \ mixed' : q \in pressed <=> q \in pressed'
  BY DEF Sends, Clean, TypeOK
<1> QED
  BY <1>2, <1>3, <1>4

LEMMA DetachedForm ==
  ASSUME TypeOK, NEW v
  PROVE  /\ Detached(v) \in [Turns -> Handlers]
         /\ \A q \in Turns :
              LET d == Detached(v)[q] IN
              /\ d.at = turn[q].at /\ d.visit = turn[q].visit
              /\ d.conv = turn[q].conv /\ d.reply = turn[q].reply
<1>1. ASSUME NEW q \in Turns
      PROVE  LET d == Detached(v)[q] IN
             /\ d \in Handlers /\ d.at = turn[q].at /\ d.visit = turn[q].visit
             /\ d.conv = turn[q].conv /\ d.reply = turn[q].reply
  <2>1. turn[q] \in Handlers
    BY DEF TypeOK
  <2> DEFINE h == [turn[q] EXCEPT !.held = FALSE]
  <2>2. Detached(v)[q] = turn[q] \/ Detached(v)[q] = h
    BY DEF Detached
  <2>3. /\ h \in Handlers /\ h.at = turn[q].at /\ h.visit = turn[q].visit
        /\ h.conv = turn[q].conv /\ h.reply = turn[q].reply
    BY <2>1, HandlerForms
  <2> HIDE DEF h
  <2> QED
    BY <2>1, <2>2, <2>3
<1>2. Detached(v) = [q \in Turns |-> Detached(v)[q]]
  BY DEF Detached
<1> HIDE DEF Detached
<1> QED
  BY <1>1, <1>2

LEMMA UnlistensForm ==
  ASSUME TypeOK, NEW v \in 1..Visits, NEW p \in Pages, Unlistens(v, p)
  PROVE  /\ page' \in [1..Visits -> Pages]
         /\ page'[v].stop = p.stop /\ page'[v].buffer = p.buffer /\ page'[v].slot = Nothing
         /\ \A w \in (1..Visits) \ {v} : page'[w] = page[w]
         /\ listening' = listening \ {page[v].slot}
<1> DEFINE c == [p EXCEPT !.streaming = FALSE, !.slot = Nothing]
<1>1. page' = [page EXCEPT ![v] = c] /\ listening' = listening \ {page[v].slot}
  BY DEF Unlistens
<1>2. c \in Pages /\ c.stop = p.stop /\ c.buffer = p.buffer /\ c.slot = Nothing
  BY PageForms
<1> HIDE DEF c
<1>3. page' \in [1..Visits -> Pages] /\ page'[v] = c
  BY <1>1, <1>2 DEF TypeOK
<1>4. \A w \in (1..Visits) \ {v} : page'[w] = page[w]
  BY <1>1 DEF TypeOK
<1> QED
  BY <1>1, <1>2, <1>3, <1>4

LEMMA TakenForm ==
  ASSUME TypeOK, NEW t \in Turns, NEW c \in Active
  PROVE  /\ Taken(t, c) \in Handlers
         /\ Taken(t, c).at = turn[t].at /\ Taken(t, c).visit = visit
         /\ Taken(t, c).conv = c /\ Taken(t, c).reply = turn[t].reply
<1>1. turn[t] \in Handlers /\ visit \in 1..Visits /\ c \in Convs \cup {Nothing}
  BY DEF TypeOK, Active
<1> DEFINE d == [turn[t] EXCEPT !.visit = visit, !.conv = c]
<1>2. d \in Handlers /\ d.at = turn[t].at /\ d.visit = visit /\ d.conv = c /\ d.reply = turn[t].reply
  <2> DEFINE h == turn[t]
             v == visit
  <2> h \in Handlers /\ v \in 1..Visits /\ c \in Convs \cup {Nothing}
    BY <1>1
  <2> HIDE DEF h, v
  <2>1. LET e == [h EXCEPT !.visit = v, !.conv = c] IN
        e \in Handlers /\ e.at = h.at /\ e.visit = v /\ e.conv = c /\ e.reply = h.reply
    BY DEF Handlers
  <2> QED
    BY <2>1 DEF h, v
<1>3. Taken(t, c) = d
  BY DEF Taken
<1> HIDE DEF d
<1> QED
  BY <1>2, <1>3

LEMMA SubmitForm ==
  ASSUME TypeOK, NEW t \in Turns, Submit(t)
  PROVE  /\ turn' \in [Turns -> Handlers]
         /\ turn[t].at = "new"
         /\ turn'[t].at \in {"create", "prompt"} /\ turn'[t].visit = visit
         /\ turn'[t].conv \in Active
         /\ \A q \in Turns \ {t} : turn'[q] = turn[q]
<1>1. PICK c \in Active :
        turn' = [turn EXCEPT ![t] = [Taken(t, c) EXCEPT !.at = IF c = Nothing THEN "create" ELSE "prompt"]]
  BY DEF Submit
<1> DEFINE k == Taken(t, c)
           a == IF c = Nothing THEN "create" ELSE "prompt"
           d == [k EXCEPT !.at = a]
<1>2. a \in {"create", "prompt"}
  OBVIOUS
<1> HIDE DEF a
<1> k \in Handlers /\ k.visit = visit /\ k.conv = c
  BY TakenForm
<1> HIDE DEF k
<1>3. d \in Handlers /\ d.at = a /\ d.visit = visit /\ d.conv = c
  <2>1. a \in {"create", "prompt", "suggest", "note", "refused"}
    BY <1>2
  <2> QED
    BY <2>1, HandlerMoved
<1>4. turn' = [turn EXCEPT ![t] = d]
  BY <1>1 DEF a, k
<1> HIDE DEF d
<1>5. turn' \in [Turns -> Handlers] /\ turn'[t] = d
  BY <1>3, <1>4 DEF TypeOK
<1>6. \A q \in Turns \ {t} : turn'[q] = turn[q]
  BY <1>4 DEF TypeOK
<1> QED
  BY <1>2, <1>3, <1>5, <1>6 DEF Submit, Idle

LEMMA CreateForm ==
  ASSUME TypeOK, NEW t \in Turns, NEW c \in Convs, NEW a \in {"prompt", "note"},
         turn' = [turn EXCEPT ![t].at = a, ![t].conv = c]
  PROVE  /\ turn' \in [Turns -> Handlers]
         /\ turn'[t].at = a /\ turn'[t].visit = turn[t].visit
         /\ turn'[t].conv = c /\ turn'[t].reply = turn[t].reply
         /\ \A q \in Turns \ {t} : turn'[q] = turn[q]
<1> DEFINE d == [turn[t] EXCEPT !.at = a, !.conv = c]
<1>1. turn' = [turn EXCEPT ![t] = d]
  BY DEF TypeOK
<1>2. turn[t] \in Handlers
  BY DEF TypeOK
<1>3. /\ d \in Handlers /\ d.at = a /\ d.visit = turn[t].visit
      /\ d.conv = c /\ d.reply = turn[t].reply
  <2> DEFINE h == turn[t]
             e == [h EXCEPT !.at = a, !.conv = c]
  <2>1. h \in Handlers
    BY <1>2
  <2> HIDE DEF h
  <2>2. e \in Handlers /\ e.at = a /\ e.visit = h.visit /\ e.conv = c /\ e.reply = h.reply
    <3>1. a \in {"new", "create", "prompt", "listen", "stream", "save", "over",
                 "suggest", "note", "refused"}
      OBVIOUS
    <3> QED
      BY <2>1, <3>1 DEF Handlers
  <2> QED
    BY <2>2 DEF h
<1> HIDE DEF d
<1>4. turn \in [Turns -> Handlers]
  BY DEF TypeOK
<1>5. /\ turn' \in [Turns -> Handlers] /\ turn'[t] = d
      /\ \A q \in Turns \ {t} : turn'[q] = turn[q]
  BY <1>1, <1>3, <1>4
<1> QED
  BY <1>3, <1>5, Zenon

LEMMA ListenForm ==
  ASSUME TypeOK, NEW t \in Turns, Listen(t)
  PROVE  /\ turn' \in [Turns -> Handlers] /\ page' \in [1..Visits -> Pages]
         /\ turn[t].at = "listen" /\ turn'[t].at = "stream" /\ turn'[t].visit = turn[t].visit
         /\ turn'[t].conv = turn[t].conv /\ turn'[t].reply = turn[t].reply
         /\ \A q \in Turns \ {t} : turn'[q] = turn[q]
         /\ \A v \in 1..Visits : /\ page'[v].stop = page[v].stop /\ page'[v].buffer = page[v].buffer
                                  /\ \/ page'[v].slot = page[v].slot
                                     \/ v = turn[t].visit /\ page'[v].slot = t
<1>1. turn[t] \in Handlers /\ turn[t].visit \in 1..Visits
  BY DEF TypeOK, Handlers
<1>2. /\ turn' \in [Turns -> Handlers]
      /\ turn'[t].at = "stream" /\ turn'[t].visit = turn[t].visit
      /\ turn'[t].conv = turn[t].conv /\ turn'[t].reply = turn[t].reply
      /\ \A q \in Turns \ {t} : turn'[q] = turn[q]
  <2> DEFINE d == [turn[t] EXCEPT !.at = "stream", !.held = FALSE]
  <2>1. turn' = [turn EXCEPT ![t] = d]
    BY DEF TypeOK, Listen
  <2>2. /\ d \in Handlers /\ d.at = "stream" /\ d.visit = turn[t].visit
        /\ d.conv = turn[t].conv /\ d.reply = turn[t].reply
    BY <1>1, HandlerForms
  <2> HIDE DEF d
  <2> QED
    BY <2>1, <2>2 DEF TypeOK
<1>3. /\ page' \in [1..Visits -> Pages]
      /\ \A v \in 1..Visits : /\ page'[v].stop = page[v].stop /\ page'[v].buffer = page[v].buffer
                               /\ \/ page'[v].slot = page[v].slot
                                  \/ v = turn[t].visit /\ page'[v].slot = t
  <2> DEFINE w == turn[t].visit
             s == IF turn[t].held THEN t ELSE page[w].slot
             k == page[w]
             c == [k EXCEPT !.slot = s]
  <2>1. page' = [page EXCEPT ![w] = c]
    BY <1>1 DEF TypeOK, Listen
  <2>2. k \in Pages
    BY <1>1 DEF TypeOK
  <2>3. s \in {t, k.slot} /\ s \in Turns \cup {Nothing}
    BY <2>2 DEF Pages
  <2> HIDE DEF s
  <2> HIDE DEF k
  <2>4. c \in Pages /\ c.stop = k.stop /\ c.buffer = k.buffer /\ c.slot = s
    BY <2>2, <2>3 DEF Pages
  <2> HIDE DEF c, w
  <2>5. page' \in [1..Visits -> Pages] /\ (w \in 1..Visits => page'[w] = c)
    BY <2>1, <2>4 DEF TypeOK
  <2>6. \A v \in (1..Visits) \ {w} : page'[v] = page[v]
    BY <2>1 DEF TypeOK
  <2> QED
    BY <1>1, <2>3, <2>4, <2>5, <2>6 DEF w, k
<1> QED
  BY <1>2, <1>3 DEF Listen

LEMMA StopForm ==
  ASSUME TypeOK, Stop
  PROVE  /\ turn' \in [Turns -> Handlers] /\ page' \in [1..Visits -> Pages]
         /\ \A q \in Turns : /\ turn'[q].at = turn[q].at /\ turn'[q].visit = turn[q].visit
                             /\ turn'[q].conv = turn[q].conv /\ turn'[q].reply = turn[q].reply
         /\ page'[visit].stop /\ page'[visit].buffer = page[visit].buffer
         /\ page'[visit].slot = Nothing
         /\ \A v \in (1..Visits) \ {visit} : page'[v] = page[v]
         /\ listening' = listening \ {page[visit].slot}
<1> DEFINE k == page[visit]
           p == [k EXCEPT !.stop = TRUE]
<1>1. visit \in 1..Visits /\ k \in Pages
  BY DEF TypeOK
<1>2. Unlistens(visit, p) /\ turn' = Detached(visit)
  BY DEF Stop
<1> HIDE DEF k
<1>3. p \in Pages /\ p.stop /\ p.buffer = k.buffer
  BY <1>1, PageForms
<1> HIDE DEF p
<1> QED
  BY <1>1, <1>2, <1>3, UnlistensForm, DetachedForm DEF k

LEMMA ReplyForm ==
  ASSUME TypeOK, NEW t \in Turns
  PROVE  Reply(t) \in Texts
<1>1. page[turn[t].visit] \in Pages /\ made[t] \in Nat
  BY DEF TypeOK, Handlers
<1>2. page[turn[t].visit].buffer \in Texts
  BY <1>1 DEF Pages
<1> QED
  BY <1>1, <1>2, TextForms, Zenon DEF Reply, Page

LEMMA ReturnForm ==
  ASSUME TypeOK, NEW t \in Turns, Return(t)
  PROVE  /\ turn' \in [Turns -> Handlers] /\ page' \in [1..Visits -> Pages]
         /\ turn[t].at = "stream" /\ turn'[t].visit = turn[t].visit
         /\ turn'[t].conv = turn[t].conv
         /\ \/ turn'[t].at = "save" /\ turn'[t].reply = Reply(t) /\ Reply(t) # << >>
            \/ turn'[t].at = "over" /\ (turn[t].conv = Nothing \/ Reply(t) = << >>)
         /\ \A q \in Turns \ {t} : /\ turn'[q].at = turn[q].at /\ turn'[q].visit = turn[q].visit
                                   /\ turn'[q].conv = turn[q].conv /\ turn'[q].reply = turn[q].reply
         /\ page'[turn[t].visit].slot = Nothing
         /\ \A v \in (1..Visits) \ {turn[t].visit} : page'[v] = page[v]
<1> DEFINE v == turn[t].visit
           f == Detached(v)
           keeps == turn[t].conv # Nothing /\ Reply(t) # << >>
           a == IF keeps THEN "save" ELSE "over"
           r == IF keeps THEN Reply(t) ELSE << >>
           h == f[t]
           d == [h EXCEPT !.at = a, !.reply = r]
<1>1. v \in 1..Visits /\ page[v] \in Pages
  BY DEF TypeOK, Handlers
<1>2. /\ page' \in [1..Visits -> Pages] /\ page'[v].slot = Nothing
      /\ \A w \in (1..Visits) \ {v} : page'[w] = page[w]
  BY <1>1, UnlistensForm DEF Return
<1>3. /\ f \in [Turns -> Handlers]
      /\ \A q \in Turns : /\ f[q].at = turn[q].at /\ f[q].visit = turn[q].visit
                          /\ f[q].conv = turn[q].conv /\ f[q].reply = turn[q].reply
  BY DetachedForm
<1>4. turn' = [f EXCEPT ![t].at = a, ![t].reply = r]
  BY DEF Return
<1>5. /\ a \in {"save", "over"} /\ r \in Texts
      /\ \/ a = "save" /\ r = Reply(t) /\ Reply(t) # << >>
         \/ a = "over" /\ (turn[t].conv = Nothing \/ Reply(t) = << >>)
  BY ReplyForm, TextForms
<1> HIDE DEF a, r, f
<1>6. turn' = [f EXCEPT ![t] = d]
  BY <1>3, <1>4
<1>7. h \in Handlers
  BY <1>3
<1> HIDE DEF h
<1>8. d \in Handlers /\ d.at = a /\ d.visit = h.visit /\ d.conv = h.conv /\ d.reply = r
  BY <1>5, <1>7 DEF Handlers
<1> HIDE DEF d
<1>9. /\ turn' \in [Turns -> Handlers] /\ turn'[t] = d
      /\ \A q \in Turns \ {t} : turn'[q] = f[q]
  BY <1>3, <1>6, <1>8
<1>10. h.visit = turn[t].visit /\ h.conv = turn[t].conv
  BY <1>3, Zenon DEF h
<1>11. /\ turn[t].at = "stream" /\ turn'[t].visit = turn[t].visit
       /\ turn'[t].conv = turn[t].conv
       /\ turn'[t].at = a /\ turn'[t].reply = r
  BY <1>8, <1>9, <1>10, Zenon DEF Return
<1>12. \A q \in Turns \ {t} : /\ turn'[q].at = turn[q].at /\ turn'[q].visit = turn[q].visit
                               /\ turn'[q].conv = turn[q].conv
                               /\ turn'[q].reply = turn[q].reply
  <2> TAKE q \in Turns \ {t}
  <2>1. turn'[q] = f[q] /\ q \in Turns
    BY <1>9
  <2> QED
    BY <1>3, <2>1, Zenon
<1>13. \/ turn'[t].at = "save" /\ turn'[t].reply = Reply(t) /\ Reply(t) # << >>
       \/ turn'[t].at = "over" /\ (turn[t].conv = Nothing \/ Reply(t) = << >>)
  BY <1>5, <1>11, Zenon
<1> QED
  BY <1>2, <1>9, <1>11, <1>12, <1>13, Zenon

LEMMA SaveReplyForm ==
  ASSUME TypeOK, NEW t \in Turns, SaveReply(t)
  PROVE  /\ turn' \in [Turns -> Handlers]
         /\ turn[t].at = "save" /\ turn'[t].at = "over"
         /\ turn'[t].visit = turn[t].visit /\ turn'[t].conv = turn[t].conv
         /\ \A q \in Turns \ {t} : turn'[q] = turn[q]
<1> DEFINE h == turn[t]
           e == << >>
           d == [h EXCEPT !.at = "over", !.reply = e]
<1>1. turn' = [turn EXCEPT ![t] = d]
  BY DEF TypeOK, SaveReply
<1>2. h \in Handlers /\ e \in Texts
  BY TextForms DEF TypeOK
<1> HIDE DEF h, e
<1>3. d \in Handlers /\ d.at = "over" /\ d.visit = h.visit /\ d.conv = h.conv
  BY <1>2 DEF Handlers
<1> HIDE DEF d
<1>4. /\ turn' \in [Turns -> Handlers] /\ turn'[t] = d
      /\ \A q \in Turns \ {t} : turn'[q] = turn[q]
  BY <1>1, <1>3 DEF TypeOK
<1> QED
  BY <1>3, <1>4 DEF h, SaveReply

\* A delivery leaves the buffer of a stopped page alone, and adds the token to the buffer
\* of a page that one listener serves.
LEMMA DeliverForm ==
  ASSUME TypeOK, Deliver
  PROVE  /\ page' \in [1..Visits -> Pages]
         /\ \A v \in 1..Visits :
              /\ page'[v].stop = page[v].stop /\ page'[v].slot = page[v].slot
              /\ page[v].stop => page'[v].buffer = page[v].buffer
              /\ \A t \in Turns :
                   ~page[v].stop /\ listening = {t} /\ turn[t].visit = v
                   => page'[v].buffer = Append(page[v].buffer, Head(events))
<1> DEFINE served(v) == {t \in listening : turn[t].visit = v}
           copies(v) == IF page[v].stop THEN 0 ELSE Cardinality(served(v))
           added(v) == [i \in 1..copies(v) |-> Head(events)]
           text(v) == page[v].buffer \o added(v)
<1>1. page' = [v \in 1..Visits |-> [page[v] EXCEPT !.buffer = text(v)]]
  BY DEF Deliver
<1>2. Head(events) \in Turns \X Nat
  BY DEF Deliver, TypeOK, Texts
<1>3. ASSUME NEW v \in 1..Visits
      PROVE  /\ page'[v] \in Pages
             /\ page'[v].stop = page[v].stop /\ page'[v].slot = page[v].slot
             /\ page[v].stop => page'[v].buffer = page[v].buffer
             /\ \A t \in Turns :
                  ~page[v].stop /\ listening = {t} /\ turn[t].visit = v
                  => page'[v].buffer = Append(page[v].buffer, Head(events))
  <2> DEFINE k == page[v]
             n == copies(v)
             b == text(v)
             d == [k EXCEPT !.buffer = b]
  <2>1. k \in Pages /\ k.buffer \in Texts
    BY DEF TypeOK, Pages
  <2>2. n \in Nat
    <3>1. IsFiniteSet(served(v))
      BY FS_Subset DEF TypeOK
    <3> QED
      BY <3>1, FS_CardinalityType
  <2>3. b = k.buffer \o [i \in 1..n |-> Head(events)]
    OBVIOUS
  <2>4. k.stop => n = 0
    OBVIOUS
  <2>5. ASSUME NEW t \in Turns, ~k.stop, listening = {t}, turn[t].visit = v
        PROVE  n = 1
    <3>1. served(v) = {t}
      BY <2>5
    <3> QED
      BY <2>5, <3>1, FS_Singleton
  <2>6. page'[v] = d
    BY <1>1
  <2> HIDE DEF k, n, b
  <2>7. /\ b \in Texts
        /\ n = 0 => b = k.buffer
        /\ n = 1 => b = Append(k.buffer, Head(events))
    <3> DEFINE e == Head(events)
    <3> e \in Turns \X Nat
      BY <1>2
    <3> HIDE DEF e
    <3>1. [i \in 1..n |-> e] \in Seq(Turns \X Nat) /\ k.buffer \in Seq(Turns \X Nat)
      BY <2>1, <2>2 DEF Texts
    <3>2. b \in Texts
      <4> DEFINE new == [i \in 1..n |-> e]
      <4>1. new \in Texts /\ b = k.buffer \o new
        BY <2>3, <3>1 DEF Texts, e
      <4> HIDE DEF new
      <4> QED
        BY <2>1, <4>1 DEF Texts
    <3>3. ASSUME n = 0 PROVE b = k.buffer
      BY <2>3, <3>1, <3>3 DEF e
    <3>4. ASSUME n = 1 PROVE b = Append(k.buffer, e)
      BY <2>3, <3>1, <3>4 DEF e
    <3> QED
      BY <3>2, <3>3, <3>4 DEF e
  <2>8. d \in Pages /\ d.stop = k.stop /\ d.buffer = b /\ d.slot = k.slot
    BY <2>1, <2>7 DEF Pages
  <2> HIDE DEF d
  <2> QED
    BY <2>4, <2>5, <2>6, <2>7, <2>8 DEF k
<1>4. page' = [v \in 1..Visits |-> page'[v]]
  BY <1>1
<1> QED
  BY <1>3, <1>4

-----------------------------------------------------------------------------
LEMMA InitHolds == Init => Inv
<1> SUFFICES ASSUME Init PROVE Inv
  OBVIOUS
<1> USE ChatAssumption DEF Init
<1>1. FreshPage \in Pages /\ ~FreshPage.stop /\ FreshPage.slot = Nothing
  BY TextForms DEF FreshPage, Pages
<1>2. /\ NoTurn \in Handlers /\ NoTurn.at = "new" /\ NoTurn.conv = Nothing
  BY TextForms DEF NoTurn, Handlers
<1> HIDE DEF FreshPage, NoTurn
<1>3. TypeOK
  BY <1>1, <1>2, TextForms, FS_EmptySet DEF TypeOK
<1>4. Stages /\ Addressed
  BY <1>2 DEF Stages, Addressed
<1>5. InSlot
  BY <1>1 DEF InSlot
<1>6. \A t \in Turns : turn[t].at = "new"
  BY <1>2
<1>7. Alone /\ InOrder /\ InHand
  BY <1>6 DEF Alone, InOrder, InHand, Undisturbed, Sending
<1>8. Written /\ ReplyIsKept /\ NoOrphans
  BY <1>6 DEF Written, Replies, ReplyIsKept, NoOrphans
<1> QED
  BY <1>3, <1>4, <1>5, <1>7, <1>8 DEF Inv

\* The steps that move no handler and touch no page.
Quiet(t) == Begin(t) \/ Produce(t) \/ End(t) \/ LosePeer(t)

Aside == Leave \/ \E c \in Convs : Delete(c)

\* A message sent: again, without its prompt, or with it.
SendsOff(t) ==
  \/ Resend(t)
  \/ Create(t) /\ Sends(t, turn[t]) /\ UNCHANGED dbVars
  \/ SavePrompt(t)

Creating(t) ==
  /\ turn[t].at = "create"
  /\ \E c \in Convs : Creates(c) /\ turn' = [turn EXCEPT ![t].at = "prompt", ![t].conv = c]
  /\ UNCHANGED <<backVars, events, visit, page, listening, ghosts>>

\* A prompt that is turned down.
Declined(t) == Suggest(t) \/ Open(t) \/ Note(t)

LEMMA NextCases ==
  Next => \/ \E t \in Turns : \/ Quiet(t) \/ SendsOff(t) \/ Submit(t) \/ Creating(t)
                              \/ Declined(t) \/ Listen(t) \/ Return(t) \/ SaveReply(t)
          \/ Aside \/ Deliver \/ Stop
  BY DEF Next, Handles, Backend, Quiet, SendsOff, Creating, Create, Declined, Aside, ghosts

\* What a message sent has in common.
LEMMA SendsOffForm ==
  ASSUME TypeOK, NEW t \in Turns, SendsOff(t)
  PROVE  /\ \E rec \in Handlers :
              /\ Sends(t, rec)
              /\ \/ /\ turn[t].at = "new"
                    /\ rec.visit = visit /\ rec.conv \in Active
                 \/ /\ turn[t].at \in {"create", "prompt"}
                    /\ rec.visit = turn[t].visit /\ rec.conv = turn[t].conv
         /\ \/ UNCHANGED <<convs, rows, used>>
            \/ AddsMessage(t, "user", << >>)
         /\ UNCHANGED <<stream, made, events, visit, listening>>
         /\ unsaved' = unsaved
<1>1. CASE Resend(t)
  <2>1. PICK c \in Active : Sends(t, Taken(t, c))
    BY <1>1 DEF Resend
  <2>2. turn[t].at = "new" /\ UNCHANGED <<dbVars, backVars, events, visit, listening, unsaved>>
    BY <1>1 DEF Resend, Idle
  <2>3. Taken(t, c) \in Handlers /\ Taken(t, c).visit = visit /\ Taken(t, c).conv = c
    BY TakenForm
  <2> DEFINE rec == Taken(t, c)
  <2> HIDE DEF rec
  <2>4. /\ rec \in Handlers /\ Sends(t, rec) /\ turn[t].at = "new"
        /\ rec.visit = visit /\ rec.conv \in Active
    BY <2>1, <2>2, <2>3 DEF rec
  <2>5. /\ UNCHANGED <<convs, rows, used>>
        /\ UNCHANGED <<stream, made, events, visit, listening>>
        /\ unsaved' = unsaved
    BY <2>2 DEF dbVars, backVars
  <2> QED
    BY <2>4, <2>5
<1>2. CASE Create(t) /\ Sends(t, turn[t]) /\ UNCHANGED dbVars
  <2>1. turn[t] \in Handlers /\ turn[t].at = "create"
    BY <1>2 DEF TypeOK, Create
  <2>2. UNCHANGED <<backVars, events, visit, listening, unsaved>>
    BY <1>2 DEF Create
  <2> QED
    BY <1>2, <2>1, <2>2 DEF dbVars, backVars
<1>3. CASE SavePrompt(t)
  <2>1. turn[t] \in Handlers
    BY DEF TypeOK
  <2>2. /\ turn[t].at = "prompt" /\ Sends(t, turn[t]) /\ AddsMessage(t, "user", << >>)
        /\ UNCHANGED <<backVars, events, visit, listening>>
    BY <1>3 DEF SavePrompt
  <2> QED
    BY <2>1, <2>2 DEF backVars, AddsMessage
<1> QED
  BY <1>1, <1>2, <1>3 DEF SendsOff

-----------------------------------------------------------------------------
(* Every step keeps the types *)

\* What a message that is added, or not, leaves.
LEMMA AddsForm ==
  ASSUME TypeOK, NEW t \in Turns, NEW role \in {"user", "assistant"}, NEW text \in Texts,
         AddsMessage(t, role, text)
  PROVE  LET r == [conv |-> turn[t].conv, role |-> role, turn |-> t, text |-> text] IN
         /\ UNCHANGED <<convs, used>>
         /\ \/ r \in Rows /\ r.conv \in convs /\ rows' = rows \cup {r} /\ unsaved' = unsaved
            \/ /\ rows' = rows
               /\ unsaved' \subseteq Turns /\ unsaved \subseteq unsaved'
               /\ role = "assistant" => t \in unsaved'
  BY DEF AddsMessage, TypeOK, Rows

\* What a prompt that is turned down has in common: its handler touches nothing but
\* the database.
LEMMA DeclinedForm ==
  ASSUME TypeOK, NEW t \in Turns, Declined(t)
  PROVE  /\ turn' \in [Turns -> Handlers]
         /\ turn[t].at \in {"new", "suggest", "note"}
         /\ turn'[t].at \in {"suggest", "note", "refused"}
         /\ turn[t].at # "new" => turn'[t].visit = turn[t].visit
         /\ turn'[t].conv \in {turn[t].conv, Nothing} \cup used'
         /\ \A q \in Turns \ {t} : turn'[q] = turn[q]
         /\ convs \subseteq convs' /\ (convs' \ convs) \cap used = {}
         /\ used \subseteq used' /\ convs' \subseteq used' /\ used' \subseteq Convs
         /\ rows \subseteq rows' /\ rows' \subseteq Rows
         /\ \A r \in rows' \ rows : r.conv \in convs' /\ r.role = "user"
         /\ UNCHANGED <<stream, made, events, visit, page, listening, mixed, pressed, unsaved>>
<1>1. CASE Suggest(t)
  <2>1. PICK c \in Active :
          turn' = [turn EXCEPT ![t] = [Taken(t, c) EXCEPT !.at = IF c = Nothing THEN "suggest" ELSE "note"]]
    BY <1>1 DEF Suggest
  <2> DEFINE k == Taken(t, c)
             a == IF c = Nothing THEN "suggest" ELSE "note"
             d == [k EXCEPT !.at = a]
  <2>2. a \in {"suggest", "note"}
    OBVIOUS
  <2> HIDE DEF a
  <2> k \in Handlers /\ k.visit = visit /\ k.conv = c
    BY TakenForm
  <2> HIDE DEF k
  <2>3. d \in Handlers /\ d.at = a /\ d.conv = c
    <3>1. a \in {"create", "prompt", "suggest", "note", "refused"}
      BY <2>2
    <3> QED
      BY <3>1, HandlerMoved
  <2>4. turn' = [turn EXCEPT ![t] = d]
    BY <2>1 DEF a, k
  <2> HIDE DEF d
  <2>5. turn' \in [Turns -> Handlers] /\ turn'[t] = d /\ \A q \in Turns \ {t} : turn'[q] = turn[q]
    BY <2>3, <2>4 DEF TypeOK
  <2>6. turn[t].at = "new" /\ UNCHANGED <<dbVars, backVars, events, visit, page, listening, ghosts>>
    BY <1>1 DEF Suggest, Idle
  <2> QED
    BY <2>2, <2>3, <2>5, <2>6 DEF Active, TypeOK, dbVars, backVars, ghosts
<1>2. ASSUME turn' = [turn EXCEPT ![t].at = "refused"]
      PROVE  /\ turn' \in [Turns -> Handlers]
             /\ turn'[t].at = "refused" /\ turn'[t].visit = turn[t].visit /\ turn'[t].conv = turn[t].conv
             /\ \A q \in Turns \ {t} : turn'[q] = turn[q]
  <2> DEFINE h == turn[t]
             d == [h EXCEPT !.at = "refused"]
  <2>1. h \in Handlers /\ turn' = [turn EXCEPT ![t] = d]
    BY <1>2 DEF TypeOK
  <2>2. d \in Handlers /\ d.at = "refused" /\ d.visit = h.visit /\ d.conv = h.conv
    <3> HIDE DEF h
    <3> QED
      BY <2>1, HandlerMoved
  <2> HIDE DEF d
  <2>3. turn' \in [Turns -> Handlers] /\ turn'[t] = d /\ \A q \in Turns \ {t} : turn'[q] = turn[q]
    BY <2>1, <2>2 DEF TypeOK
  <2> QED
    BY <2>2, <2>3
<1>3. CASE Open(t)
  <2>1. /\ turn[t].at = "suggest"
        /\ UNCHANGED <<stream, made, events, visit, page, listening, mixed, pressed, unsaved>>
    BY <1>3 DEF Open, backVars, ghosts
  <2>2. ASSUME NEW c \in Convs, Creates(c), turn' = [turn EXCEPT ![t].at = "note", ![t].conv = c]
        PROVE  /\ turn' \in [Turns -> Handlers] /\ turn'[t].at = "note"
               /\ turn'[t].visit = turn[t].visit /\ turn'[t].conv \in used'
               /\ \A q \in Turns \ {t} : turn'[q] = turn[q]
               /\ convs \subseteq convs' /\ (convs' \ convs) \cap used = {}
               /\ used \subseteq used' /\ convs' \subseteq used' /\ used' \subseteq Convs /\ rows' = rows
    <3>1. "note" \in {"prompt", "note"}
      OBVIOUS
    <3>2. /\ turn' \in [Turns -> Handlers] /\ turn'[t].at = "note"
          /\ turn'[t].visit = turn[t].visit /\ turn'[t].conv = c
          /\ \A q \in Turns \ {t} : turn'[q] = turn[q]
      BY <2>2, <3>1, CreateForm
    <3> QED
      BY <2>2, <3>2 DEF Creates, TypeOK
  <2>3. CASE turn' = [turn EXCEPT ![t].at = "refused"] /\ UNCHANGED dbVars
    BY <1>2, <2>1, <2>3 DEF dbVars, TypeOK
  <2>4. rows \subseteq Rows
    BY DEF TypeOK
  <2> QED
    BY <1>3, <2>1, <2>2, <2>3, <2>4 DEF Open
<1>4. CASE Note(t)
  <2> DEFINE r == [conv |-> turn[t].conv, role |-> "user", turn |-> t, text |-> << >>]
  <2>1. /\ turn[t].at = "note" /\ AddsMessage(t, "user", << >>)
        /\ turn' = [turn EXCEPT ![t].at = "refused"]
        /\ UNCHANGED <<stream, made, events, visit, page, listening, mixed, pressed>>
    BY <1>4 DEF Note, backVars
  <2>2. /\ UNCHANGED <<convs, used>>
        /\ (r \in Rows /\ r.conv \in convs /\ rows' = rows \cup {r}) \/ rows' = rows
    BY <2>1, AddsForm, TextForms
  <2>3. unsaved' = unsaved
    BY <2>1 DEF AddsMessage
  <2>4. r.role = "user"
    OBVIOUS
  <2> HIDE DEF r
  <2>5. rows \subseteq Rows /\ convs \subseteq used /\ used \subseteq Convs
    BY DEF TypeOK
  <2> QED
    BY <1>2, <2>1, <2>2, <2>3, <2>4, <2>5
<1> QED
  BY <1>1, <1>3, <1>4 DEF Declined

LEMMA TypeNext == TypeOK /\ Next => TypeOK'
<1> SUFFICES ASSUME TypeOK, Next PROVE TypeOK'
  OBVIOUS
<1>1. ASSUME NEW t \in Turns, Quiet(t) PROVE TypeOK'
  <2>1. stream' \in [Turns -> {"none", "asked", "running", "waiting", "ok", "error"}]
    BY <1>1 DEF Quiet, Begin, Produce, End, LosePeer, Streams, TypeOK
  <2>2. made' \in [Turns -> Nat]
    BY <1>1 DEF Quiet, Begin, Produce, End, LosePeer, Streams, TypeOK
  <2>3. events' \in Texts
    <3>1. CASE events' = events
      BY <3>1 DEF TypeOK
    <3>2. CASE Produce(t)
      <4>1. <<t, made[t] + 1>> \in Turns \X Nat
        BY DEF TypeOK
      <4> DEFINE e == <<t, made[t] + 1>>
      <4>2. events' = Append(events, e)
        BY <3>2 DEF Produce
      <4> HIDE DEF e
      <4> QED
        BY <4>1, <4>2 DEF TypeOK, Texts, e
    <3> QED
      BY <1>1, <3>1, <3>2 DEF Quiet, Begin, Produce, End, LosePeer, Streams
  <2>4. UNCHANGED <<convs, rows, used, visit, page, listening, turn, mixed, pressed, unsaved>>
    BY <1>1 DEF Quiet, Begin, Produce, End, LosePeer, Streams, dbVars, ghosts
  <2> QED
    BY <2>1, <2>2, <2>3, <2>4 DEF TypeOK
<1>2. ASSUME NEW t \in Turns, SendsOff(t) PROVE TypeOK'
  <2>1. PICK rec \in Handlers : Sends(t, rec)
    BY <1>2, SendsOffForm
  <2>2. /\ turn' \in [Turns -> Handlers] /\ page' \in [1..Visits -> Pages]
        /\ mixed' \subseteq Turns /\ pressed' \subseteq Turns
    BY <2>1, SendsForm
  <2>3. /\ UNCHANGED <<stream, made, events, visit, listening>>
        /\ unsaved' = unsaved
    BY <1>2, SendsOffForm
  <2>4. convs' = convs /\ used' = used /\ rows' \subseteq Rows
    <3>1. CASE UNCHANGED <<convs, rows, used>>
      BY <3>1 DEF TypeOK
    <3>2. CASE AddsMessage(t, "user", << >>)
      BY <3>2, AddsForm, TextForms DEF TypeOK
    <3> QED
      BY <1>2, <3>1, <3>2, SendsOffForm
  <2> QED
    BY <2>2, <2>3, <2>4 DEF TypeOK
<1>3. ASSUME NEW t \in Turns, Submit(t) PROVE TypeOK'
  <2>1. turn' \in [Turns -> Handlers]
    BY <1>3, SubmitForm
  <2> QED
    BY <1>3, <2>1 DEF Submit, TypeOK, dbVars, backVars, ghosts
<1>4. ASSUME NEW t \in Turns, Creating(t) PROVE TypeOK'
  <2>1. PICK c \in Convs : Creates(c) /\ turn' = [turn EXCEPT ![t].at = "prompt", ![t].conv = c]
    BY <1>4 DEF Creating
  <2>2. turn' \in [Turns -> Handlers]
    BY <2>1, CreateForm
  <2> QED
    BY <1>4, <2>1, <2>2 DEF Creating, Creates, TypeOK, backVars, ghosts
<1>5. ASSUME NEW t \in Turns, Listen(t) PROVE TypeOK'
  <2>1. turn' \in [Turns -> Handlers] /\ page' \in [1..Visits -> Pages]
    BY <1>5, ListenForm
  <2>2. listening' \subseteq Turns /\ IsFiniteSet(listening')
    BY <1>5, FS_AddElement DEF Listen, TypeOK
  <2>3. stream' \in [Turns -> {"none", "asked", "running", "waiting", "ok", "error"}]
    BY <1>5 DEF Listen, TypeOK
  <2>4. UNCHANGED <<convs, rows, used, made, events, visit, mixed, pressed, unsaved>>
    BY <1>5 DEF Listen, dbVars, ghosts
  <2> QED
    BY <2>1, <2>2, <2>3, <2>4 DEF TypeOK
<1>6. ASSUME NEW v \in 1..Visits, NEW p, Unlistens(v, p)
      PROVE  listening' \subseteq Turns /\ IsFiniteSet(listening')
  BY <1>6, FS_RemoveElement DEF Unlistens, TypeOK
<1>7. ASSUME NEW t \in Turns, Return(t) PROVE TypeOK'
  <2>1. turn' \in [Turns -> Handlers] /\ page' \in [1..Visits -> Pages]
    BY <1>7, ReturnForm
  <2>2. turn[t].visit \in 1..Visits
    BY DEF TypeOK, Handlers
  <2>3. listening' \subseteq Turns /\ IsFiniteSet(listening')
    BY <1>6, <1>7, <2>2 DEF Return
  <2>4. UNCHANGED <<convs, rows, used, stream, made, events, visit, mixed, pressed, unsaved>>
    BY <1>7 DEF Return, dbVars, backVars, ghosts
  <2> QED
    BY <2>1, <2>3, <2>4 DEF TypeOK
<1>8. ASSUME NEW t \in Turns, SaveReply(t) PROVE TypeOK'
  <2>1. turn' \in [Turns -> Handlers]
    BY <1>8, SaveReplyForm
  <2>2. turn[t].reply \in Texts
    BY DEF TypeOK, Handlers
  <2>3. convs' = convs /\ used' = used /\ rows' \subseteq Rows /\ unsaved' \subseteq Turns
    BY <1>8, <2>2, AddsForm DEF SaveReply, TypeOK
  <2>4. UNCHANGED <<stream, made, events, visit, page, listening, mixed, pressed>>
    BY <1>8 DEF SaveReply, backVars
  <2> QED
    BY <2>1, <2>3, <2>4 DEF TypeOK
<1>9. ASSUME Aside PROVE TypeOK'
  <2>1. ASSUME Leave PROVE TypeOK'
    BY <2>1, ChatAssumption DEF Leave, TypeOK, dbVars, backVars, ghosts
  <2>2. ASSUME NEW c \in Convs, Delete(c) PROVE TypeOK'
    BY <2>2 DEF Delete, TypeOK, backVars, ghosts
  <2> QED
    BY <1>9, <2>1, <2>2 DEF Aside
<1>10. ASSUME Deliver PROVE TypeOK'
  <2>1. page' \in [1..Visits -> Pages]
    BY <1>10, DeliverForm
  <2>2. events' \in Texts
    BY <1>10 DEF Deliver, TypeOK, Texts
  <2>3. UNCHANGED <<dbVars, backVars, visit, listening, turn, ghosts>>
    BY <1>10 DEF Deliver
  <2> QED
    BY <2>1, <2>2, <2>3 DEF TypeOK, dbVars, backVars, ghosts
<1>11. ASSUME Stop PROVE TypeOK'
  <2>1. turn' \in [Turns -> Handlers] /\ page' \in [1..Visits -> Pages]
    BY <1>11, StopForm
  <2>2. listening' \subseteq Turns /\ IsFiniteSet(listening')
    BY <1>6, <1>11 DEF Stop, TypeOK
  <2>3. /\ UNCHANGED <<convs, rows, used, stream, made, events, visit, mixed, unsaved>>
        /\ pressed' \subseteq Turns
    BY <1>11 DEF Stop, TypeOK, dbVars, backVars
  <2> QED
    BY <2>1, <2>2, <2>3 DEF TypeOK
<1>12. ASSUME NEW t \in Turns, Declined(t) PROVE TypeOK'
  <2>1. /\ turn' \in [Turns -> Handlers]
        /\ convs' \subseteq used' /\ used' \subseteq Convs /\ rows' \subseteq Rows
        /\ UNCHANGED <<stream, made, events, visit, page, listening, mixed, pressed, unsaved>>
    BY <1>12, DeclinedForm
  <2> QED
    BY <2>1 DEF TypeOK
<1> QED
  BY <1>1, <1>2, <1>3, <1>4, <1>5, <1>7, <1>8, <1>9, <1>10, <1>11, <1>12, NextCases

-----------------------------------------------------------------------------
(* The stages of a turn, its conversation and its listener *)

\* A turn keeps its visit from the moment it starts, and its conversation from the
\* moment it has one; streams move only with their own turn.
LEMMA TurnSteps ==
  ASSUME TypeOK, Stages, Next
  PROVE  \A t \in Turns :
           /\ turn[t].at # "new" => turn'[t].at # "new" /\ turn'[t].visit = turn[t].visit
           /\ turn[t].at \in {"listen", "stream", "save", "over"} =>
                /\ turn'[t].conv = turn[t].conv
                /\ turn'[t].at \notin {"create", "prompt"}
                /\ turn'[t].at = "listen" => turn[t].at = "listen"
           /\ turn[t].at \in {"save", "over"} =>
                /\ stream'[t] = stream[t] /\ made'[t] = made[t]
                /\ turn'[t].at \in {turn[t].at, "over"}
           /\ turn'[t].conv \in {turn[t].conv, Nothing} \cup used'
           /\ turn[t].at = "over" \/ turn'[t].at # "over" \/ Return(t) \/ SaveReply(t)
           /\ turn'[t].at = "save" => \/ Return(t)
                                      \/ turn[t].at = "save" /\ turn'[t].reply = turn[t].reply
<1> SUFFICES ASSUME NEW t \in Turns
             PROVE  /\ turn[t].at # "new" => turn'[t].at # "new" /\ turn'[t].visit = turn[t].visit
                    /\ turn[t].at \in {"listen", "stream", "save", "over"} =>
                         /\ turn'[t].conv = turn[t].conv
                         /\ turn'[t].at \notin {"create", "prompt"}
                         /\ turn'[t].at = "listen" => turn[t].at = "listen"
                    /\ turn[t].at \in {"save", "over"} =>
                         /\ stream'[t] = stream[t] /\ made'[t] = made[t]
                         /\ turn'[t].at \in {turn[t].at, "over"}
                    /\ turn'[t].conv \in {turn[t].conv, Nothing} \cup used'
                    /\ turn[t].at = "over" \/ turn'[t].at # "over" \/ Return(t) \/ SaveReply(t)
                    /\ turn'[t].at = "save" => \/ Return(t)
                                               \/ turn[t].at = "save" /\ turn'[t].reply = turn[t].reply
  OBVIOUS
<1>1. ASSUME NEW q \in Turns, Quiet(q)
      PROVE  /\ turn' = turn
             /\ turn[t].at \in {"save", "over"} => stream'[t] = stream[t] /\ made'[t] = made[t]
  <2>1. turn[q].at = "stream" /\ turn' = turn
    BY <1>1 DEF Quiet, Begin, Produce, End, LosePeer, Streams, Stages
  <2>2. t # q => stream'[t] = stream[t] /\ made'[t] = made[t]
    BY <1>1 DEF Quiet, Begin, Produce, End, LosePeer, Streams, TypeOK
  <2> QED
    BY <2>1, <2>2
<1>2. ASSUME NEW q \in Turns, SendsOff(q)
      PROVE  /\ turn[t].at # "new" => turn'[t].visit = turn[t].visit
             /\ turn'[t].at = "listen" \/ turn'[t] = turn[t]
             /\ turn[t].at \in {"new", "create", "prompt"} \/ turn'[t] = turn[t]
             /\ turn'[t].conv \in {turn[t].conv, Nothing} \cup used'
             /\ UNCHANGED <<stream, made>>
  <2>1. PICK rec \in Handlers :
          /\ Sends(q, rec)
          /\ \/ /\ turn[q].at = "new"
                /\ rec.visit = visit /\ rec.conv \in Active
             \/ /\ turn[q].at \in {"create", "prompt"}
                /\ rec.visit = turn[q].visit /\ rec.conv = turn[q].conv
    BY <1>2, SendsOffForm
  <2>2. used' = used /\ UNCHANGED <<stream, made>>
    BY <1>2, SendsOffForm DEF AddsMessage
  <2>3. /\ turn'[q].at = "listen" /\ turn'[q].visit = rec.visit /\ turn'[q].conv = rec.conv
        /\ t # q => turn'[t] = turn[t]
    BY <2>1, SendsForm
  <2> QED
    BY <2>1, <2>2, <2>3 DEF Active
<1>3. ASSUME NEW q \in Turns, Submit(q)
      PROVE  /\ (turn[t].at = "new" /\ turn'[t].at \in {"create", "prompt"}) \/ turn'[t] = turn[t]
             /\ turn'[t].conv \in {turn[t].conv, Nothing} \cup used'
             /\ UNCHANGED <<stream, made>>
  BY <1>3, SubmitForm DEF Active, Submit, dbVars, backVars
<1>4. ASSUME NEW q \in Turns, Creating(q)
      PROVE  /\ turn'[t].visit = turn[t].visit
             /\ (turn[t].at = "create" /\ turn'[t].at = "prompt") \/ turn'[t] = turn[t]
             /\ turn'[t].conv \in {turn[t].conv, Nothing} \cup used'
             /\ UNCHANGED <<stream, made>>
  <2>1. PICK c \in Convs : Creates(c) /\ turn' = [turn EXCEPT ![q].at = "prompt", ![q].conv = c]
    BY <1>4 DEF Creating
  <2>2. /\ turn'[q].at = "prompt" /\ turn'[q].visit = turn[q].visit /\ turn'[q].conv = c
        /\ t # q => turn'[t] = turn[t]
    BY <2>1, CreateForm
  <2> QED
    BY <1>4, <2>1, <2>2 DEF Creates, Creating, backVars
<1>5. ASSUME NEW q \in Turns, Listen(q)
      PROVE  /\ turn'[t].visit = turn[t].visit /\ turn'[t].conv = turn[t].conv
             /\ (turn[t].at = "listen" /\ turn'[t].at = "stream") \/ turn'[t] = turn[t]
             /\ turn[t].at = "listen" \/ UNCHANGED <<stream[t], made[t]>>
  <2>1. t # q => stream'[t] = stream[t]
    BY <1>5 DEF Listen, TypeOK
  <2> QED
    BY <1>5, <2>1, ListenForm DEF Listen
<1>6. ASSUME NEW q \in Turns, Return(q)
      PROVE  /\ turn'[t].visit = turn[t].visit /\ turn'[t].conv = turn[t].conv
             /\ \/ t = q /\ turn[t].at = "stream" /\ turn'[t].at \in {"save", "over"}
                \/ turn'[t].at = turn[t].at /\ turn'[t].reply = turn[t].reply
             /\ UNCHANGED <<stream, made>>
  BY <1>6, ReturnForm DEF Return, backVars
<1>7. ASSUME NEW q \in Turns, SaveReply(q)
      PROVE  /\ turn'[t].visit = turn[t].visit /\ turn'[t].conv = turn[t].conv
             /\ (t = q /\ turn[t].at = "save" /\ turn'[t].at = "over") \/ turn'[t] = turn[t]
             /\ UNCHANGED <<stream, made>>
  BY <1>7, SaveReplyForm DEF SaveReply, backVars
<1>8. ASSUME Aside \/ Deliver \/ Stop
      PROVE  /\ turn'[t].visit = turn[t].visit /\ turn'[t].conv = turn[t].conv
             /\ turn'[t].at = turn[t].at /\ turn'[t].reply = turn[t].reply
             /\ UNCHANGED <<stream, made>>
  BY <1>8, StopForm DEF Aside, Leave, Delete, Deliver, Stop, backVars
<1>9. ASSUME NEW q \in Turns, Declined(q)
      PROVE  /\ turn[t].at # "new" => turn'[t].visit = turn[t].visit
             /\ \/ /\ turn[t].at \in {"new", "suggest", "note"}
                   /\ turn'[t].at \in {"suggest", "note", "refused"}
                \/ turn'[t] = turn[t]
             /\ turn'[t].conv \in {turn[t].conv, Nothing} \cup used'
             /\ UNCHANGED <<stream, made>>
  BY <1>9, DeclinedForm
<1> QED
  BY <1>1, <1>2, <1>3, <1>4, <1>5, <1>6, <1>7, <1>8, <1>9, NextCases

LEMMA StagesNext ==
  ASSUME TypeOK, Stages, Next
  PROVE  Stages'
<1> SUFFICES ASSUME NEW t \in Turns
             PROVE  /\ turn'[t].at \in {"new", "create", "prompt", "listen"} => stream'[t] = "none" /\ made'[t] = 0
                    /\ stream'[t] \in {"asked", "running", "waiting"} => turn'[t].at = "stream"
                    /\ stream'[t] = "ok" => made'[t] > 0
  BY DEF Stages
<1> DEFINE Goal == /\ turn'[t].at \in {"new", "create", "prompt", "listen"} => stream'[t] = "none" /\ made'[t] = 0
                   /\ stream'[t] \in {"asked", "running", "waiting"} => turn'[t].at = "stream"
                   /\ stream'[t] = "ok" => made'[t] > 0
<1>a. /\ turn[t].at \in {"new", "create", "prompt", "listen"} => stream[t] = "none" /\ made[t] = 0
      /\ stream[t] \in {"asked", "running", "waiting"} => turn[t].at = "stream"
      /\ stream[t] = "ok" => made[t] > 0
      /\ made[t] \in Nat
  BY DEF Stages, TypeOK
<1>1. ASSUME NEW q \in Turns, Quiet(q) PROVE Goal
  <2>1. turn' = turn /\ stream[q] \in {"asked", "running"}
    BY <1>1 DEF Quiet, Begin, Produce, End, LosePeer, Streams
  <2>2. turn[q].at = "stream"
    BY <2>1 DEF Stages
  <2>3. CASE t # q
    BY <1>a, <1>1, <2>1, <2>3 DEF Quiet, Begin, Produce, End, LosePeer, Streams, TypeOK
  <2>4. CASE t = q
    <3>1. CASE Produce(q)
      BY <1>a, <2>1, <2>2, <2>4, <3>1 DEF Produce, TypeOK
    <3>2. CASE Begin(q) \/ End(q) \/ LosePeer(q)
      BY <1>a, <2>1, <2>2, <2>4, <3>2 DEF Begin, End, LosePeer, Streams, TypeOK
    <3> QED
      BY <1>1, <3>1, <3>2 DEF Quiet
  <2> QED
    BY <2>3, <2>4
<1>2. ASSUME NEW q \in Turns, SendsOff(q) PROVE Goal
  <2>1. PICK rec \in Handlers : Sends(q, rec) /\ turn[q].at \in {"new", "create", "prompt"}
    BY <1>2, SendsOffForm
  <2>2. turn'[q].at = "listen" /\ \A r \in Turns \ {q} : turn'[r] = turn[r]
    BY <2>1, SendsForm
  <2>3. UNCHANGED <<stream, made>>
    BY <1>2, SendsOffForm
  <2> QED
    BY <1>a, <2>1, <2>2, <2>3
<1>3. ASSUME NEW q \in Turns, Submit(q) PROVE Goal
  BY <1>a, <1>3, SubmitForm DEF Submit, backVars
<1>4. ASSUME NEW q \in Turns, Creating(q) PROVE Goal
  <2>1. PICK c \in Convs : turn' = [turn EXCEPT ![q].at = "prompt", ![q].conv = c]
    BY <1>4 DEF Creating
  <2>2. turn'[q].at = "prompt" /\ \A r \in Turns \ {q} : turn'[r] = turn[r]
    BY <2>1, CreateForm
  <2> QED
    BY <1>a, <1>4, <2>2 DEF Creating, backVars
<1>5. ASSUME NEW q \in Turns, Listen(q) PROVE Goal
  <2>1. /\ turn'[q].at = "stream" /\ stream'[q] = "asked" /\ made' = made
        /\ \A r \in Turns \ {q} : turn'[r] = turn[r] /\ stream'[r] = stream[r]
    <3>1. turn'[q].at = "stream" /\ \A r \in Turns \ {q} : turn'[r] = turn[r]
      BY <1>5, ListenForm
    <3>2. stream' = [stream EXCEPT ![q] = "asked"] /\ made' = made
      BY <1>5 DEF Listen
    <3> QED
      BY <3>1, <3>2 DEF TypeOK
  <2> QED
    BY <1>a, <2>1
<1>6. ASSUME NEW q \in Turns, Return(q) PROVE Goal
  BY <1>a, <1>6, ReturnForm DEF Return, backVars
<1>7. ASSUME NEW q \in Turns, SaveReply(q) PROVE Goal
  BY <1>a, <1>7, SaveReplyForm DEF SaveReply, backVars
<1>8. ASSUME Aside \/ Deliver \/ Stop PROVE Goal
  BY <1>a, <1>8, StopForm DEF Aside, Leave, Delete, Deliver, Stop, backVars
<1>9. ASSUME NEW q \in Turns, Declined(q) PROVE Goal
  <2>1. /\ turn[q].at \in {"new", "suggest", "note"} /\ turn'[q].at \in {"suggest", "note", "refused"}
        /\ \A r \in Turns \ {q} : turn'[r] = turn[r]
        /\ UNCHANGED <<stream, made>>
    BY <1>9, DeclinedForm
  <2> QED
    BY <1>a, <2>1
<1> QED
  BY <1>1, <1>2, <1>3, <1>4, <1>5, <1>6, <1>7, <1>8, <1>9, NextCases

\* Conversations are created and never created again.
LEMMA UsedGrows ==
  ASSUME TypeOK, Next
  PROVE  used \subseteq used' /\ (convs' \ convs) \cap used = {}
<1>1. ASSUME NEW t \in Turns, SendsOff(t) PROVE UNCHANGED <<convs, used>>
  BY <1>1, SendsOffForm DEF AddsMessage
<1>2. ASSUME NEW t \in Turns, Quiet(t) \/ Submit(t) \/ Listen(t) \/ Return(t) \/ SaveReply(t)
      PROVE  UNCHANGED <<convs, used>>
  BY <1>2 DEF Quiet, Begin, Produce, End, LosePeer, Streams, Submit, Listen, Return, SaveReply,
              AddsMessage, dbVars
<1>3. ASSUME NEW t \in Turns, Creating(t) PROVE used \subseteq used' /\ (convs' \ convs) \cap used = {}
  BY <1>3 DEF Creating, Creates
<1>4. ASSUME Aside \/ Deliver \/ Stop PROVE used' = used /\ convs' \subseteq convs
  BY <1>4 DEF Aside, Leave, Delete, Deliver, Stop, dbVars
<1>5. ASSUME NEW t \in Turns, Declined(t) PROVE used \subseteq used' /\ (convs' \ convs) \cap used = {}
  BY <1>5, DeclinedForm
<1> QED
  BY <1>1, <1>2, <1>3, <1>4, <1>5, NextCases

LEMMA AddressedNext ==
  ASSUME TypeOK, Stages, Addressed, Next
  PROVE  Addressed'
<1>1. ASSUME NEW t \in Turns PROVE turn'[t].conv \in used' \cup {Nothing}
  <2>1. turn'[t].conv \in {turn[t].conv, Nothing} \cup used' /\ turn[t].conv \in used \cup {Nothing}
    BY TurnSteps DEF Addressed
  <2> QED
    BY <2>1, UsedGrows
<1> QED
  BY <1>1 DEF Addressed

LEMMA InSlotNext ==
  ASSUME TypeOK, Stages, InSlot, Next
  PROVE  InSlot'
<1> SUFFICES ASSUME NEW v \in 1..Visits, page'[v].slot # Nothing
             PROVE  /\ turn'[page'[v].slot].visit = v
                    /\ turn'[page'[v].slot].at # "new"
  BY DEF InSlot
<1>1. \/ page'[v].slot = page[v].slot
      \/ \E t \in Turns : Listen(t) /\ v = turn[t].visit /\ page'[v].slot = t
  <2>1. ASSUME NEW t \in Turns, SendsOff(t) PROVE page'[v].slot = page[v].slot
    <3>1. PICK rec \in Handlers : Sends(t, rec)
      BY <2>1, SendsOffForm
    <3> QED
      BY <3>1, SendsForm
  <2>2. ASSUME NEW t \in Turns, Return(t) PROVE page'[v].slot = page[v].slot
    BY <2>2, ReturnForm
  <2>3. ASSUME NEW t \in Turns, Quiet(t) \/ Submit(t) \/ Creating(t) \/ SaveReply(t) PROVE page' = page
    BY <2>3 DEF Quiet, Begin, Produce, End, LosePeer, Streams, Submit, Creating, SaveReply
  <2>4. ASSUME Aside PROVE page' = page
    BY <2>4 DEF Aside, Leave, Delete
  <2>5. ASSUME Deliver \/ Stop PROVE page'[v].slot = page[v].slot
    BY <2>5, DeliverForm, StopForm
  <2>6. ASSUME NEW t \in Turns, Listen(t)
        PROVE  page'[v].slot = page[v].slot \/ (v = turn[t].visit /\ page'[v].slot = t)
    BY <2>6, ListenForm
  <2>7. ASSUME NEW t \in Turns, Declined(t) PROVE page' = page
    BY <2>7, DeclinedForm
  <2> QED
    BY <2>1, <2>2, <2>3, <2>4, <2>5, <2>6, <2>7, NextCases
<1>2. CASE page'[v].slot = page[v].slot
  <2>1. page[v].slot \in Turns /\ turn[page[v].slot].visit = v /\ turn[page[v].slot].at # "new"
    BY <1>2 DEF InSlot, TypeOK, Pages
  <2> QED
    BY <1>2, <2>1, TurnSteps
<1>3. ASSUME NEW t \in Turns, Listen(t), v = turn[t].visit, page'[v].slot = t
      PROVE  turn'[t].visit = v /\ turn'[t].at # "new"
  BY <1>3, ListenForm
<1> QED
  BY <1>1, <1>2, <1>3

-----------------------------------------------------------------------------
(* What is stored *)

\* A row arrives from the handler of its turn, for a conversation that is there, and
\* leaves when its conversation does.
LEMMA RowSteps ==
  ASSUME TypeOK, Next
  PROVE  /\ unsaved \subseteq unsaved'
         /\ \A r \in rows : r.conv \in convs => (r \in rows' <=> r.conv \in convs')
         /\ \A r \in rows' \ rows :
              /\ r \in Rows /\ r.conv \in convs'
              /\ r.role = "assistant" => SaveReply(r.turn) /\ r.text = turn[r.turn].reply
<1> DEFINE Goal == /\ unsaved \subseteq unsaved'
                   /\ \A r \in rows : r.conv \in convs => (r \in rows' <=> r.conv \in convs')
                   /\ \A r \in rows' \ rows :
                        /\ r \in Rows /\ r.conv \in convs'
                        /\ r.role = "assistant" => SaveReply(r.turn) /\ r.text = turn[r.turn].reply
<1>1. ASSUME NEW t \in Turns, SendsOff(t) PROVE Goal
  <2>1. CASE UNCHANGED <<convs, rows, used>>
    BY <1>1, <2>1, SendsOffForm
  <2>2. CASE AddsMessage(t, "user", << >>)
    <3> DEFINE r == [conv |-> turn[t].conv, role |-> "user", turn |-> t, text |-> << >>]
    <3>1. /\ convs' = convs
          /\ (r \in Rows /\ r.conv \in convs /\ rows' = rows \cup {r}) \/ rows' = rows
      BY <2>2, AddsForm, TextForms
    <3>2. r.role = "user"
      OBVIOUS
    <3>3. unsaved' = unsaved
      BY <1>1, SendsOffForm
    <3> HIDE DEF r
    <3> QED
      BY <3>1, <3>2, <3>3
  <2> QED
    BY <1>1, <2>1, <2>2, SendsOffForm
<1>2. ASSUME NEW t \in Turns, SaveReply(t) PROVE Goal
  <2> DEFINE text == turn[t].reply
             r == [conv |-> turn[t].conv, role |-> "assistant", turn |-> t, text |-> text]
  <2>1. text \in Texts
    BY DEF TypeOK, Handlers
  <2>2. AddsMessage(t, "assistant", text)
    BY <1>2 DEF SaveReply
  <2>3. /\ convs' = convs /\ unsaved \subseteq unsaved'
        /\ (r \in Rows /\ r.conv \in convs /\ rows' = rows \cup {r}) \/ rows' = rows
    BY <2>1, <2>2, AddsForm
  <2>4. r.turn = t /\ r.text = text
    OBVIOUS
  <2> HIDE DEF r
  <2> QED
    BY <1>2, <2>3, <2>4
<1>3. ASSUME NEW t \in Turns, Quiet(t) \/ Submit(t) \/ Listen(t) \/ Return(t) PROVE Goal
  <2>1. UNCHANGED <<convs, rows, unsaved>>
    BY <1>3 DEF Quiet, Begin, Produce, End, LosePeer, Streams, Submit, Listen, Return, dbVars, ghosts
  <2> QED
    BY <2>1
<1>4. ASSUME NEW t \in Turns, Creating(t) PROVE Goal
  BY <1>4 DEF Creating, Creates, ghosts
<1>5. ASSUME NEW c \in Convs, Delete(c) PROVE Goal
  BY <1>5 DEF Delete, ghosts
<1>6. ASSUME Leave \/ Deliver \/ Stop PROVE Goal
  BY <1>6 DEF Leave, Deliver, Stop, dbVars, ghosts
<1>7. ASSUME NEW t \in Turns, Declined(t) PROVE Goal
  <2>1. /\ convs \subseteq convs' /\ rows \subseteq rows' /\ rows' \subseteq Rows /\ unsaved' = unsaved
        /\ \A r \in rows' \ rows : r.conv \in convs' /\ r.role = "user"
    BY <1>7, DeclinedForm
  <2> QED
    BY <2>1
<1> QED
  BY <1>1, <1>2, <1>3, <1>4, <1>5, <1>6, <1>7, NextCases DEF Aside

LEMMA NoOrphansNext ==
  ASSUME TypeOK, NoOrphans, Next
  PROVE  NoOrphans'
BY RowSteps DEF NoOrphans

\* A stream that ended well gives the turn something to return.
LEMMA ReplyOfWhole ==
  ASSUME TypeOK, Stages, NEW t \in Turns, stream[t] = "ok"
  PROVE  Reply(t) # << >>
<1>1. made[t] \in Nat /\ made[t] > 0
  BY DEF TypeOK, Stages
<1>2. Len(Tokens(t, made[t])) = made[t]
  BY <1>1, TextForms
<1>3. Tokens(t, made[t]) # << >>
  BY <1>1, <1>2
<1> QED
  BY <1>3 DEF Reply

LEMMA KeptNext ==
  ASSUME TypeOK, TypeOK', Stages, Addressed, NoOrphans, ReplyIsKept, Next
  PROVE  ReplyIsKept'
<1> SUFFICES ASSUME NEW t \in Turns, turn'[t].at = "over", stream'[t] = "ok",
                    turn'[t].conv \in convs', t \notin unsaved'
             PROVE  \E r \in rows' : r.role = "assistant" /\ r.turn = t /\ r.conv = turn'[t].conv
  BY DEF ReplyIsKept, Replies
<1>1. turn'[t].conv # Nothing
  BY ChatAssumption DEF TypeOK
<1>2. CASE turn[t].at = "over"
  <2>1. stream[t] = "ok" /\ turn'[t].conv = turn[t].conv /\ t \notin unsaved
    BY <1>2, TurnSteps, RowSteps
  <2>2. turn[t].conv \in convs
    BY <1>1, <2>1, UsedGrows DEF Addressed
  <2>3. PICK r \in rows : r.role = "assistant" /\ r.turn = t /\ r.conv = turn[t].conv
    BY <1>2, <2>1, <2>2 DEF ReplyIsKept, Replies
  <2>4. r \in rows'
    BY <2>1, <2>2, <2>3, RowSteps
  <2> QED
    BY <2>1, <2>3, <2>4
<1>3. CASE Return(t)
  <2>1. stream[t] = "ok"
    BY <1>3 DEF Return, backVars
  <2> QED
    BY <1>1, <1>3, <2>1, ReplyOfWhole, ReturnForm
<1>4. CASE SaveReply(t)
  <2> DEFINE text == turn[t].reply
             r == [conv |-> turn[t].conv, role |-> "assistant", turn |-> t, text |-> text]
  <2>1. text \in Texts
    BY DEF TypeOK, Handlers
  <2>2. AddsMessage(t, "assistant", text)
    BY <1>4 DEF SaveReply
  <2>3. rows' = rows \cup {r}
    BY <2>1, <2>2, AddsForm
  <2>4. r.role = "assistant" /\ r.turn = t /\ r.conv = turn'[t].conv
    BY <1>4, SaveReplyForm
  <2> HIDE DEF r
  <2> QED
    BY <2>3, <2>4
<1> QED
  BY <1>2, <1>3, <1>4, TurnSteps

-----------------------------------------------------------------------------
(* A turn that nothing disturbs *)

LEMMA PressedLasts ==
  ASSUME TypeOK, Next
  PROVE  mixed \subseteq mixed' /\ \A t \in Turns \ mixed' : t \in pressed => t \in pressed'
<1>1. ASSUME NEW t \in Turns, SendsOff(t)
      PROVE  mixed \subseteq mixed' /\ \A q \in Turns \ mixed' : q \in pressed => q \in pressed'
  <2>1. PICK rec \in Handlers : Sends(t, rec)
    BY <1>1, SendsOffForm
  <2> QED
    BY <2>1, SendsForm
<1>2. ASSUME NEW t \in Turns, \/ Quiet(t) \/ Submit(t) \/ Creating(t)
                              \/ Listen(t) \/ Return(t) \/ SaveReply(t)
      PROVE  mixed' = mixed /\ pressed' = pressed
  BY <1>2 DEF Quiet, Begin, Produce, End, LosePeer, Streams, Submit, Creating, Listen, Return,
              SaveReply, ghosts
<1>3. ASSUME Aside \/ Deliver \/ Stop
      PROVE  mixed' = mixed /\ pressed \subseteq pressed'
  BY <1>3 DEF Aside, Leave, Delete, Deliver, Stop, ghosts
<1>4. ASSUME NEW t \in Turns, Declined(t)
      PROVE  mixed' = mixed /\ pressed' = pressed
  BY <1>4, DeclinedForm
<1> QED
  BY <1>1, <1>2, <1>3, <1>4, NextCases

\* The steps there are while a turn is undisturbed.  No other one is sent, streams or
\* returns.
Beside(t) ==
  \/ \E q \in Turns \ {t} : Submit(q) \/ Creating(q) \/ Declined(q) \/ SaveReply(q)
  \/ Aside

LEMMA Disturbs ==
  ASSUME TypeOK, Stages, Alone, Next, NEW t \in Turns, Undisturbed(t)'
  PROVE  \/ Undisturbed(t) /\ (Quiet(t) \/ Listen(t) \/ Beside(t) \/ Deliver \/ Stop)
         \/ ~Sending(t) /\ SendsOff(t) /\ Clean
<1> t \notin mixed' /\ turn'[t].at \in {"listen", "stream"}
  BY DEF Undisturbed, Sending
<1>1. ASSUME NEW q \in Turns, SendsOff(q) PROVE ~Sending(t) /\ q = t /\ Clean
  <2>1. PICK rec \in Handlers : Sends(q, rec)
    BY <1>1, SendsOffForm
  <2>2. ~Sending(t)
    BY <2>1, SendsForm
  <2>3. q = t
    BY <2>1, <2>2, SendsForm DEF Sending
  <2> QED
    BY <2>1, <2>2, <2>3, SendsForm
<1>2. Undisturbed(t) \/ \E q \in Turns : SendsOff(q)
  <2>1. ASSUME NEW q \in Turns, Quiet(q) PROVE turn' = turn
    BY <2>1 DEF Quiet, Begin, Produce, End, LosePeer, Streams
  <2>2. ASSUME NEW q \in Turns, Submit(q) PROVE turn'[t] = turn[t]
    BY <2>2, SubmitForm
  <2>3. ASSUME NEW q \in Turns, Creating(q) PROVE turn'[t] = turn[t]
    <3>1. PICK c \in Convs : turn' = [turn EXCEPT ![q].at = "prompt", ![q].conv = c]
      BY <2>3 DEF Creating
    <3> QED
      BY <3>1, CreateForm
  <2>4. ASSUME NEW q \in Turns, Listen(q) \/ Return(q) \/ SaveReply(q)
        PROVE  Sending(t)
    BY <2>4, ListenForm, ReturnForm, SaveReplyForm DEF Sending
  <2>5. ASSUME Aside \/ Deliver \/ Stop PROVE turn'[t].at = turn[t].at
    BY <2>5, StopForm DEF Aside, Leave, Delete, Deliver
  <2>6. ASSUME NEW q \in Turns, Declined(q) PROVE turn'[t] = turn[t]
    BY <2>6, DeclinedForm
  <2> QED
    BY <2>1, <2>2, <2>3, <2>4, <2>5, <2>6, NextCases, PressedLasts DEF Undisturbed, Sending
<1>3. ASSUME Undisturbed(t)
      PROVE  Quiet(t) \/ Listen(t) \/ Beside(t) \/ Deliver \/ Stop
  <2>1. turn[t].at \in {"listen", "stream"} /\ \A q \in Turns : Sending(q) => q = t
    BY <1>3 DEF Alone, Undisturbed, Sending
  <2>2. ASSUME NEW q \in Turns, SendsOff(q) PROVE FALSE
    BY <1>1, <1>3, <2>2 DEF Undisturbed
  <2>3. ASSUME NEW q \in Turns, Quiet(q) PROVE q = t
    <3>1. stream[q] \in {"asked", "running"}
      BY <2>3 DEF Quiet, Begin, Produce, End, LosePeer
    <3> QED
      BY <2>1, <3>1 DEF Stages, Sending
  <2>4. ASSUME NEW q \in Turns, Listen(q) PROVE q = t
    BY <2>1, <2>4 DEF Listen, Sending
  <2>5. ASSUME NEW q \in Turns, Return(q) PROVE FALSE
    <3>1. q = t
      BY <2>1, <2>5 DEF Return, Sending
    <3> QED
      BY <2>5, <3>1, ReturnForm
  <2>6. ASSUME NEW q \in Turns, Submit(q) \/ Creating(q) \/ SaveReply(q) PROVE q # t
    BY <2>1, <2>6 DEF Submit, Idle, Creating, SaveReply
  <2>7. ASSUME NEW q \in Turns, Declined(q) PROVE q # t
    BY <2>1, <2>7, DeclinedForm
  <2> QED
    BY <2>2, <2>3, <2>4, <2>5, <2>6, <2>7, NextCases DEF Beside
<1> QED
  BY <1>1, <1>2, <1>3

\* What the steps beside a turn leave.
LEMMA BesideForm ==
  ASSUME TypeOK, NEW t \in Turns, Beside(t)
  PROVE  /\ turn'[t] = turn[t]
         /\ \A q \in Turns : turn'[q] = turn[q] \/ turn'[q].at \notin {"listen", "stream"}
         /\ UNCHANGED <<stream, made, events, page, listening, mixed, pressed>>
<1>1. ASSUME NEW q \in Turns \ {t}, Submit(q)
      PROVE  /\ turn'[t] = turn[t]
             /\ \A r \in Turns : turn'[r] = turn[r] \/ turn'[r].at \notin {"listen", "stream"}
             /\ UNCHANGED <<stream, made, events, page, listening, mixed, pressed>>
  BY <1>1, SubmitForm DEF Submit, backVars, ghosts
<1>2. ASSUME NEW q \in Turns \ {t}, Creating(q)
      PROVE  /\ turn'[t] = turn[t]
             /\ \A r \in Turns : turn'[r] = turn[r] \/ turn'[r].at \notin {"listen", "stream"}
             /\ UNCHANGED <<stream, made, events, page, listening, mixed, pressed>>
  <2>1. PICK c \in Convs : turn' = [turn EXCEPT ![q].at = "prompt", ![q].conv = c]
    BY <1>2 DEF Creating
  <2>2. turn'[q].at = "prompt" /\ \A r \in Turns \ {q} : turn'[r] = turn[r]
    BY <2>1, CreateForm
  <2> QED
    BY <1>2, <2>2 DEF Creating, backVars, ghosts
<1>3. ASSUME NEW q \in Turns \ {t}, SaveReply(q)
      PROVE  /\ turn'[t] = turn[t]
             /\ \A r \in Turns : turn'[r] = turn[r] \/ turn'[r].at \notin {"listen", "stream"}
             /\ UNCHANGED <<stream, made, events, page, listening, mixed, pressed>>
  BY <1>3, SaveReplyForm DEF SaveReply, backVars
<1>4. ASSUME Aside
      PROVE  turn' = turn /\ UNCHANGED <<stream, made, events, page, listening, mixed, pressed>>
  BY <1>4 DEF Aside, Leave, Delete, backVars, ghosts
<1>5. ASSUME NEW q \in Turns \ {t}, Declined(q)
      PROVE  /\ turn'[t] = turn[t]
             /\ \A r \in Turns : turn'[r] = turn[r] \/ turn'[r].at \notin {"listen", "stream"}
             /\ UNCHANGED <<stream, made, events, page, listening, mixed, pressed>>
  <2>1. /\ turn'[q].at \in {"suggest", "note", "refused"}
        /\ \A r \in Turns \ {q} : turn'[r] = turn[r]
        /\ UNCHANGED <<stream, made, events, page, listening, mixed, pressed>>
    BY <1>5, DeclinedForm
  <2> QED
    BY <2>1
<1> QED
  BY <1>1, <1>2, <1>3, <1>4, <1>5 DEF Beside

LEMMA QuietForm ==
  ASSUME NEW t \in Turns, Quiet(t)
  PROVE  /\ UNCHANGED <<page, listening, turn, mixed, pressed>>
         /\ \/ UNCHANGED <<made, events>>
            \/ Produce(t)
BY DEF Quiet, Begin, Produce, End, LosePeer, Streams, ghosts

\* What sending makes of a turn that starts undisturbed.
LEMMA StartForm ==
  ASSUME TypeOK, NEW t \in Turns, SendsOff(t), Clean
  PROVE  /\ turn'[t].at = "listen" /\ turn'[t].visit \in 1..Visits
         /\ ~page'[turn'[t].visit].stop /\ page'[turn'[t].visit].buffer = << >>
         /\ \A q \in Turns \ {t} : turn'[q].at \notin {"listen", "stream"}
         /\ events' = << >> /\ listening' = {}
         /\ made' = made
<1>1. PICK rec \in Handlers : Sends(t, rec)
  BY SendsOffForm
<1>2. rec.visit \in 1..Visits
  BY DEF Handlers
<1>3. UNCHANGED <<made, events, listening>>
  BY SendsOffForm
<1> QED
  BY <1>1, <1>2, <1>3, SendsForm DEF Clean, Sending

LEMMA AloneNext ==
  ASSUME TypeOK, TypeOK', Stages, InSlot, Alone, Next
  PROVE  Alone'
<1> SUFFICES ASSUME NEW t \in Turns, Undisturbed(t)'
             PROVE  /\ \A q \in Turns : turn'[q].at \in {"listen", "stream"} => q = t
                    /\ listening' \subseteq {t}
                    /\ turn'[t].at = "listen" => listening' = {}
                    /\ turn'[t].at = "stream" /\ ~page'[turn'[t].visit].stop => t \in listening'
                    /\ page'[turn'[t].visit].stop => t \in pressed'
  BY DEF Alone, Sending, Page
<1> DEFINE v == turn[t].visit
           Goal == /\ \A q \in Turns : turn'[q].at \in {"listen", "stream"} => q = t
                   /\ listening' \subseteq {t}
                   /\ turn'[t].at = "listen" => listening' = {}
                   /\ turn'[t].at = "stream" /\ ~page'[turn'[t].visit].stop => t \in listening'
                   /\ page'[turn'[t].visit].stop => t \in pressed'
<1>1. CASE SendsOff(t) /\ Clean
  BY <1>1, StartForm
<1>2. CASE Undisturbed(t) /\ (Quiet(t) \/ Listen(t) \/ Beside(t) \/ Deliver \/ Stop)
  <2>1. /\ \A q \in Turns : turn[q].at \in {"listen", "stream"} => q = t
        /\ listening \subseteq {t}
        /\ turn[t].at = "listen" => listening = {}
        /\ turn[t].at = "stream" /\ ~page[v].stop => t \in listening
        /\ page[v].stop => t \in pressed
        /\ turn[t].at \in {"listen", "stream"} /\ t \notin mixed
    BY <1>2 DEF Alone, Undisturbed, Sending, Page
  <2>2. v \in 1..Visits
    BY DEF TypeOK, Handlers
  <2>3. CASE Quiet(t)
    BY <2>1, <2>3, QuietForm
  <2>4. CASE Listen(t)
    <3>1. listening' = listening \cup {t} /\ pressed' = pressed
      BY <2>4 DEF Listen, ghosts
    <3> QED
      BY <2>1, <2>2, <2>4, <3>1, ListenForm
  <2>5. CASE Beside(t)
    BY <2>1, <2>5, BesideForm
  <2>6. CASE Deliver
    <3>1. UNCHANGED <<turn, listening, pressed>>
      BY <2>6 DEF Deliver, ghosts
    <3> QED
      BY <2>1, <2>2, <2>6, <3>1, DeliverForm
  <2>7. CASE Stop
    <3>1. \A q \in Turns : turn'[q].at = turn[q].at /\ turn'[q].visit = turn[q].visit
      BY <2>7, StopForm
    <3>2. listening' = listening \ {page[visit].slot}
      BY <2>7, StopForm
    <3>3. CASE v = visit
      <4>1. t \in pressed'
        BY <2>1, <2>7, <3>3 DEF Stop, Sending
      <4>2. page'[v].stop
        BY <2>7, <3>3, StopForm
      <4> QED
        BY <2>1, <3>1, <3>2, <4>1, <4>2
    <3>4. CASE v # visit
      <4>1. page'[v] = page[v]
        BY <2>2, <2>7, <3>4, StopForm
      <4>2. page[visit].slot # t
        BY <3>4, ChatAssumption DEF InSlot, TypeOK
      <4>3. pressed \subseteq pressed'
        BY <2>7 DEF Stop
      <4> QED
        BY <2>1, <3>1, <3>2, <4>1, <4>2, <4>3
    <3> QED
      BY <3>3, <3>4
  <2> QED
    BY <1>2, <2>3, <2>4, <2>5, <2>6, <2>7
<1> QED
  BY <1>1, <1>2, Disturbs

\* One token more.
LEMMA TokensGrow ==
  ASSUME NEW t \in Turns, NEW n \in Nat, NEW e, e = <<t, n + 1>>
  PROVE  Append(Tokens(t, n), e) = Tokens(t, n + 1)
<1> DEFINE a == Tokens(t, n)
           b == Tokens(t, n + 1)
           c == Append(a, e)
<1>1. a \in Seq(Turns \X Nat) /\ Len(a) = n /\ \A i \in 1..n : a[i] = <<t, i>>
  BY TextForms DEF Texts
<1>2. b \in Seq(Turns \X Nat) /\ Len(b) = n + 1 /\ \A i \in 1..(n + 1) : b[i] = <<t, i>>
  <2>1. n + 1 \in Nat
    OBVIOUS
  <2> QED
    BY <2>1, TextForms DEF Texts
<1>3. e \in Turns \X Nat
  OBVIOUS
<1> HIDE DEF a, b
<1>4. c \in Seq(Turns \X Nat) /\ Len(c) = n + 1
  BY <1>1, <1>3, AppendProperties
<1>5. \A i \in 1..n : c[i] = <<t, i>>
  BY <1>1, <1>3, AppendProperties
<1>6. c[n + 1] = <<t, n + 1>>
  BY <1>1, <1>3, AppendProperties
<1> HIDE DEF c
<1>7. \A i \in 1..Len(c) : c[i] = b[i]
  <2> TAKE i \in 1..Len(c)
  <2>1. i \in 1..(n + 1) /\ (i \in 1..n \/ i = n + 1)
    BY <1>4
  <2>2. b[i] = <<t, i>>
    BY <1>2, <2>1, Zenon
  <2>3. c[i] = <<t, i>>
    BY <1>5, <1>6, <2>1, Zenon
  <2> QED
    BY <2>2, <2>3
<1>8. c = b
  BY <1>2, <1>4, <1>7, SeqEqual
<1> QED
  BY <1>8 DEF a, b, c

LEMMA InOrderNext ==
  ASSUME TypeOK, TypeOK', Stages, Alone, InOrder, Next
  PROVE  InOrder'
<1> SUFFICES ASSUME NEW t \in Turns, Undisturbed(t)'
             PROVE  LET w == turn'[t].visit
                        b == page'[w].buffer IN
                    /\ b = Tokens(t, Len(b)) /\ Len(b) <= made'[t]
                    /\ ~page'[w].stop => /\ Len(b) + Len(events') = made'[t]
                                         /\ \A i \in 1..Len(events') : events'[i] = <<t, Len(b) + i>>
  BY DEF InOrder, Runs, Page, Tokens
<1> DEFINE w == turn'[t].visit
           d == page'[w].buffer
           Goal == /\ d = Tokens(t, Len(d)) /\ Len(d) <= made'[t]
                   /\ ~page'[w].stop => /\ Len(d) + Len(events') = made'[t]
                                        /\ \A i \in 1..Len(events') : events'[i] = <<t, Len(d) + i>>
<1>1. CASE SendsOff(t) /\ Clean
  <2>1. d = << >> /\ events' = << >>
    BY <1>1, StartForm
  <2>2. made'[t] = 0
    <3>1. turn'[t].at = "listen" /\ made' = made
      BY <1>1, StartForm
    <3>2. turn[t].at \in {"new", "create", "prompt"}
      BY <1>1, SendsOffForm
    <3> QED
      BY <3>1, <3>2 DEF Stages
  <2>3. Len(d) = 0 /\ d = Tokens(t, 0)
    <3>1. Tokens(t, 0) \in Seq(Turns \X Nat) /\ Len(Tokens(t, 0)) = 0
      BY TextForms DEF Texts
    <3> QED
      BY <2>1, <3>1
  <2>4. Len(events') = 0
    BY <2>1
  <2> HIDE DEF d, w
  <2>5. Goal
    BY <2>2, <2>3, <2>4
  <2> QED
    BY <2>5 DEF d, w
<1>2. CASE Undisturbed(t) /\ (Quiet(t) \/ Listen(t) \/ Beside(t) \/ Deliver \/ Stop)
  <2> DEFINE v == turn[t].visit
             b == page[v].buffer
  <2>1. /\ b = Tokens(t, Len(b)) /\ Len(b) <= made[t]
        /\ ~page[v].stop => /\ Len(b) + Len(events) = made[t]
                            /\ \A i \in 1..Len(events) : events[i] = <<t, Len(b) + i>>
    BY <1>2 DEF InOrder, Runs, Page
  <2>2. v \in 1..Visits /\ page[v] \in Pages /\ made[t] \in Nat
    BY DEF TypeOK, Handlers
  <2>3. b \in Texts /\ events \in Texts /\ Len(b) \in Nat /\ Len(events) \in Nat
    BY <2>2 DEF TypeOK, Pages, Texts
  <2>4. w = v
    BY <1>2, ListenForm, BesideForm, QuietForm, StopForm DEF Deliver
  <2>5. CASE Quiet(t)
    <3>1. page' = page /\ (UNCHANGED <<made, events>> \/ Produce(t))
      BY <2>5, QuietForm
    <3>2. CASE UNCHANGED <<made, events>>
      BY <2>1, <2>4, <3>1, <3>2
    <3>3. CASE Produce(t)
      <4> DEFINE e == <<t, made[t] + 1>>
      <4>1. made'[t] = made[t] + 1 /\ events' = Append(events, e)
        BY <3>3 DEF Produce, TypeOK
      <4>2. e \in Turns \X Nat
        BY <2>2
      <4>3. e = <<t, made[t] + 1>>
        OBVIOUS
      <4> HIDE DEF e
      <4>4. d = b /\ page'[w].stop = page[v].stop
        BY <2>4, <3>1
      <4> HIDE DEF b, d, v, w
      <4>5. /\ Len(events') = Len(events) + 1
            /\ \A i \in 1..Len(events) : events'[i] = events[i]
            /\ events'[Len(events) + 1] = e
        BY <2>3, <4>1, <4>2 DEF Texts
      <4>6. Len(d) + Len(events) = made[t] => Len(d) + Len(events') = made'[t]
        BY <2>2, <2>3, <4>1, <4>4, <4>5
      <4>7. ASSUME ~page'[w].stop, NEW i \in 1..Len(events')
            PROVE  events'[i] = <<t, Len(d) + i>>
        <5>1. Len(b) + Len(events) = made[t] /\ ~page[v].stop
          BY <2>1, <4>4, <4>7
        <5>2. CASE i \in 1..Len(events)
          BY <2>1, <4>4, <4>5, <5>1, <5>2
        <5>3. CASE i = Len(events) + 1
          <6>1. Len(d) + i = made[t] + 1
            BY <2>2, <2>3, <4>4, <5>1, <5>3
          <6> QED
            BY <4>3, <4>5, <5>3, <6>1
        <5> QED
          BY <2>3, <4>5, <5>2, <5>3
      <4>8. d = Tokens(t, Len(d)) /\ Len(d) <= made'[t]
        BY <2>1, <2>2, <2>3, <4>1, <4>4
      <4>9. Goal
        BY <2>1, <4>4, <4>6, <4>7, <4>8
      <4> QED
        BY <4>9 DEF d, w
    <3> QED
      BY <3>1, <3>2, <3>3
  <2>6. CASE Listen(t)
    <3>1. page'[v].stop = page[v].stop /\ page'[v].buffer = b
      BY <2>2, <2>6, ListenForm
    <3>2. UNCHANGED <<made, events>>
      BY <2>6 DEF Listen
    <3> QED
      BY <2>1, <2>4, <3>1, <3>2
  <2>7. CASE Beside(t)
    BY <2>1, <2>4, <2>7, BesideForm
  <2>8. CASE Deliver
    <3>1. made' = made /\ events # << >> /\ events' = Tail(events)
      BY <2>8 DEF Deliver, backVars
    <3>2. page'[v].stop = page[v].stop
      BY <2>2, <2>8, DeliverForm
    <3>3. CASE page[v].stop
      <4>1. page'[v].buffer = b
        BY <2>2, <2>8, <3>3, DeliverForm
      <4> QED
        BY <2>1, <2>4, <3>1, <3>2, <3>3, <4>1
    <3>4. CASE ~page[v].stop
      <4> DEFINE e == Head(events)
      <4>1. Len(events) > 0 /\ e = <<t, Len(b) + 1>>
        BY <2>1, <2>3, <3>1, <3>4 DEF Texts
      <4>2. turn[t].at = "stream"
        <5>1. turn[t].at = "listen" => made[t] = 0
          BY DEF Stages
        <5> QED
          BY <1>2, <2>1, <2>3, <3>4, <4>1, <5>1 DEF Undisturbed, Sending
      <4>3. listening = {t}
        BY <1>2, <3>4, <4>2 DEF Alone, Page
      <4>4. page'[v].buffer = Append(b, e)
        BY <2>2, <2>8, <3>4, <4>3, DeliverForm
      <4>5. e \in Turns \X Nat
        BY <2>3, <4>1
      <4> HIDE DEF e
      <4>6. d = Append(b, e) /\ page'[w].stop = page[v].stop
        BY <2>4, <3>2, <4>4
      <4> HIDE DEF b, d, v, w
      <4>7. Len(d) = Len(b) + 1 /\ d = Tokens(t, Len(b) + 1)
        <5>1. Len(d) = Len(b) + 1
          BY <2>3, <4>5, <4>6 DEF Texts
        <5>2. Append(Tokens(t, Len(b)), e) = Tokens(t, Len(b) + 1)
          BY <2>3, <4>1, TokensGrow
        <5> QED
          BY <2>1, <4>6, <5>1, <5>2
      <4>8. /\ Len(events') = Len(events) - 1
            /\ \A i \in 1..Len(events') : events'[i] = events[i + 1]
        BY <2>3, <3>1, <4>1 DEF Texts
      <4>9. ASSUME NEW i \in 1..Len(events') PROVE events'[i] = <<t, Len(d) + i>>
        <5>1. i + 1 \in 1..Len(events) /\ events'[i] = events[i + 1]
          BY <2>3, <4>1, <4>8
        <5>2. events[i + 1] = <<t, Len(b) + (i + 1)>>
          BY <2>1, <3>4, <5>1
        <5>3. Len(b) + (i + 1) = Len(d) + i
          BY <2>3, <4>7
        <5> QED
          BY <5>1, <5>2, <5>3
      <4>10. Len(b) + Len(events) = made[t]
        BY <2>1, <3>4
      <4>11. Len(d) <= made'[t] /\ Len(d) + Len(events') = made'[t]
        BY <2>2, <2>3, <3>1, <4>1, <4>7, <4>8, <4>10
      <4>12. Goal
        BY <4>7, <4>9, <4>11
      <4> QED
        BY <4>12 DEF d, w
    <3> QED
      BY <3>3, <3>4
  <2>9. CASE Stop
    <3>1. UNCHANGED <<made, events>>
      BY <2>9 DEF Stop, backVars
    <3>2. page'[v].buffer = b /\ (page'[v].stop \/ page'[v] = page[v])
      BY <2>2, <2>9, StopForm
    <3> QED
      BY <2>1, <2>4, <3>1, <3>2
  <2> QED
    BY <1>2, <2>5, <2>6, <2>7, <2>8, <2>9
<1> QED
  BY <1>1, <1>2, Disturbs

\* What is the turn's own stays so.
LEMMA OwnLasts ==
  ASSUME TypeOK, Next, NEW t \in Turns, t \notin mixed', made'[t] = made[t],
         NEW text, IsOwn(t, text)
  PROVE  IsOwn(t, text)'
BY PressedLasts DEF IsOwn, Tokens

\* What an undisturbed turn returns is its own.
LEMMA ReplyOwn ==
  ASSUME TypeOK, Stages, Alone, InOrder, NEW t \in Turns, Undisturbed(t), Return(t), Reply(t) # << >>
  PROVE  IsOwn(t, Reply(t))
<1> DEFINE b == Page(t).buffer
<1>1. /\ b = Tokens(t, Len(b)) /\ Len(b) <= made[t]
      /\ Page(t).stop => t \in pressed
      /\ made[t] \in Nat
  BY DEF InOrder, Runs, Alone, TypeOK
<1>2. CASE Page(t).stop /\ b # << >>
  <2>1. Reply(t) = b
    BY <1>2 DEF Reply
  <2> QED
    BY <1>1, <1>2, <2>1 DEF IsOwn
<1>3. CASE ~(Page(t).stop /\ b # << >>)
  <2>1. Reply(t) = Tokens(t, made[t])
    BY <1>3 DEF Reply
  <2>2. Len(Tokens(t, made[t])) = made[t]
    BY <1>1, TextForms
  <2> QED
    BY <1>1, <2>1, <2>2 DEF IsOwn
<1> QED
  BY <1>2, <1>3

LEMMA InHandNext ==
  ASSUME TypeOK, Stages, Alone, InOrder, InHand, Next
  PROVE  InHand'
<1> SUFFICES ASSUME NEW t \in Turns, turn'[t].at = "save", t \notin mixed',
                    NEW text, text = turn'[t].reply
             PROVE  IsOwn(t, text)'
  BY DEF InHand, IsOwn, Tokens
<1>1. t \notin mixed
  BY PressedLasts
<1>2. CASE turn[t].at = "save" /\ text = turn[t].reply
  <2>1. IsOwn(t, text) /\ made'[t] = made[t]
    BY <1>1, <1>2, TurnSteps DEF InHand
  <2> QED
    BY <2>1, OwnLasts
<1>3. CASE Return(t)
  <2>1. Undisturbed(t)
    <3>1. turn[t].at = "stream"
      BY <1>3 DEF Return
    <3> QED
      BY <1>1, <3>1 DEF Undisturbed, Sending
  <2>2. text = Reply(t) /\ Reply(t) # << >>
    BY <1>3, ReturnForm
  <2>3. IsOwn(t, text)
    BY <1>3, <2>1, <2>2, ReplyOwn
  <2>4. made'[t] = made[t]
    BY <1>3 DEF Return, backVars
  <2> QED
    BY <2>3, <2>4, OwnLasts
<1> QED
  BY <1>2, <1>3, TurnSteps

LEMMA WrittenNext ==
  ASSUME TypeOK, Stages, InHand, Written, Next
  PROVE  Written'
<1> SUFFICES ASSUME NEW r \in rows', r.role = "assistant"
             PROVE  /\ turn'[r.turn].at = "over"
                    /\ r.turn \notin mixed' => IsOwn(r.turn, r.text)'
  BY DEF Written, Replies
<1> DEFINE t == r.turn
           text == r.text
<1>1. CASE r \in rows
  <2>1. t \in Turns /\ turn[t].at = "over" /\ (t \notin mixed => IsOwn(t, text))
    BY <1>1 DEF Written, Replies, TypeOK, Rows
  <2>2. turn'[t].at = "over" /\ made'[t] = made[t]
    BY <2>1, TurnSteps
  <2>3. t \notin mixed' => t \notin mixed
    BY PressedLasts
  <2> QED
    BY <2>1, <2>2, <2>3, OwnLasts
<1>2. CASE r \notin rows
  <2>1. t \in Turns /\ SaveReply(t) /\ text = turn[t].reply
    BY <1>2, RowSteps DEF Rows
  <2>2. turn[t].at = "save" /\ turn'[t].at = "over" /\ made'[t] = made[t] /\ mixed' = mixed
    BY <2>1, SaveReplyForm DEF SaveReply, backVars
  <2>3. t \notin mixed' => IsOwn(t, text)
    BY <2>1, <2>2 DEF InHand
  <2> QED
    BY <2>1, <2>2, <2>3, OwnLasts
<1> QED
  BY <1>1, <1>2

-----------------------------------------------------------------------------
LEMMA InvNext == Inv /\ [Next]_vars => Inv'
<1> SUFFICES ASSUME Inv, [Next]_vars PROVE Inv'
  OBVIOUS
<1>1. CASE Next
  <2>1. TypeOK /\ Stages /\ Addressed /\ InSlot /\ Alone /\ InOrder /\ InHand /\ Written
        /\ ReplyIsKept /\ NoOrphans
    BY DEF Inv
  <2>2. TypeOK'
    BY <1>1, <2>1, TypeNext
  <2> QED
    BY <1>1, <2>1, <2>2, StagesNext, AddressedNext, InSlotNext, AloneNext, InOrderNext, InHandNext,
       WrittenNext, KeptNext, NoOrphansNext DEF Inv
<1>2. CASE UNCHANGED vars
  <2> USE <1>2 DEF vars, dbVars, backVars, ghosts
  <2>1. TypeOK' /\ Stages' /\ Addressed' /\ InSlot'
    BY DEF Inv, TypeOK, Stages, Addressed, InSlot
  <2>2. Alone'
    BY DEF Inv, Alone, Undisturbed, Sending, Page
  <2>3. InOrder'
    BY DEF Inv, InOrder, Runs, Undisturbed, Sending, Page, Tokens
  <2>4. InHand' /\ Written'
    BY DEF Inv, InHand, Written, IsOwn, Tokens, Replies
  <2>5. ReplyIsKept' /\ NoOrphans'
    BY DEF Inv, ReplyIsKept, NoOrphans, Replies
  <2> QED
    BY <2>1, <2>2, <2>3, <2>4, <2>5 DEF Inv
<1> QED
  BY <1>1, <1>2

\* The page, the commands and the database of the chat, with every interleaving of turns,
\* stops, visits, deletions, failing writes and late events (useChat, useConversations,
\* handleSend, stream_chat, ChatDatabase), keep the inductive invariant: what is in the
\* buffer and on its way is what the one stream that runs has produced, in order.
THEOREM Invariant == Spec => []Inv
<1>1. Init => Inv
  BY InitHolds
<1>2. Inv /\ [Next]_vars => Inv'
  BY InvNext
<1> QED
  BY <1>1, <1>2, PTL DEF Spec

\* useChat.send, handleSend: the reply stored for a turn that no other one ran beside is
\* its own stream's, in order, without a gap, and whole unless the user pressed stop,
\* whatever the listeners, the buffer and the stop flag of earlier turns had left.
THEOREM OwnReply == Spec => []ReplyIsOwn
<1>1. Inv => ReplyIsOwn
  BY DEF Inv, Written, IsOwn, ReplyIsOwn
<1> QED
  BY <1>1, Invariant, PTL

\* handleSend, add_message: the reply of a turn that has run its course is in the database,
\* unless a write failed or its conversation is gone.
THEOREM KeptReply == Spec => []ReplyIsKept
<1>1. Inv => ReplyIsKept
  BY DEF Inv
<1> QED
  BY <1>1, Invariant, PTL

\* delete_conversation, add_message: a handler that goes on with a conversation it has
\* captured never leaves a message for one that was deleted.
THEOREM Orphanless == Spec => []NoOrphans
<1>1. Inv => NoOrphans
  BY DEF Inv
<1> QED
  BY <1>1, Invariant, PTL
=============================================================================
