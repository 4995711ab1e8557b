---------------------------- MODULE CloudStream ----------------------------
(***************************************************************************)
(* One call of a cloud model (engine/cloud/): CloudBackend's load_model,   *)
(* generate and stream (mod.rs), the four protocols (protocols/*.rs) and   *)
(* the parser of event streams (sse.rs).  The provider is external.        *)
(*                                                                         *)
(* A reply is a sequence of texts, numbered from 1, and of tool calls.  On *)
(* the way it is a sequence of units: the prefix of a data line, a content *)
(* event, the two bytes of a character of its text, the end of a line, ... *)
(* The network cuts it into chunks anywhere, inside a character too.       *)
(***************************************************************************)
EXTENDS Naturals, Sequences, Ordering

CONSTANTS
  Protocols,      \* the protocol families of the providers in use
  Conversations,  \* bound: the requests that are made, sequences of messages
  Replies,        \* bound: the replies to generate, sequences of blocks
  MaxTexts,       \* bound: texts of a streamed reply
  MaxOthers       \* bound: lines of it without content

Kinds == {"system", "user", "assistant", "tool"}

ASSUME CloudStreamAssumption ==
  /\ Protocols \subseteq {"openai", "anthropic", "gemini", "cohere"}
  /\ \A c \in Conversations : c \in Seq(Kinds)
  /\ \A r \in Replies : r \in Seq([is : {"text", "tool"}, n : Nat])
  /\ MaxTexts \in Nat /\ MaxOthers \in Nat

VARIABLES
  protocol,  \* of the provider the model name leads to
  key,       \* where its API key is from, or "none"
  mode,      \* the operation: stream or generate
  messages,  \* the conversation of the request
  phase,     \* where the call stands
  result,    \* how it ended
  asked,     \* the turns the provider was sent
  reply,     \* generate: what the provider answered
  sent,      \* stream: texts the provider has sent
  others,    \* stream: other lines it has sent
  pipe,      \* units on their way
  line,      \* the connection: open, closed by the provider, broken
  buffer,    \* the parser's incomplete line
  out        \* what the caller was handed

callVars     == <<protocol, key, mode, messages>>
providerVars == <<reply, sent, others, line>>
cloudVars == <<callVars, phase, result, asked, providerVars, pipe, buffer, out>>

U(is, n) == [is |-> is, n |-> n]

-----------------------------------------------------------------------------
(* Slips a change of the code could make, each the mutant of the definition  *)
(* it is named after                                                         *)

\* Tool results are filtered out with the system messages.
TurnOfTalkOnly(p, m, i) == p \in {"openai", "cohere"} \/ m[i] \in {"user", "assistant"}

\* What is left in the buffer when the stream ends is not parsed.
LeftoverDropped(p, b) == << >>

-----------------------------------------------------------------------------
(* The request                                                                *)

\* Providers of the registry that answer without a key.
Keyless(p) == p = "openai"

\* resolve_all_keys: the configuration, then its older fields, then the
\* environment; only two providers have an older field.
KeyFrom(p, config, legacy, env) ==
  CASE config -> "config"
    [] ~config /\ legacy /\ p \in {"openai", "anthropic"} -> "legacy"
    [] ~config /\ ~(legacy /\ p \in {"openai", "anthropic"}) /\ env -> "environment"
    [] OTHER -> "none"

\* Anthropic and Gemini take one system text as a field of its own.
Apart(p) == p \in {"anthropic", "gemini"}

TurnOf(p, m, i) == ~Apart(p) \/ m[i] # "system"

Role(p, kind) ==
  CASE kind = "assistant" /\ p = "gemini" -> "model"
    [] kind = "tool" /\ Apart(p) -> "user"
    [] OTHER -> kind

\* build_request_body: the system field and the turns, each with the message
\* it is made of.
Body(p, m) ==
  LET at == Ascending({i \in DOMAIN m : TurnOf(p, m, i)})
      systems == {i \in DOMAIN m : m[i] = "system"}
  IN
  [system |-> IF Apart(p) /\ systems # {} THEN {CHOOSE i \in systems : \A j \in systems : i <= j}
              ELSE {},
   turns  |-> [k \in DOMAIN at |-> [role |-> Role(p, m[at[k]]), of |-> at[k]]]]

-----------------------------------------------------------------------------
CloudInit ==
  /\ protocol \in Protocols
  /\ \E config, legacy, env \in BOOLEAN : key = KeyFrom(protocol, config, legacy, env)
  /\ mode \in {"stream", "generate"}
  /\ messages \in Conversations
  /\ phase = "new" /\ result = "none"
  /\ asked = [system |-> {}, turns |-> << >>]
  /\ reply = << >> /\ sent = 0 /\ others = 0
  /\ pipe = << >> /\ line = "open"
  /\ buffer = << >> /\ out = << >>

Over(how) == phase' = "over" /\ result' = how

\* load_model checks the provider and its key, and keeps no state.
Load ==
  /\ phase = "new"
  /\ \/ (key # "none" \/ Keyless(protocol)) /\ phase' = "loaded" /\ UNCHANGED result
     \/ key = "none" /\ Over("error")
  /\ UNCHANGED <<callVars, asked, providerVars, pipe, buffer, out>>

Ask ==
  /\ phase = "loaded"
  /\ phase' = "asking"
  /\ asked' = Body(protocol, messages)
  /\ UNCHANGED <<callVars, result, providerVars, pipe, buffer, out>>

\* The request fails, or is answered with an error status.
Refused ==
  /\ phase = "asking"
  /\ Over("error")
  /\ UNCHANGED <<callVars, asked, providerVars, pipe, buffer, out>>

Accepted ==
  /\ phase = "asking" /\ mode = "stream"
  /\ phase' = "reading"
  /\ UNCHANGED <<callVars, result, asked, providerVars, pipe, buffer, out>>

-----------------------------------------------------------------------------
(* generate                                                                   *)

IsText(b) == b.is = "text"

\* A message of OpenAI's family: its text, then its tool calls.
TextFirst(r) ==
  LET at == Ascending({i \in DOMAIN r : IsText(r[i])})
            \o Ascending({i \in DOMAIN r : ~IsText(r[i])})
  IN [k \in DOMAIN at |-> r[at[k]]]

\* Of a Gemini or Cohere reply the first part.
FirstPart(r) == SubSeq(r, 1, 1)

\* parse_response: Anthropic's content is a sequence of blocks, all kept.
Parsed(p, r) ==
  CASE p = "openai" -> TextFirst(r)
    [] p = "anthropic" -> r
    [] OTHER -> FirstPart(r)

\* No content is an empty text for OpenAI's family, for the others an error.
Unparsable(p, r) ==
  CASE p = "openai" -> FALSE
    [] p = "anthropic" -> r = << >>
    [] OTHER -> r = << >> \/ ~IsText(r[1])

\* OpenAI's message has its text before its tool calls, and neither Gemini nor
\* Cohere is sent any tools.
Answers(p) ==
  {r \in Replies :
     CASE p = "openai" -> \A i, j \in DOMAIN r : i < j => ~(IsText(r[j]) /\ ~IsText(r[i]))
       [] p = "anthropic" -> TRUE
       [] OTHER -> \A i \in DOMAIN r : IsText(r[i])}

Generate ==
  /\ phase = "asking" /\ mode = "generate"
  /\ reply' \in Answers(protocol)
  /\ IF Unparsable(protocol, reply')
     THEN Over("error") /\ UNCHANGED out
     ELSE Over("ended") /\ out' = Parsed(protocol, reply')
  /\ UNCHANGED <<callVars, asked, sent, others, line, pipe, buffer>>

-----------------------------------------------------------------------------
(* The provider's stream                                                      *)

\* CloudBackend::stream asks Gemini for generateContent, whose answer is a
\* document; Cohere's answer is a JSON object a line.
EventStream(p) == p \in {"openai", "anthropic"}

Data(p, us) == IF EventStream(p) THEN <<U("data", 0)>> \o us ELSE us

TextEvent(p, n) == Data(p, <<U("text", n), U("head", n), U("tail", n)>>)

Newline == <<U("nl", 0)>>

Sends(us) ==
  /\ phase \in {"reading", "over"} /\ mode = "stream" /\ line = "open"
  /\ pipe' = IF phase = "over" THEN << >> ELSE pipe \o us
  /\ UNCHANGED <<callVars, phase, result, asked, reply, buffer, out>>

SendsText ==
  /\ sent < MaxTexts
  /\ sent' = sent + 1
  /\ \/ Sends(TextEvent(protocol, sent + 1) \o Newline) /\ UNCHANGED line
     \/ Sends(TextEvent(protocol, sent + 1)) /\ line' = "closed"
  /\ UNCHANGED others

\* An empty line, a comment or event line, or data without content.
SendsOther ==
  /\ others < MaxOthers
  /\ others' = others + 1
  /\ \E us \in {<< >>, <<U("comment", 0)>>, Data(protocol, <<U("note", 0)>>)} : Sends(us \o Newline)
  /\ UNCHANGED <<sent, line>>

Done == <<U("data", 0), U("done", 0)>>

\* Not every provider of the OpenAI family ends its stream with the sentinel.
Closes ==
  /\ Sends(<< >>) \/ (protocol = "openai" /\ Sends(Done \o Newline))
  /\ line' = "closed"
  /\ UNCHANGED <<sent, others>>

Breaks ==
  /\ Sends(<< >>)
  /\ line' = "broken"
  /\ UNCHANGED <<sent, others>>

-----------------------------------------------------------------------------
(* The parser of event streams                                                *)

\* A chunk is decoded by itself: half a character is not one.
Decoded(chunk) ==
  [i \in DOMAIN chunk |->
    IF \/ chunk[i].is = "head" /\ i = Len(chunk)
       \/ chunk[i].is = "tail" /\ i = 1
    THEN U("bad", chunk[i].n) ELSE chunk[i]]

Payload(b) == IF b # << >> /\ b[1].is = "data" THEN Tail(b) ELSE << >>

Sentinel(p, b) == p = "openai" /\ Payload(b) = <<U("done", 0)>>

ContentEvent(us) == Len(us) = 3 /\ us[1].is = "text"

\* parse_stream_chunk: the token of a content event, none for another.
TokensOf(p, b) ==
  LET t == Payload(b) IN
  IF ContentEvent(t)
  THEN <<[n |-> t[1].n, whole |-> t[2].is = "head" /\ t[3].is = "tail"]>>
  ELSE << >>

Lines(b) == {i \in DOMAIN b : b[i].is = "nl"}

EndOfLine(b) == CHOOSE i \in Lines(b) : \A j \in Lines(b) : i <= j

\* The buffer without its first line.
Rest(b) == SubSeq(b, EndOfLine(b) + 1, Len(b))

\* The next chunk is added to the buffer.
Reads ==
  /\ phase = "reading" /\ Lines(buffer) = {} /\ pipe # << >>
  /\ \E k \in 1 .. Len(pipe) :
       /\ buffer' = buffer \o Decoded(SubSeq(pipe, 1, k))
       /\ pipe' = SubSeq(pipe, k + 1, Len(pipe))
  /\ UNCHANGED <<callVars, phase, result, asked, providerVars, out>>

\* The first complete line is parsed; its token is yielded before the next.
ParsesLine ==
  /\ phase = "reading" /\ Lines(buffer) # {}
  /\ LET l == SubSeq(buffer, 1, EndOfLine(buffer) - 1) IN
       /\ out' = out \o TokensOf(protocol, l)
       /\ IF Sentinel(protocol, l) THEN Over("ended") ELSE UNCHANGED <<phase, result>>
  /\ buffer' = Rest(buffer)
  /\ UNCHANGED <<callVars, asked, providerVars, pipe>>

\* What is left when the stream ends is parsed as a line.
Leftover(p, b) == TokensOf(p, b)

ParsesLeftover ==
  /\ phase = "reading" /\ pipe = << >> /\ line = "closed"
  /\ Lines(buffer) = {} /\ buffer # << >>
  /\ out' = out \o Leftover(protocol, buffer)
  /\ buffer' = << >>
  /\ UNCHANGED <<callVars, phase, result, asked, providerVars, pipe>>

ReadsEnd ==
  /\ phase = "reading" /\ pipe = << >> /\ line = "closed" /\ buffer = << >>
  /\ Over("ended")
  /\ UNCHANGED <<callVars, asked, providerVars, pipe, buffer, out>>

ReadsError ==
  /\ phase = "reading" /\ pipe = << >> /\ line = "broken" /\ Lines(buffer) = {}
  /\ Over("error")
  /\ UNCHANGED <<callVars, asked, providerVars, pipe, buffer, out>>

\* The caller drops the stream.
CallerLeaves ==
  /\ phase = "reading"
  /\ Over("dropped")
  /\ UNCHANGED <<callVars, asked, providerVars, pipe, buffer, out>>

-----------------------------------------------------------------------------
Provider == SendsText \/ SendsOther \/ Closes \/ Breaks

CloudClient ==
  Load \/ Ask \/ Refused \/ Accepted \/ Generate \/ Reads \/ ParsesLine
  \/ ParsesLeftover \/ ReadsEnd \/ ReadsError

CloudNext == Provider \/ CloudClient \/ CallerLeaves

CloudSpec == CloudInit /\ [][CloudNext]_cloudVars

-----------------------------------------------------------------------------
(* Properties                                                                 *)

\* However the network cuts it, a reply that ends without an error has been
\* handed on whole: all texts of an event stream, all blocks of an answer whose
\* protocol keeps blocks, in order (stream_sse_with_parser, parse_response).
EndedIsWhole ==
  phase = "over" /\ result = "ended" /\ EventStream(protocol) =>
    IF mode = "stream" THEN [i \in DOMAIN out |-> out[i].n] = [i \in 1 .. sent |-> i]
    ELSE out = reply

\* What the provider is asked is the conversation: every message but a second
\* system message is in the request once, in order, and what the model said is
\* what is given as said by the model (build_request_body).
AskedIsConversation ==
  phase \notin {"new", "loaded"} /\ asked.turns # << >> =>
    LET turns == asked.turns
        said == {turns[k].of : k \in DOMAIN turns}
        systems == {i \in DOMAIN messages : messages[i] = "system"}
    IN
    /\ \A k, l \in DOMAIN turns : k < l => turns[k].of < turns[l].of
    /\ DOMAIN messages \ systems \subseteq said
    /\ systems # {} => (said \cup asked.system) \cap systems # {}
    /\ \A k \in DOMAIN turns :
         turns[k].role \in {"assistant", "model"} <=> messages[turns[k].of] = "assistant"

=============================================================================
