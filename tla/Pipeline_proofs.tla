-------------------------- MODULE Pipeline_proofs --------------------------
(***************************************************************************)
(* Proofs about the layer pipeline for every set of sessions and workers,  *)
(* plans of any length and any number of tokens.                           *)
(***************************************************************************)
EXTENDS Pipeline, FiniteSetTheorems, SequenceTheorems, TLAPS

Messages ==
  [kind : {"assign", "ack", "act", "logits", "error", "release"},
   id : Sessions, pos : Nat, via : Nat]

Caches == Seq([id : Sessions, pos : Nat])

Tokens == Seq([pos : Nat, via : Nat])

TypeOK ==
  /\ call \in [Sessions -> {"new", "assigning", "acking", "ready", "waiting", "releasing", "over"}]
  /\ count \in [Sessions -> Nat]
  /\ result \in [Sessions -> {"none", "failed", "complete", "dropped", "error"}]
  /\ gone \in [Sessions -> BOOLEAN] /\ saved \in [Sessions -> Seq(Nat)]
  /\ got \in [Sessions -> Tokens]
  /\ chan \in [Links -> Seq(Messages)]
  /\ stage \in [Workers -> [of : Sessions, cache : Caches] \cup {NoStage}]
  /\ entries \in [Workers -> SUBSET Sessions]
  /\ down \subseteq Workers
  /\ lost \in [Sessions -> BOOLEAN] /\ disturbed \in [Sessions -> BOOLEAN]

\* The nodes of a session, and the connections between them.
Area(s) == Crew(s) \cup {Home[s]}
LinksOf(s) == {l \in Links : l[1] \in Area(s) /\ l[2] \in Area(s)}

\* A message stays between the nodes of its session, and none waits for a worker that
\* has ended.
Routed ==
  /\ \A l \in Links : \A k \in DOMAIN chan[l] : l \in LinksOf(chan[l][k].id)
  /\ \A l \in Links : l[2] \in down => chan[l] = << >>

\* A session that has not started has sent nothing.
Unstarted ==
  \A s \in Sessions : call[s] = "new" =>
    /\ count[s] = 0
    /\ \A l \in Links : \A k \in DOMAIN chan[l] : chan[l][k].id # s

\* While a session assigns or releases, workers of its plan are left.
Counted ==
  \A s \in Sessions : call[s] \in {"assigning", "releasing"} => count[s] < Len(Plan[s])

\* What an undisturbed session meets is not under way when the session is.
Apart ==
  \A s \in Sessions : ~disturbed[s] /\ Under(s) =>
    \A t \in Sessions : Meet(s, t) => ~Under(t)

\* The attention cache of a stage that has computed the first n positions of s alone.
Prefix(s, n) == [i \in 1..n |-> [id |-> s, pos |-> i - 1]]

\* The worker of stage i holds the layers of s and that cache, or has ended.
Holds(s, i, n) == Plan[s][i] \in down \/ stage[Plan[s][i]] = Stage(s, Prefix(s, n))

To(s, i) == <<Home[s], Plan[s][i]>>
From(s, i) == <<Plan[s][i], Home[s]>>

\* Stages that have acknowledged, or whose worker has ended.
Done(s) ==
  {i \in DOMAIN Plan[s] : chan[To(s, i)] = << >> /\ chan[From(s, i)] = << >> /\ Holds(s, i, 0)}

\* During setup there is for each worker one assignment or one acknowledgement, and an
\* acknowledgement that says ready is of a stage that is loaded.
AssignedAt(s, i, l) ==
  /\ call[s] = "assigning" => i <= count[s]
  /\ \/ /\ l = To(s, i) /\ chan[l] = <<Msg("assign", s, 0, 0)>>
        /\ chan[From(s, i)] = << >>
     \/ /\ l = From(s, i) /\ chan[To(s, i)] = << >>
        /\ \E r \in 0..1 : /\ chan[l] = <<Msg("ack", s, 0, r)>>
                           /\ r = 1 => Holds(s, i, 0)

SetsUp(s) ==
  /\ got[s] = << >>
  /\ call[s] = "acking" => count[s] <= Cardinality(Done(s))
  /\ \A l \in LinksOf(s) : chan[l] # << >> => \E i \in DOMAIN Plan[s] : AssignedAt(s, i, l)

IsReady(s) ==
  /\ got[s] = << >>
  /\ \A l \in LinksOf(s) : chan[l] = << >>
  /\ \A i \in DOMAIN Plan[s] : Holds(s, i, 0)

\* The first k stages have computed the position that is under way, the others all
\* before it.
Passed(s, k) ==
  \A i \in DOMAIN Plan[s] : Holds(s, i, IF i <= k THEN Len(got[s]) + 1 ELSE Len(got[s]))

\* The one message there is: the activation for stage i, the logits, or an error.
ActAt(s, i, l, m) ==
  /\ l = <<IF i = 1 THEN Home[s] ELSE Plan[s][i - 1], Plan[s][i]>>
  /\ m = Msg("act", s, Len(got[s]), i - 1)
  /\ Passed(s, i - 1)

LogitsAt(s, l, m) ==
  /\ l = From(s, Len(Plan[s]))
  /\ m = Msg("logits", s, Len(got[s]), Len(Plan[s]))
  /\ Passed(s, Len(Plan[s]))

UnderWay(s, l, m) ==
  \/ \E i \in DOMAIN Plan[s] : ActAt(s, i, l, m)
  \/ LogitsAt(s, l, m)
  \/ l[2] = Home[s] /\ m.kind = "error"

Streams(s) ==
  \A l \in LinksOf(s) : chan[l] # << >> =>
    /\ Len(chan[l]) = 1 /\ UnderWay(s, l, chan[l][1])
    /\ \A k \in LinksOf(s) \ {l} : chan[k] = << >>

OnCourse(s) ==
  /\ call[s] = "new" => got[s] = << >>
  /\ call[s] \in {"assigning", "acking"} => SetsUp(s)
  /\ call[s] = "ready" => IsReady(s)
  /\ call[s] = "waiting" => Streams(s)

Progress == \A s \in Sessions : ~disturbed[s] => OnCourse(s)

Inv == TypeOK /\ Routed /\ Unstarted /\ Counted /\ Apart /\ Progress /\ UndisturbedIsComputed

-----------------------------------------------------------------------------
(* Plans, connections and messages *)

LEMMA PlanFacts ==
  ASSUME NEW s \in Sessions
  PROVE  /\ Len(Plan[s]) \in Nat \ {0} /\ DOMAIN Plan[s] = 1..Len(Plan[s])
         /\ Home[s] \in Homes /\ Home[s] \notin Workers
         /\ Crew(s) \subseteq Workers
         /\ \A i \in DOMAIN Plan[s] : Plan[s][i] \in Crew(s)
         /\ \A i, j \in DOMAIN Plan[s] : Plan[s][i] = Plan[s][j] => i = j
<1>1. Plan[s] \in Seq(Workers) /\ Plan[s] # << >>
  BY PipelineAssumption
<1>2. Len(Plan[s]) \in Nat \ {0} /\ DOMAIN Plan[s] = 1..Len(Plan[s])
  BY <1>1
<1>3. Home[s] \in Homes /\ Home[s] \notin Workers
  BY PipelineAssumption DEF Homes
<1>4. Crew(s) \subseteq Workers /\ \A i \in DOMAIN Plan[s] : Plan[s][i] \in Crew(s)
  BY <1>1, <1>2 DEF Crew
<1> QED
  BY <1>2, <1>3, <1>4, PipelineAssumption

LEMMA LinkFacts ==
  ASSUME NEW s \in Sessions, NEW i \in DOMAIN Plan[s]
  PROVE  /\ To(s, i) \in LinksOf(s) /\ From(s, i) \in LinksOf(s)
         /\ \A j \in DOMAIN Plan[s] : /\ To(s, i) # From(s, j)
                                      /\ To(s, i) = To(s, j) => i = j
                                      /\ From(s, i) = From(s, j) => i = j
BY PlanFacts DEF To, From, LinksOf, Links, Area

LEMMA PlaceFacts ==
  ASSUME NEW s \in Sessions, NEW w \in Crew(s)
  PROVE  Place(w, s) \in DOMAIN Plan[s] /\ Plan[s][Place(w, s)] = w
BY DEF Place, Crew

LEMMA LinksOfIn == \A s \in Sessions : LinksOf(s) \subseteq Links
BY DEF LinksOf

LEMMA MsgType ==
  ASSUME NEW k \in {"assign", "ack", "act", "logits", "error", "release"},
         NEW s \in Sessions, NEW p \in Nat, NEW v \in Nat
  PROVE  LET m == Msg(k, s, p, v) IN
         m \in Messages /\ m.kind = k /\ m.id = s /\ m.pos = p /\ m.via = v
BY DEF Msg, Messages

\* What a worker answers when it cannot compute.
LEMMA ErrorType ==
  ASSUME NEW s \in Sessions
  PROVE  Msg("error", s, 0, 0) \in Messages /\ Msg("error", s, 0, 0).kind = "error"
BY MsgType

Chans == [Links -> Seq(Messages)]

LEMMA TakesForm ==
  ASSUME NEW f \in Chans, NEW l \in Links, f[l] # << >>
  PROVE  LET g == [f EXCEPT ![l] = Tail(@)] IN
         /\ g \in Chans /\ g[l] = Tail(f[l])
         /\ \A k \in Links \ {l} : g[k] = f[k]
         /\ \A i \in DOMAIN g[l] : i + 1 \in DOMAIN f[l] /\ g[l][i] = f[l][i + 1]
         /\ Len(g[l]) = Len(f[l]) - 1 /\ Len(f[l]) \in Nat \ {0}
<1> DEFINE q == f[l]
           t == Tail(q)
           g == [f EXCEPT ![l] = t]
<1>1. q \in Seq(Messages) /\ q # << >>
  BY DEF Chans
<1>2. /\ t \in Seq(Messages) /\ Len(t) = Len(q) - 1 /\ Len(q) \in Nat \ {0}
      /\ DOMAIN t = 1..Len(t) /\ DOMAIN q = 1..Len(q)
      /\ \A i \in 1..Len(t) : t[i] = q[i + 1]
  <2> HIDE DEF q
  <2> QED
    BY <1>1, HeadTailProperties
<1>3. \A i \in DOMAIN t : i + 1 \in DOMAIN q /\ t[i] = q[i + 1]
  <2> HIDE DEF q, t
  <2> QED
    BY <1>2
<1> HIDE DEF q, t
<1>4. g \in Chans /\ g[l] = t /\ \A k \in Links \ {l} : g[k] = f[k]
  BY <1>2 DEF Chans
<1> QED
  BY <1>2, <1>3, <1>4 DEF q, t

PostFacts(f, l, m, g) ==
  /\ g \in Chans
  /\ \A k \in Links \ {l} : g[k] = f[k]
  /\ l[2] \in down => g = f
  /\ l[2] \notin down =>
       /\ g[l] = Append(f[l], m)
       /\ \A i \in DOMAIN g[l] : \/ i \in DOMAIN f[l] /\ g[l][i] = f[l][i]
                                 \/ g[l][i] = m

LEMMA PostForm ==
  ASSUME NEW f \in Chans, NEW a, NEW b, <<a, b>> \in Links, NEW m \in Messages
  PROVE  PostFacts(f, <<a, b>>, m, Post(f, a, b, m))
<1> DEFINE l == <<a, b>>
           q == f[l]
           t == Append(q, m)
           g == [f EXCEPT ![l] = t]
<1>1. q \in Seq(Messages)
  BY DEF Chans
<1>2. /\ t \in Seq(Messages) /\ Len(t) = Len(q) + 1
      /\ DOMAIN t = 1..Len(t) /\ DOMAIN q = 1..Len(q) /\ Len(q) \in Nat
      /\ \A i \in 1..Len(q) : t[i] = q[i]
      /\ t[Len(q) + 1] = m
  <2> HIDE DEF q
  <2> QED
    BY <1>1, AppendProperties
<1>3. \A i \in DOMAIN t : (i \in DOMAIN q /\ t[i] = q[i]) \/ t[i] = m
  <2> HIDE DEF q, t
  <2> QED
    BY <1>2
<1> HIDE DEF q, t
<1>4. g \in Chans /\ g[l] = t /\ \A k \in Links \ {l} : g[k] = f[k]
  BY <1>2 DEF Chans
<1>5. CASE b \in down
  <2>1. Post(f, a, b, m) = f /\ l[2] = b
    BY <1>5 DEF Post
  <2> HIDE DEF l
  <2> QED
    BY <1>5, <2>1 DEF PostFacts, l
<1>6. CASE b \notin down
  <2>1. Post(f, a, b, m) = g /\ l[2] = b
    BY <1>6 DEF Post, q, t
  <2>2. /\ g[l] = Append(f[l], m)
        /\ \A i \in DOMAIN g[l] : (i \in DOMAIN f[l] /\ g[l][i] = f[l][i]) \/ g[l][i] = m
    BY <1>3, <1>4 DEF q, t
  <2>3. PostFacts(f, l, m, g)
    <3> HIDE DEF l, g
    <3> QED
      BY <1>4, <1>6, <2>1, <2>2 DEF PostFacts
  <2> QED
    BY <2>1, <2>3
<1> QED
  BY <1>5, <1>6

\* A message posted on a connection that is empty.
Posted(f, a, b, m, g) ==
  /\ g \in Chans /\ g[<<a, b>>] = IF b \in down THEN << >> ELSE <<m>>
  /\ \A k \in Links \ {<<a, b>>} : g[k] = f[k]

LEMMA PostEmpty ==
  ASSUME NEW f \in Chans, NEW a, NEW b, <<a, b>> \in Links, f[<<a, b>>] = << >>, NEW m \in Messages
  PROVE  Posted(f, a, b, m, Post(f, a, b, m))
<1> DEFINE h == Post(f, a, b, m)
           l == <<a, b>>
<1>1. /\ h \in Chans /\ \A k \in Links \ {l} : h[k] = f[k]
      /\ b \in down => h = f
      /\ b \notin down => h[l] = Append(f[l], m)
  <2>1. PostFacts(f, l, m, h) /\ l[2] = b
    BY PostForm
  <2> HIDE DEF h, l
  <2> QED
    BY <2>1 DEF PostFacts
<1> HIDE DEF h
<1>2. h[l] = IF b \in down THEN << >> ELSE <<m>>
  BY <1>1
<1>3. Posted(f, a, b, m, h)
  <2> HIDE DEF l
  <2> QED
    BY <1>1, <1>2 DEF Posted, l
<1> QED
  BY <1>3 DEF h

LEMMA TakeLast ==
  ASSUME TypeOK, NEW a, NEW b, <<a, b>> \in Links, Len(chan[<<a, b>>]) = 1
  PROVE  /\ Takes(a, b) \in Chans /\ Takes(a, b)[<<a, b>>] = << >>
         /\ \A k \in Links \ {<<a, b>>} : Takes(a, b)[k] = chan[k]
<1> DEFINE l == <<a, b>>
           h == [chan EXCEPT ![l] = Tail(@)]
<1>1. chan \in Chans /\ chan[l] # << >> /\ Takes(a, b) = h
  <2>1. chan \in Chans /\ chan[l] \in Seq(Messages)
    BY DEF TypeOK, Chans
  <2>2. chan[l] # << >>
    <3>1. Len(<< >>) = 0
      BY EmptySeq
    <3> QED
      BY <3>1
  <2>3. Takes(a, b) = h
    BY DEF Takes
  <2> QED
    BY <2>1, <2>2, <2>3
<1>2. h \in Chans /\ \A k \in Links \ {l} : h[k] = chan[k]
  <2>1. l \in Links
    OBVIOUS
  <2>2. Tail(chan[l]) \in Seq(Messages)
    <3> DEFINE q == chan[l]
    <3>1. q \in Seq(Messages) /\ q # << >>
      BY <1>1 DEF Chans
    <3> HIDE DEF q
    <3>2. Tail(q) \in Seq(Messages)
      BY <3>1
    <3> QED
      BY <3>2 DEF q
  <2> HIDE DEF l
  <2> QED
    BY <1>1, <2>1, <2>2 DEF Chans
<1>3. h[l] = Tail(chan[l])
  BY <1>1 DEF Chans
<1> HIDE DEF h
<1> DEFINE q == chan[l]
<1>4. q \in Seq(Messages) /\ Len(q) = 1 /\ q # << >>
  BY <1>1 DEF Chans
<1>5. Tail(q) = << >>
  <2>1. Tail(q) \in Seq(Messages) /\ Len(Tail(q)) = 0
    <3> HIDE DEF q
    <3> QED
      BY <1>4, HeadTailProperties
  <2> HIDE DEF q
  <2> QED
    BY <2>1, EmptySeq
<1> QED
  BY <1>1, <1>2, <1>3, <1>5

-----------------------------------------------------------------------------
(* A step is one of a session, of its initiator or of a worker that takes    *)
(* one of its messages, or the end of a worker                               *)

Takings(from, w) ==
  WorkerLoads(from, w) \/ WorkerForwards(from, w) \/ WorkerRefuses(from, w) \/ WorkerReleases(from, w)

HandledFor(s, from, w) ==
  <<from, w>> \in Links /\ Takings(from, w) /\ Head(chan[<<from, w>>]).id = s

MovesOf(s) ==
  \/ Initiates(s)
  \/ CallerLeaves(s)
  \/ \E w \in Workers, from \in Homes \cup Workers : HandledFor(s, from, w)

\* What the step of a session does to the connections: it takes messages from those that
\* touch the session, and adds only messages of the session between its nodes.
Touches(s, l) == l[1] \in Area(s) \/ l[2] \in Area(s)

Exchanges(s, f, g) ==
  /\ g \in Chans
  /\ \A l \in Links : ~Touches(s, l) => g[l] = f[l]
  /\ \A l \in Links : \A k \in DOMAIN g[l] :
       \/ l \in LinksOf(s) /\ g[l][k].id = s
       \/ \E j \in DOMAIN f[l] : g[l][k] = f[l][j]
  /\ \A l \in Links : l[2] \in down /\ f[l] = << >> => g[l] = << >>

LEMMA NextCases ==
  ASSUME TypeOK, Next
  PROVE  (\E s \in Sessions : MovesOf(s)) \/ (\E w \in Workers : WorkerEnds(w))
<1>1. ASSUME NEW w \in Workers, WorkerHandles(w) PROVE \E s \in Sessions : MovesOf(s)
  <2>1. PICK from \in Homes \cup Workers : <<from, w>> \in Links /\ Takings(from, w)
    BY <1>1 DEF WorkerHandles, Takings
  <2> DEFINE c == chan[<<from, w>>]
  <2>2. c \in Seq(Messages) /\ c # << >>
    BY <2>1 DEF TypeOK, Takings, WorkerLoads, WorkerForwards, WorkerRefuses, WorkerReleases
  <2>3. Head(c) \in Messages
    <3> HIDE DEF c
    <3> QED
      BY <2>2
  <2>4. Head(c).id \in Sessions
    BY <2>3 DEF Messages
  <2> QED
    BY <2>1, <2>4 DEF MovesOf, HandledFor
<1> QED
  BY <1>1 DEF Next, MovesOf

LEMMA ExchangesSame == \A s \in Sessions : \A f \in Chans : Exchanges(s, f, f)
BY DEF Exchanges

LEMMA TakeExchanges ==
  ASSUME NEW s \in Sessions, NEW f \in Chans, NEW l \in Links, Touches(s, l), f[l] # << >>
  PROVE  Exchanges(s, f, [f EXCEPT ![l] = Tail(@)])
<1> DEFINE g == [f EXCEPT ![l] = Tail(@)]
<1>1. /\ g \in Chans
      /\ \A k \in Links \ {l} : g[k] = f[k]
      /\ \A i \in DOMAIN g[l] : i + 1 \in DOMAIN f[l] /\ g[l][i] = f[l][i + 1]
  BY TakesForm
<1> HIDE DEF g
<1>2. \A k \in Links : ~Touches(s, k) => g[k] = f[k]
  BY <1>1
<1>3. \A k \in Links : \A i \in DOMAIN g[k] : \E j \in DOMAIN f[k] : g[k][i] = f[k][j]
  BY <1>1
<1>4. \A k \in Links : k[2] \in down /\ f[k] = << >> => g[k] = << >>
  BY <1>1
<1> QED
  BY <1>1, <1>2, <1>3, <1>4 DEF Exchanges, g

LEMMA PostExchanges ==
  ASSUME NEW s \in Sessions, NEW f \in Chans, NEW h \in Chans, Exchanges(s, f, h),
         NEW a, NEW b, <<a, b>> \in LinksOf(s), NEW m \in Messages, m.id = s
  PROVE  Exchanges(s, f, Post(h, a, b, m))
<1> DEFINE g == Post(h, a, b, m)
           l == <<a, b>>
<1>1. l \in Links /\ Touches(s, l) /\ l[2] = b
  BY LinksOfIn DEF Touches, LinksOf
<1>2. /\ g \in Chans
      /\ \A k \in Links \ {l} : g[k] = h[k]
      /\ b \in down => g = h
      /\ b \notin down => \A i \in DOMAIN g[l] : \/ i \in DOMAIN h[l] /\ g[l][i] = h[l][i]
                                              \/ g[l][i] = m
  <2>1. PostFacts(h, l, m, g) /\ l[2] = b
    BY <1>1, PostForm
  <2> HIDE DEF g, l
  <2> QED
    BY <2>1 DEF PostFacts
<1> HIDE DEF g
<1>3. \A k \in Links : ~Touches(s, k) => g[k] = f[k]
  BY <1>1, <1>2 DEF Exchanges
<1>4. ASSUME NEW k \in Links, NEW i \in DOMAIN g[k]
      PROVE  \/ k \in LinksOf(s) /\ g[k][i].id = s
             \/ \E j \in DOMAIN f[k] : g[k][i] = f[k][j]
  <2>1. CASE k # l \/ b \in down
    <3>1. g[k] = h[k]
      BY <1>2, <2>1
    <3> QED
      BY <3>1 DEF Exchanges
  <2>2. CASE k = l /\ b \notin down
    <3>1. (i \in DOMAIN h[k] /\ g[k][i] = h[k][i]) \/ g[k][i] = m
      BY <1>2, <2>2
    <3>2. k \in LinksOf(s)
      BY <2>2
    <3> QED
      BY <3>1, <3>2 DEF Exchanges
  <2> QED
    BY <2>1, <2>2
<1>5. \A k \in Links : k[2] \in down /\ f[k] = << >> => g[k] = << >>
  BY <1>1, <1>2 DEF Exchanges
<1> QED
  BY <1>2, <1>3, <1>4, <1>5 DEF Exchanges, g

\* The message a worker takes, and where it comes from.
HandledFacts(s, from, w) ==
  /\ <<from, w>> \in LinksOf(s) /\ <<from, w>> \in Links /\ from \in Area(s) /\ w \in Crew(s)
  /\ w \notin down /\ <<w, from>> \in LinksOf(s)
  /\ chan[<<from, w>>] # << >> /\ 1 \in DOMAIN chan[<<from, w>>]
  /\ Head(chan[<<from, w>>]) = chan[<<from, w>>][1]
  /\ Head(chan[<<from, w>>]) \in Messages /\ Head(chan[<<from, w>>]).id = s

LEMMA HandledForm ==
  ASSUME TypeOK, Routed, NEW s \in Sessions, NEW w \in Workers, NEW from \in Homes \cup Workers,
         HandledFor(s, from, w)
  PROVE  HandledFacts(s, from, w)
<1> DEFINE l == <<from, w>>
           c == chan[l]
           m == Head(c)
<1>1. l \in Links /\ m.id = s /\ c # << >>
  BY DEF HandledFor, Takings, WorkerLoads, WorkerForwards, WorkerRefuses, WorkerReleases
<1>2. c \in Seq(Messages)
  BY <1>1 DEF TypeOK
<1>3. m \in Messages /\ m = c[1] /\ 1 \in DOMAIN c
  <2> HIDE DEF c
  <2> QED
    BY <1>1, <1>2
<1>4. l \in LinksOf(s) /\ w \notin down
  BY <1>1, <1>3 DEF Routed
<1>5. from \in Area(s) /\ w \in Area(s)
  BY <1>4 DEF LinksOf
<1>6. w \in Crew(s)
  BY <1>5, PlanFacts DEF Area
<1>7. <<w, from>> \in LinksOf(s)
  BY <1>5 DEF LinksOf, Links
<1> QED
  BY <1>1, <1>3, <1>4, <1>5, <1>6, <1>7 DEF HandledFacts

LEMMA HandledExchanges ==
  ASSUME TypeOK, Routed, NEW s \in Sessions, NEW w \in Workers, NEW from \in Homes \cup Workers,
         HandledFor(s, from, w)
  PROVE  Exchanges(s, chan, chan')
<1> DEFINE l == <<from, w>>
           m == Head(chan[l])
           h == Takes(from, w)
<1>1. /\ l \in LinksOf(s) /\ l \in Links /\ from \in Area(s) /\ w \in Crew(s) /\ w \in Area(s)
      /\ chan[l] # << >> /\ m \in Messages /\ m.id = s /\ <<w, from>> \in LinksOf(s)
  <2>1. HandledFacts(s, from, w)
    BY HandledForm
  <2> QED
    BY <2>1 DEF HandledFacts, Area
<1>2. Exchanges(s, chan, h) /\ h \in Chans
  <2>1. chan \in Chans /\ Touches(s, l)
    BY <1>1 DEF TypeOK, Chans, Touches
  <2>2. Exchanges(s, chan, [chan EXCEPT ![l] = Tail(@)])
    BY <1>1, <2>1, TakeExchanges
  <2>3. h = [chan EXCEPT ![l] = Tail(@)]
    BY DEF Takes
  <2>4. Exchanges(s, chan, h)
    BY <2>2, <2>3
  <2> QED
    BY <2>4 DEF Exchanges
<1>3. chan \in Chans /\ m.pos \in Nat /\ m.via \in Nat
  BY <1>1 DEF TypeOK, Chans, Messages
<1> HIDE DEF h
<1>4. CASE WorkerLoads(from, w)
  <2>1. PICK ready \in 0..1 : chan' = Post(h, w, from, Msg("ack", s, 0, ready)) \/ chan' = h
    BY <1>1, <1>4 DEF WorkerLoads, Sends, h
  <2>2. Msg("ack", s, 0, ready) \in Messages /\ Msg("ack", s, 0, ready).id = s
    BY MsgType
  <2> QED
    BY <1>1, <1>2, <1>3, <2>1, <2>2, PostExchanges
<1>5. CASE WorkerForwards(from, w)
  <2> DEFINE via == Computed(w, m, Cached(stage[w].cache, m.id, m.pos))
             out == Onward(w, m, via)
  <2>1. chan' = Post(h, w, out.to, out.msg) \/ chan' = h
    BY <1>5 DEF WorkerForwards, Sends, h
  <2>2. via \in Nat
    BY <1>3 DEF Computed
  <2> HIDE DEF via
  <2>3. out.msg \in Messages /\ out.msg.id = s
    <3>1. PICK p \in Nat : p = m.pos
      BY <1>3
    <3>2. out.msg = Msg("logits", s, p, via) \/ out.msg = Msg("act", s, p, via)
      BY <1>1, <3>1 DEF Onward
    <3> HIDE DEF out
    <3>3. Msg("logits", s, p, via) \in Messages /\ Msg("logits", s, p, via).id = s
      BY <2>2, MsgType
    <3>4. Msg("act", s, p, via) \in Messages /\ Msg("act", s, p, via).id = s
      BY <2>2, MsgType
    <3> QED
      BY <3>2, <3>3, <3>4
  <2>4. <<w, out.to>> \in LinksOf(s)
    <3> DEFINE i == Place(w, s)
    <3>1. i \in DOMAIN Plan[s]
      BY <1>1, PlaceFacts
    <3> HIDE DEF i
    <3>2. i = Len(Plan[s]) => out.to = Home[s]
      BY <1>1 DEF Onward, i
    <3>3. i # Len(Plan[s]) => out.to = Plan[s][i + 1]
      BY <1>1 DEF Onward, i
    <3>4. i # Len(Plan[s]) => Plan[s][i + 1] \in Crew(s)
      BY <3>1, PlanFacts
    <3> HIDE DEF out
    <3>5. out.to \in Area(s) /\ (out.to \in Homes \/ out.to \in Workers)
      BY <3>2, <3>3, <3>4, PlanFacts DEF Area
    <3> QED
      BY <1>1, <3>5 DEF LinksOf, Links
  <2> HIDE DEF out
  <2> QED
    BY <1>2, <1>3, <2>1, <2>3, <2>4, PostExchanges
<1>6. CASE WorkerRefuses(from, w)
  <2>1. chan' = Post(h, w, Home[s], Msg("error", s, 0, 0)) \/ chan' = h
    BY <1>1, <1>6 DEF WorkerRefuses, Sends, h
  <2>2. Msg("error", s, 0, 0) \in Messages /\ Msg("error", s, 0, 0).id = s
    BY MsgType
  <2>3. <<w, Home[s]>> \in LinksOf(s)
    BY <1>1, PlanFacts DEF LinksOf, Links, Area
  <2> QED
    BY <1>2, <1>3, <2>1, <2>2, <2>3, PostExchanges
<1>7. CASE WorkerReleases(from, w)
  BY <1>2, <1>7 DEF WorkerReleases, h
<1> QED
  BY <1>4, <1>5, <1>6, <1>7 DEF HandledFor, Takings

LEMMA InitiatorExchanges ==
  ASSUME TypeOK, Unstarted, Counted, NEW s \in Sessions, Initiates(s) \/ CallerLeaves(s)
  PROVE  Exchanges(s, chan, chan')
<1>1. chan \in Chans
  BY DEF TypeOK, Chans
<1>2. ASSUME NEW i \in DOMAIN Plan[s], NEW h \in Chans, Exchanges(s, chan, h),
             NEW k \in {"assign", "act", "release"}, NEW p \in Nat
      PROVE  Exchanges(s, chan, Post(h, Home[s], Plan[s][i], Msg(k, s, p, 0)))
  <2>1. <<Home[s], Plan[s][i]>> \in LinksOf(s)
    BY LinkFacts DEF To
  <2>2. Msg(k, s, p, 0) \in Messages /\ Msg(k, s, p, 0).id = s
    BY MsgType
  <2> QED
    BY <1>1, <1>2, <2>1, <2>2, PostExchanges
<1>3. Exchanges(s, chan, chan)
  BY <1>1, ExchangesSame
<1>4. ASSUME NEW w \in Workers, chan[<<w, Home[s]>>] # << >>
      PROVE  Exchanges(s, chan, Takes(w, Home[s])) /\ Takes(w, Home[s]) \in Chans
  <2>1. <<w, Home[s]>> \in Links /\ Touches(s, <<w, Home[s]>>)
    BY PlanFacts DEF Links, Touches, Area
  <2>2. Exchanges(s, chan, Takes(w, Home[s]))
    BY <1>1, <1>4, <2>1, TakeExchanges DEF Takes
  <2> QED
    BY <2>2 DEF Exchanges
<1>5. 1 \in DOMAIN Plan[s]
  BY PlanFacts
<1>6. call[s] \in {"new", "assigning", "releasing"} => count[s] + 1 \in DOMAIN Plan[s]
  BY PlanFacts DEF Unstarted, Counted, TypeOK
<1>7. CASE SendAssign(s)
  <2>1. \/ chan' = Post(chan, Home[s], Plan[s][count[s] + 1], Msg("assign", s, 0, 0))
        \/ chan' = chan
    BY <1>7 DEF SendAssign, Sends
  <2> QED
    BY <1>1, <1>2, <1>3, <1>6, <1>7, <2>1 DEF SendAssign
<1>8. CASE Release(s)
  <2>1. \/ chan' = Post(chan, Home[s], Plan[s][count[s] + 1], Msg("release", s, 0, 0))
        \/ chan' = chan
    BY <1>8 DEF Release, Sends
  <2> QED
    BY <1>1, <1>2, <1>3, <1>6, <1>8, <2>1 DEF Release
<1>9. CASE StreamStarts(s)
  <2>1. \/ chan' = Post(chan, Home[s], Plan[s][1], Msg("act", s, 0, 0))
        \/ chan' = chan
    BY <1>9 DEF StreamStarts, Sends
  <2> QED
    BY <1>1, <1>2, <1>3, <1>5, <2>1
<1>10. ASSUME NEW w \in Workers, SetupReads(s, w) PROVE Exchanges(s, chan, chan')
  BY <1>4, <1>10 DEF SetupReads
<1>11. ASSUME NEW w \in Workers, StreamReads(s, w) PROVE Exchanges(s, chan, chan')
  <2> DEFINE h == Takes(w, Home[s])
             p == Len(got[s]) + 1
  <2>1. Exchanges(s, chan, h) /\ h \in Chans
    BY <1>4, <1>11 DEF StreamReads
  <2>2. p \in Nat
    BY DEF TypeOK, Tokens
  <2>3. chan' = h \/ chan' = Post(h, Home[s], Plan[s][1], Msg("act", s, p, 0))
    BY <1>11 DEF StreamReads, TakeLogits, Sends
  <2> HIDE DEF h, p
  <2> QED
    BY <1>2, <1>5, <2>1, <2>2, <2>3
<1>12. CASE CallerLeaves(s)
  BY <1>3, <1>12 DEF CallerLeaves
<1> QED
  BY <1>7, <1>8, <1>9, <1>10, <1>11, <1>12 DEF Initiates

\* What the step of a session leaves to the others.
LEMMA MovesForm ==
  ASSUME TypeOK, Routed, Unstarted, Counted, NEW s \in Sessions, MovesOf(s)
  PROVE  /\ Exchanges(s, chan, chan') /\ down' = down
         /\ \A t \in Sessions \ {s} : /\ call'[t] = call[t] /\ count'[t] = count[t]
                                     /\ got'[t] = got[t]
         /\ \A w \in Workers \ Crew(s) : stage'[w] = stage[w]
         /\ \/ disturbed' = disturbed /\ Under(s)
            \/ SendAssign(s) /\ call[s] = "new" /\ Disturb(s)
<1>1. CASE Initiates(s) \/ CallerLeaves(s)
  <2>1. stage' = stage /\ down' = down
    BY <1>1 DEF Initiates, CallerLeaves, SendAssign, SetupReads, StreamStarts, StreamReads, Release, workerVars
  <2>2. \A t \in Sessions \ {s} : call'[t] = call[t] /\ count'[t] = count[t] /\ got'[t] = got[t]
    <3>1. ASSUME SendAssign(s) \/ StreamStarts(s) \/ Release(s) \/ CallerLeaves(s)
          PROVE \A t \in Sessions \ {s} : call'[t] = call[t] /\ count'[t] = count[t] /\ got'[t] = got[t]
      BY <3>1 DEF SendAssign, StreamStarts, Release, CallerLeaves, Over, TypeOK
    <3>2. ASSUME NEW w \in Workers, SetupReads(s, w)
          PROVE \A t \in Sessions \ {s} : call'[t] = call[t] /\ count'[t] = count[t] /\ got'[t] = got[t]
      BY <3>2 DEF SetupReads, Over, TypeOK
    <3>3. ASSUME NEW w \in Workers, StreamReads(s, w)
          PROVE \A t \in Sessions \ {s} : call'[t] = call[t] /\ count'[t] = count[t] /\ got'[t] = got[t]
      BY <3>3 DEF StreamReads, TakeLogits, Leave, Awaits, TypeOK
    <3> QED
      BY <1>1, <3>1, <3>2, <3>3 DEF Initiates
  <2>3. \/ disturbed' = disturbed /\ Under(s)
        \/ SendAssign(s) /\ call[s] = "new" /\ Disturb(s)
    BY <1>1 DEF Initiates, CallerLeaves, SendAssign, SetupReads, StreamStarts, StreamReads, Release, Under
  <2> QED
    BY <1>1, <2>1, <2>2, <2>3, InitiatorExchanges
<1>2. ASSUME NEW w \in Workers, NEW from \in Homes \cup Workers, HandledFor(s, from, w)
      PROVE  /\ Exchanges(s, chan, chan') /\ UNCHANGED <<down, call, count, got, disturbed>>
             /\ \A x \in Workers \ Crew(s) : stage'[x] = stage[x]
             /\ Under(s)
  <2>1. w \in Crew(s) /\ Under(s)
    <3> DEFINE l == <<from, w>>
    <3> DEFINE m == Head(chan[l])
    <3>1. w \in Crew(s) /\ l \in Links /\ 1 \in DOMAIN chan[l] /\ m = chan[l][1] /\ m.id = s
      <4>1. HandledFacts(s, from, w)
        BY <1>2, HandledForm
      <4> QED
        BY <4>1 DEF HandledFacts
    <3> HIDE DEF l, m
    <3> QED
      BY <3>1 DEF Under
  <2>2. UNCHANGED <<down, call, count, got, disturbed>>
    BY <1>2 DEF HandledFor, Takings, WorkerLoads, WorkerForwards, WorkerRefuses, WorkerReleases, callVars,
       workerVars
  <2>3. \A x \in Workers \ {w} : stage'[x] = stage[x]
    BY <1>2 DEF HandledFor, Takings, WorkerLoads, WorkerForwards, WorkerRefuses, WorkerReleases,
       workerVars, TypeOK
  <2> QED
    BY <1>2, <2>1, <2>2, <2>3, HandledExchanges
<1> QED
  BY <1>1, <1>2 DEF MovesOf

LEMMA EndsForm ==
  ASSUME TypeOK, NEW w \in Workers, WorkerEnds(w)
  PROVE  /\ chan' \in Chans /\ w \notin down /\ down' = down \cup {w}
         /\ \A l \in Links : chan'[l] = IF l[2] = w THEN << >> ELSE chan[l]
         /\ \A x \in Workers \ {w} : stage'[x] = stage[x]
         /\ stage'[w] = NoStage
         /\ UNCHANGED <<call, count, got, disturbed>>
<1>1. chan' = [l \in Links |-> IF l[2] = w THEN << >> ELSE chan[l]]
  BY DEF WorkerEnds
<1>2. \A l \in Links : chan[l] \in Seq(Messages) /\ << >> \in Seq(Messages)
  BY DEF TypeOK
<1>3. chan' \in Chans
  BY <1>1, <1>2 DEF Chans
<1>4. /\ w \notin down /\ down' = down \cup {w} /\ UNCHANGED <<call, count, got, disturbed>>
      /\ stage' = [stage EXCEPT ![w] = NoStage]
  BY DEF WorkerEnds, callVars
<1> QED
  BY <1>1, <1>3, <1>4 DEF TypeOK

LEMMA RoutedNext ==
  ASSUME TypeOK, Routed, Unstarted, Counted, Next
  PROVE  Routed'
<1>1. ASSUME NEW s \in Sessions, MovesOf(s) PROVE Routed'
  <2>1. Exchanges(s, chan, chan') /\ down' = down
    BY <1>1, MovesForm
  <2>2. ASSUME NEW l \in Links, NEW k \in DOMAIN chan'[l]
        PROVE  l \in LinksOf(chan'[l][k].id)
    <3>1. CASE l \in LinksOf(s) /\ chan'[l][k].id = s
      BY <3>1
    <3>2. ASSUME NEW j \in DOMAIN chan[l], chan'[l][k] = chan[l][j]
          PROVE  l \in LinksOf(chan'[l][k].id)
      BY <3>2 DEF Routed
    <3> QED
      BY <2>1, <3>1, <3>2 DEF Exchanges
  <2>3. \A l \in Links : l[2] \in down' => chan'[l] = << >>
    BY <2>1 DEF Exchanges, Routed
  <2> QED
    BY <2>2, <2>3 DEF Routed, LinksOf, Area, Crew
<1>2. ASSUME NEW w \in Workers, WorkerEnds(w) PROVE Routed'
  <2>1. /\ down' = down \cup {w}
        /\ \A l \in Links : chan'[l] = IF l[2] = w THEN << >> ELSE chan[l]
    BY <1>2, EndsForm
  <2>2. \A l \in Links : \A k \in DOMAIN chan'[l] : l \in LinksOf(chan'[l][k].id)
    BY <2>1 DEF Routed
  <2>3. \A l \in Links : l[2] \in down' => chan'[l] = << >>
    BY <2>1 DEF Routed
  <2> QED
    BY <2>2, <2>3 DEF Routed, LinksOf, Area, Crew
<1> QED
  BY <1>1, <1>2, NextCases

LEMMA MovedOn ==
  ASSUME TypeOK, Routed, Unstarted, Counted, NEW s \in Sessions, MovesOf(s)
  PROVE  /\ call'[s] # "new"
         /\ call'[s] \in {"assigning", "releasing"} => count'[s] < Len(Plan[s])
<1>a. call[s] \in {"new", "assigning", "releasing"} => count[s] < Len(Plan[s])
  BY PlanFacts DEF Unstarted, Counted
<1>b. count[s] \in Nat /\ Len(Plan[s]) \in Nat \ {0}
  BY PlanFacts DEF TypeOK
<1>1. CASE SendAssign(s)
  BY <1>1, <1>a, <1>b DEF SendAssign, Over, TypeOK
<1>2. CASE StreamStarts(s) \/ CallerLeaves(s)
  BY <1>2 DEF StreamStarts, CallerLeaves, Over, TypeOK
<1>3. CASE Release(s)
  BY <1>3, <1>a, <1>b DEF Release, TypeOK
<1>4. ASSUME NEW w \in Workers, SetupReads(s, w)
      PROVE  call'[s] \in {"acking", "ready", "over"}
  BY <1>4 DEF SetupReads, Over, TypeOK
<1>5. ASSUME NEW w \in Workers, StreamReads(s, w)
      PROVE  call'[s] = "waiting" \/ (call'[s] = "releasing" /\ count'[s] = 0)
  BY <1>5 DEF StreamReads, TakeLogits, Leave, Awaits, TypeOK
<1>6. ASSUME NEW w \in Workers, NEW from \in Homes \cup Workers, HandledFor(s, from, w)
      PROVE  call'[s] = call[s] /\ count'[s] = count[s] /\ call[s] # "new"
  <2> DEFINE l == <<from, w>>
             m == Head(chan[l])
  <2>1. l \in Links /\ 1 \in DOMAIN chan[l] /\ m = chan[l][1] /\ m.id = s
    <3>1. HandledFacts(s, from, w)
      BY <1>6, HandledForm
    <3> QED
      BY <3>1 DEF HandledFacts
  <2> HIDE DEF l, m
  <2>2. call[s] # "new"
    BY <2>1 DEF Unstarted
  <2>3. UNCHANGED <<call, count>>
    BY <1>6 DEF HandledFor, Takings, WorkerLoads, WorkerForwards, WorkerRefuses, WorkerReleases, callVars
  <2> QED
    BY <2>2, <2>3
<1> QED
  BY <1>a, <1>b, <1>1, <1>2, <1>3, <1>4, <1>5, <1>6 DEF MovesOf, Initiates

LEMMA UnstartedNext ==
  ASSUME TypeOK, Routed, Unstarted, Counted, Next
  PROVE  Unstarted' /\ Counted'
<1>1. ASSUME NEW s \in Sessions, MovesOf(s) PROVE Unstarted' /\ Counted'
  <2>1. /\ Exchanges(s, chan, chan')
        /\ \A t \in Sessions \ {s} : call'[t] = call[t] /\ count'[t] = count[t]
    BY <1>1, MovesForm
  <2>2. ASSUME NEW t \in Sessions, call'[t] = "new"
        PROVE  count'[t] = 0 /\ \A l \in Links : \A k \in DOMAIN chan'[l] : chan'[l][k].id # t
    <3>1. t # s /\ call[t] = "new"
      BY <1>1, <2>1, <2>2, MovedOn
    <3>2. ASSUME NEW l \in Links, NEW k \in DOMAIN chan'[l] PROVE chan'[l][k].id # t
      BY <2>1, <3>1 DEF Exchanges, Unstarted
    <3> QED
      BY <2>1, <3>1, <3>2 DEF Unstarted
  <2>3. Counted'
    BY <1>1, <2>1, MovedOn DEF Counted
  <2> QED
    BY <2>2, <2>3 DEF Unstarted
<1>2. ASSUME NEW w \in Workers, WorkerEnds(w) PROVE Unstarted' /\ Counted'
  <2>1. /\ \A l \in Links : chan'[l] = IF l[2] = w THEN << >> ELSE chan[l]
        /\ UNCHANGED <<call, count>>
    BY <1>2, EndsForm
  <2>2. ASSUME NEW t \in Sessions, call'[t] = "new"
        PROVE  count'[t] = 0 /\ \A l \in Links : \A k \in DOMAIN chan'[l] : chan'[l][k].id # t
    BY <2>1, <2>2 DEF Unstarted
  <2> QED
    BY <2>1, <2>2 DEF Unstarted, Counted
<1> QED
  BY <1>1, <1>2, NextCases

-----------------------------------------------------------------------------
(* What an undisturbed session has for itself *)

LEMMA MeetFacts ==
  ASSUME NEW s \in Sessions, NEW t \in Sessions
  PROVE  /\ Meet(s, t) <=> Meet(t, s)
         /\ s # t /\ Area(s) \cap Area(t) # {} => Meet(s, t)
<1>1. /\ Crew(s) \subseteq Workers /\ Home[s] \notin Workers
      /\ Crew(t) \subseteq Workers /\ Home[t] \notin Workers
  BY PlanFacts
<1>2. Meet(s, t) <=> Meet(t, s)
  BY DEF Meet
<1>3. ASSUME s # t, NEW a, a \in Area(s), a \in Area(t) PROVE Meet(s, t)
  BY <1>1, <1>3 DEF Meet, Area
<1> QED
  BY <1>2, <1>3

\* No step but a start brings a session under way.
LEMMA UnderSteps ==
  ASSUME TypeOK, Routed, Unstarted, Counted, NEW s \in Sessions, MovesOf(s), NEW t \in Sessions,
         Under(t)', t # s \/ Under(s)
  PROVE  Under(t)
<1>1. CASE t = s
  BY <1>1
<1>2. CASE t # s
  <2>1. Exchanges(s, chan, chan') /\ call'[t] = call[t]
    BY <1>2, MovesForm
  <2>2. CASE call'[t] \notin {"new", "over"}
    BY <2>1, <2>2 DEF Under
  <2>3. ASSUME NEW l \in Links, NEW k \in DOMAIN chan'[l], chan'[l][k].id = t PROVE Under(t)
    BY <1>2, <2>1, <2>3 DEF Exchanges, Under
  <2> QED
    BY <2>2, <2>3 DEF Under
<1> QED
  BY <1>1, <1>2

LEMMA ApartNext ==
  ASSUME TypeOK, Routed, Unstarted, Counted, Apart, Next
  PROVE  Apart'
<1>1. ASSUME NEW s \in Sessions, MovesOf(s) PROVE Apart'
  <2>1. CASE disturbed' = disturbed /\ Under(s)
    <3>1. \A t \in Sessions : Under(t)' => Under(t)
      BY <1>1, <2>1, UnderSteps
    <3> QED
      BY <2>1, <3>1 DEF Apart, Meet, Crew
  <2>2. CASE SendAssign(s) /\ call[s] = "new" /\ Disturb(s)
    <3>1. \A t \in Sessions \ {s} : Under(t)' => Under(t)
      BY <1>1, UnderSteps
    <3>2. ASSUME NEW q \in Sessions, ~disturbed'[q], Under(q)', NEW t \in Sessions, Meet(q, t), Under(t)'
          PROVE  FALSE
      <4>1. /\ ~disturbed[q]
            /\ ~(q # s /\ Meet(q, s) /\ Under(q))
            /\ ~(q = s /\ \E r \in Sessions : Meet(s, r) /\ Under(r))
        BY <2>2, <3>2 DEF Disturb
      <4>2. q # t
        BY <3>2 DEF Meet
      <4>3. CASE q = s
        BY <3>1, <3>2, <4>1, <4>2, <4>3
      <4>4. CASE q # s
        <5>1. Under(q) /\ t # s
          BY <3>1, <3>2, <4>1, <4>4
        <5> QED
          BY <3>1, <3>2, <4>1, <5>1 DEF Apart
      <4> QED
        BY <4>3, <4>4
    <3> QED
      BY <3>2 DEF Apart, Meet, Crew
  <2> QED
    BY <1>1, <2>1, <2>2, MovesForm
<1>2. ASSUME NEW w \in Workers, WorkerEnds(w) PROVE Apart'
  <2>1. /\ \A l \in Links : chan'[l] = IF l[2] = w THEN << >> ELSE chan[l]
        /\ UNCHANGED <<call, disturbed>>
    BY <1>2, EndsForm
  <2>2. \A t \in Sessions : Under(t)' => Under(t)
    BY <2>1 DEF Under
  <2> QED
    BY <2>1, <2>2 DEF Apart, Meet, Crew
<1> QED
  BY <1>1, <1>2, NextCases

\* On the connections that touch an undisturbed session there are only its messages, and
\* only between its nodes.
LEMMA OnlyOwn ==
  ASSUME TypeOK, Routed, NEW s \in Sessions, \A t \in Sessions : Meet(s, t) => ~Under(t),
         NEW l \in Links, Touches(s, l), NEW k \in DOMAIN chan[l]
  PROVE  chan[l][k].id = s /\ l \in LinksOf(s)
<1> DEFINE t == chan[l][k].id
<1>1. t \in Sessions
  <2> DEFINE c == chan[l]
  <2>1. c \in Seq(Messages)
    BY DEF TypeOK
  <2>2. k \in DOMAIN c
    OBVIOUS
  <2>3. c[k] \in Messages
    <3> HIDE DEF c
    <3> QED
      BY <2>1, <2>2
  <2> QED
    BY <2>3 DEF Messages
<1>2. l \in LinksOf(t)
  BY DEF Routed
<1>3. Area(s) \cap Area(t) # {}
  BY <1>2 DEF Touches, LinksOf
<1>4. Under(t)
  BY <1>1 DEF Under
<1> HIDE DEF t
<1>5. t = s
  BY <1>1, <1>3, <1>4, MeetFacts
<1> QED
  BY <1>2, <1>5 DEF t

\* The steps of the others leave an undisturbed session as it was.
LEMMA Frame ==
  ASSUME TypeOK, Routed, Unstarted, Counted, Apart, NEW s \in Sessions, MovesOf(s),
         NEW q \in Sessions \ {s}, ~disturbed'[q]
  PROVE  /\ ~disturbed[q] /\ down' = down
         /\ call'[q] = call[q] /\ count'[q] = count[q] /\ got'[q] = got[q]
         /\ Under(q) => /\ \A l \in LinksOf(q) : chan'[l] = chan[l]
                        /\ \A w \in Crew(q) : stage'[w] = stage[w]
<1>1. /\ Exchanges(s, chan, chan') /\ down' = down
      /\ call'[q] = call[q] /\ count'[q] = count[q] /\ got'[q] = got[q]
      /\ \A w \in Workers \ Crew(s) : stage'[w] = stage[w]
      /\ \/ disturbed' = disturbed /\ Under(s)
         \/ SendAssign(s) /\ call[s] = "new" /\ Disturb(s)
  BY MovesForm
<1>2. ~disturbed[q] /\ (Under(q) => ~Meet(q, s))
  <2>1. CASE disturbed' = disturbed /\ Under(s)
    BY <2>1 DEF Apart
  <2>2. CASE Disturb(s)
    BY <2>2 DEF Disturb
  <2> QED
    BY <1>1, <2>1, <2>2
<1>3. ASSUME Under(q)
      PROVE  /\ \A l \in LinksOf(q) : chan'[l] = chan[l]
             /\ \A w \in Crew(q) : stage'[w] = stage[w]
  <2>1. Area(q) \cap Area(s) = {}
    BY <1>2, <1>3, MeetFacts
  <2>2. \A l \in LinksOf(q) : l \in Links /\ ~Touches(s, l)
    BY <2>1 DEF LinksOf, Touches
  <2>3. \A w \in Crew(q) : w \in Workers \ Crew(s)
    BY <2>1, PlanFacts DEF Area
  <2> QED
    BY <1>1, <2>2, <2>3 DEF Exchanges
<1> QED
  BY <1>1, <1>2, <1>3

-----------------------------------------------------------------------------
(* A session on its course: what its steps make of it *)

LEMMA Constant ==
  \A s \in Sessions :
    /\ LinksOf(s)' = LinksOf(s)
    /\ \A i \in DOMAIN Plan[s] : To(s, i)' = To(s, i) /\ From(s, i)' = From(s, i)
BY DEF LinksOf, Links, Homes, Area, Crew, To, From

LEMMA PrefixFacts ==
  ASSUME NEW s \in Sessions, NEW n \in Nat
  PROVE  /\ Prefix(s, 0) = << >>
         /\ Prefix(s, n) \in Caches
         /\ Cached(Prefix(s, n), s, n) = Prefix(s, n + 1)
         /\ Alone(s, n) = Prefix(s, n + 1)
<1>1. Prefix(s, 0) = << >>
  BY DEF Prefix
<1>2. Prefix(s, n) \in Caches /\ Len(Prefix(s, n)) = n
  BY DEF Prefix, Caches
<1>3. Alone(s, n) = Prefix(s, n + 1)
  BY DEF Alone, Prefix
<1>4. Cached(Prefix(s, n), s, n) = Prefix(s, n + 1)
  <2>1. CASE n = 0
    BY <2>1 DEF Cached, Prefix
  <2>2. CASE n # 0
    <3> DEFINE e == [id |-> s, pos |-> n]
               a == Append(Prefix(s, n), e)
               b == Prefix(s, n + 1)
    <3>1. e \in [id : Sessions, pos : Nat]
      OBVIOUS
    <3>2. /\ a \in Caches /\ Len(a) = n + 1
          /\ \A i \in 1..n : a[i] = Prefix(s, n)[i]
          /\ a[n + 1] = e
      <4> HIDE DEF e
      <4> QED
        BY <1>2, <3>1, AppendProperties DEF Caches
    <3>3. b \in Caches /\ Len(b) = n + 1
      BY DEF Prefix, Caches
    <3>4. \A i \in 1..n + 1 : a[i] = b[i]
      BY <3>2 DEF Prefix
    <3>5. a = b
      <4> HIDE DEF a, b
      <4> QED
        BY <3>2, <3>3, <3>4, SeqEqual DEF Caches
    <3> QED
      BY <2>2, <3>5 DEF Cached
  <2> QED
    BY <2>1, <2>2
<1> QED
  BY <1>1, <1>2, <1>3, <1>4

\* What is alone under way has its connections for itself.
LEMMA OwnLinks ==
  ASSUME TypeOK, Routed, Apart, NEW s \in Sessions, ~disturbed[s], Under(s),
         NEW l \in Links, Touches(s, l), chan[l] # << >>
  PROVE  /\ l \in LinksOf(s) /\ 1 \in DOMAIN chan[l] /\ Head(chan[l]) = chan[l][1]
         /\ chan[l] \in Seq(Messages) /\ chan[l][1].id = s
<1> DEFINE c == chan[l]
<1>1. c \in Seq(Messages) /\ c # << >>
  BY DEF TypeOK
<1>2. 1 \in DOMAIN c /\ Head(c) = c[1]
  <2> HIDE DEF c
  <2> QED
    BY <1>1
<1>3. \A t \in Sessions : Meet(s, t) => ~Under(t)
  BY DEF Apart
<1> QED
  BY <1>1, <1>2, <1>3, OnlyOwn

\* What the session has is kept by a step that keeps its connections and its stages.
LEMMA Kept ==
  ASSUME NEW q \in Sessions, OnCourse(q), down' = down,
         call'[q] = call[q], count'[q] = count[q], got'[q] = got[q],
         call[q] \in {"new", "over", "releasing"}
           \/ /\ \A l \in LinksOf(q) : chan'[l] = chan[l]
              /\ \A w \in Crew(q) : stage'[w] = stage[w]
  PROVE  OnCourse(q)'
<1>1. CASE call[q] \in {"new", "over", "releasing"}
  BY <1>1 DEF OnCourse
<1>2. CASE /\ \A l \in LinksOf(q) : chan'[l] = chan[l]
           /\ \A w \in Crew(q) : stage'[w] = stage[w]
  <2>1. /\ \A i \in DOMAIN Plan[q] : /\ chan'[To(q, i)] = chan[To(q, i)]
                                     /\ chan'[From(q, i)] = chan[From(q, i)]
                                     /\ stage'[Plan[q][i]] = stage[Plan[q][i]]
    BY <1>2, LinkFacts, PlanFacts
  <2>2. \A i \in DOMAIN Plan[q] : \A n : Holds(q, i, n)' <=> Holds(q, i, n)
    BY <2>1 DEF Holds
  <2>3. SetsUp(q) => SetsUp(q)'
    <3>1. Done(q)' = Done(q)
      BY <2>1, <2>2, Constant DEF Done
    <3>2. ASSUME NEW i \in DOMAIN Plan[q], NEW l \in LinksOf(q), AssignedAt(q, i, l)
          PROVE  AssignedAt(q, i, l)'
      BY <1>2, <2>1, <2>2, <3>2, Constant DEF AssignedAt
    <3> QED
      BY <1>2, <3>1, <3>2, Constant DEF SetsUp
  <2>4. IsReady(q) => IsReady(q)'
    BY <1>2, <2>2, Constant DEF IsReady
  <2>5. Streams(q) => Streams(q)'
    <3>1. ASSUME NEW k, Passed(q, k) PROVE Passed(q, k)'
      BY <2>2, <3>1 DEF Passed
    <3>2. ASSUME NEW l, NEW m, UnderWay(q, l, m) PROVE UnderWay(q, l, m)'
      <4>1. CASE LogitsAt(q, l, m)
        BY <3>1, <4>1, Constant, PlanFacts DEF UnderWay, LogitsAt
      <4>2. ASSUME NEW i \in DOMAIN Plan[q], ActAt(q, i, l, m) PROVE ActAt(q, i, l, m)'
        BY <3>1, <4>2 DEF ActAt
      <4> QED
        BY <3>2, <4>1, <4>2 DEF UnderWay
    <3>3. ASSUME NEW l \in LinksOf(q), Streams(q), chan'[l] # << >>
          PROVE  /\ Len(chan'[l]) = 1 /\ UnderWay(q, l, chan[l][1])'
                 /\ \A k \in LinksOf(q) \ {l} : chan'[k] = << >>
      <4>1. UnderWay(q, l, chan[l][1])
        BY <1>2, <3>3 DEF Streams
      <4> DEFINE m == chan[l][1]
      <4>2. PICK x : x = m
        OBVIOUS
      <4>3. UnderWay(q, l, x)'
        BY <3>2, <4>1, <4>2
      <4> QED
        BY <1>2, <3>3, <4>3, <4>2 DEF Streams
    <3> QED
      BY <3>3, Constant DEF Streams
  <2> QED
    BY <2>3, <2>4, <2>5 DEF OnCourse
<1> QED
  BY <1>1, <1>2

\* The end of a worker takes what was on the way to it.
LEMMA EndKeeps ==
  ASSUME TypeOK, NEW w \in Workers, WorkerEnds(w), NEW q \in Sessions, OnCourse(q)
  PROVE  OnCourse(q)'
<1>1. /\ down' = down \cup {w} /\ UNCHANGED <<call, count, got>>
      /\ \A l \in Links : chan'[l] = IF l[2] = w THEN << >> ELSE chan[l]
      /\ \A x \in Workers \ {w} : stage'[x] = stage[x]
  BY EndsForm
<1>2. \A l \in LinksOf(q) : chan'[l] = chan[l] \/ chan'[l] = << >>
  BY <1>1, LinksOfIn
<1>3. \A i \in DOMAIN Plan[q] :
        /\ chan'[To(q, i)] = chan[To(q, i)] \/ chan'[To(q, i)] = << >>
        /\ chan'[From(q, i)] = chan[From(q, i)] \/ chan'[From(q, i)] = << >>
        /\ Plan[q][i] \in Workers
  BY <1>2, LinkFacts, PlanFacts
<1>4. \A i \in DOMAIN Plan[q] : \A n : Holds(q, i, n) => Holds(q, i, n)'
  BY <1>1, <1>3 DEF Holds
<1>5. SetsUp(q) => SetsUp(q)'
  <2>1. Done(q) \subseteq Done(q)' /\ Done(q)' \subseteq DOMAIN Plan[q]
    BY <1>3, <1>4, Constant DEF Done
  <2>2. Cardinality(Done(q)) <= Cardinality(Done(q)') /\ Cardinality(Done(q)) \in Nat /\ Cardinality(Done(q)') \in Nat
    <3>1. IsFiniteSet(DOMAIN Plan[q])
      BY PlanFacts, FS_Interval
    <3> QED
      BY <2>1, <3>1, FS_Subset, FS_CardinalityType
  <2>3. ASSUME NEW i \in DOMAIN Plan[q], NEW l \in LinksOf(q), AssignedAt(q, i, l), chan'[l] # << >>
        PROVE  AssignedAt(q, i, l)'
    BY <1>1, <1>2, <1>3, <1>4, <2>3, Constant DEF AssignedAt
  <2>4. Cardinality(Done(q))' = Cardinality(Done(q)')
    OBVIOUS
  <2>5. count[q] \in Nat
    BY DEF TypeOK
  <2> QED
    BY <1>1, <1>2, <2>2, <2>3, <2>4, <2>5, Constant DEF SetsUp
<1>6. IsReady(q) => IsReady(q)'
  BY <1>1, <1>2, <1>4, Constant DEF IsReady
<1>7. Streams(q) => Streams(q)'
  <2>1. ASSUME NEW k, Passed(q, k) PROVE Passed(q, k)'
    BY <1>1, <1>4, <2>1 DEF Passed
  <2>2. ASSUME NEW l, NEW m, UnderWay(q, l, m) PROVE UnderWay(q, l, m)'
    <3>1. CASE LogitsAt(q, l, m)
      BY <1>1, <2>1, <3>1, Constant, PlanFacts DEF UnderWay, LogitsAt
    <3>2. ASSUME NEW i \in DOMAIN Plan[q], ActAt(q, i, l, m) PROVE ActAt(q, i, l, m)'
      BY <1>1, <2>1, <3>2 DEF ActAt
    <3> QED
      BY <2>2, <3>1, <3>2 DEF UnderWay
  <2>3. ASSUME NEW l \in LinksOf(q), Streams(q), chan'[l] # << >>
        PROVE  /\ Len(chan'[l]) = 1 /\ UnderWay(q, l, chan[l][1])'
               /\ \A k \in LinksOf(q) \ {l} : chan'[k] = << >>
    <3>1. chan'[l] = chan[l] /\ UnderWay(q, l, chan[l][1])
      BY <1>2, <2>3 DEF Streams
    <3> DEFINE m == chan[l][1]
    <3>2. PICK x : x = m
      OBVIOUS
    <3>3. UnderWay(q, l, x)'
      BY <2>2, <3>1, <3>2
    <3> QED
      BY <1>2, <2>3, <3>1, <3>2, <3>3 DEF Streams
  <2> QED
    BY <2>3, Constant DEF Streams
<1> QED
  BY <1>1, <1>5, <1>6, <1>7 DEF OnCourse

\* What remains of the acknowledgements when they are counted.
LEMMA DoneFacts ==
  ASSUME NEW s \in Sessions, NEW D, Done(s) \subseteq D, D \subseteq DOMAIN Plan[s]
  PROVE  /\ Cardinality(D) \in Nat /\ Cardinality(Done(s)) \in Nat
         /\ Cardinality(Done(s)) <= Cardinality(D)
         /\ \A i \in D \ Done(s) : Cardinality(Done(s)) + 1 <= Cardinality(D)
         /\ Cardinality(D) <= Len(Plan[s])
         /\ Cardinality(D) = Len(Plan[s]) => D = DOMAIN Plan[s]
<1>1. IsFiniteSet(DOMAIN Plan[s]) /\ Cardinality(DOMAIN Plan[s]) = Len(Plan[s])
  BY PlanFacts, FS_Interval
<1>2. /\ IsFiniteSet(D) /\ Cardinality(D) \in Nat /\ Cardinality(D) <= Len(Plan[s])
      /\ Cardinality(D) = Len(Plan[s]) => D = DOMAIN Plan[s]
  BY <1>1, FS_Subset, FS_CardinalityType
<1>3. IsFiniteSet(Done(s)) /\ Cardinality(Done(s)) \in Nat /\ Cardinality(Done(s)) <= Cardinality(D)
  BY <1>2, FS_Subset, FS_CardinalityType
<1>4. ASSUME NEW i \in D \ Done(s) PROVE Cardinality(Done(s)) + 1 <= Cardinality(D)
  <2>1. Cardinality(Done(s) \cup {i}) = Cardinality(Done(s)) + 1
    BY <1>3, FS_AddElement
  <2>2. Done(s) \cup {i} \subseteq D
    OBVIOUS
  <2> QED
    BY <1>2, <2>1, <2>2, FS_Subset
<1> QED
  BY <1>2, <1>3, <1>4

\* The next assignment goes to a worker that has had none.
LEMMA AssignKeeps ==
  ASSUME TypeOK, Routed, Unstarted, Counted, Apart, NEW s \in Sessions, ~disturbed'[s], ~disturbed[s],
         OnCourse(s), SendAssign(s)
  PROVE  OnCourse(s)'
<1>0. PICK j \in Nat : j = count[s] + 1
  BY DEF TypeOK
<1> DEFINE w == Plan[s][j]
           m == Msg("assign", s, 0, 0)
           last == j = Len(Plan[s])
<1>1. /\ call[s] \in {"new", "assigning"} /\ count[s] \in Nat /\ j = count[s] + 1
      /\ j \in DOMAIN Plan[s] /\ w \in Workers
  BY <1>0, PlanFacts DEF SendAssign, Unstarted, Counted, TypeOK
<1>2. got[s] = << >>
  BY <1>1 DEF OnCourse, SetsUp
<1>3. ASSUME NEW l \in LinksOf(s), chan[l] # << >>
      PROVE  \E i \in DOMAIN Plan[s] : i <= count[s] /\ AssignedAt(s, i, l)
  <2>1. CASE call[s] = "assigning"
    BY <1>3, <2>1 DEF OnCourse, SetsUp, AssignedAt
  <2>2. CASE call[s] = "new"
    <3>1. \A t \in Sessions : Meet(s, t) => ~Under(t)
      BY <2>2 DEF SendAssign, Disturb
    <3>2. l \in Links /\ Touches(s, l)
      BY LinksOfIn DEF LinksOf, Touches
    <3>3. 1 \in DOMAIN chan[l]
      <4> DEFINE c == chan[l]
      <4>1. c \in Seq(Messages) /\ c # << >>
        BY <1>3, <3>2 DEF TypeOK
      <4>2. 1 \in DOMAIN c
        <5> HIDE DEF c
        <5> QED
          BY <4>1
      <4> QED
        BY <4>2
    <3>4. chan[l][1].id = s
      BY <3>1, <3>2, <3>3, OnlyOwn
    <3> QED
      BY <2>2, <3>2, <3>3, <3>4 DEF Unstarted
  <2> QED
    BY <1>1, <2>1, <2>2
<1>4. To(s, j) \in LinksOf(s) /\ From(s, j) \in LinksOf(s) /\ To(s, j) \in Links
  BY <1>1, LinkFacts, LinksOfIn
<1>5. chan[To(s, j)] = << >> /\ chan[From(s, j)] = << >>
  BY <1>1, <1>3, <1>4, LinkFacts DEF AssignedAt
<1>6. CASE chan' = chan /\ call'[s] = "over"
  BY <1>6 DEF OnCourse
<1>7. CASE /\ chan' = Post(chan, Home[s], w, m) \/ chan' = chan
           /\ call' = [call EXCEPT ![s] = IF last THEN "acking" ELSE "assigning"]
           /\ count' = [count EXCEPT ![s] = IF last THEN 0 ELSE @ + 1]
  <2>1. UNCHANGED <<got, stage, down>>
    BY DEF SendAssign, workerVars
  <2>2. /\ call'[s] = IF last THEN "acking" ELSE "assigning"
        /\ count'[s] = IF last THEN 0 ELSE j
    BY <1>1, <1>7 DEF TypeOK
  <2>3. /\ \A l \in LinksOf(s) \ {To(s, j)} : chan'[l] = chan[l]
        /\ chan'[To(s, j)] = << >> \/ chan'[To(s, j)] = <<m>>
    <3>1. chan \in Chans /\ m \in Messages
      BY MsgType DEF TypeOK, Chans
    <3>2. /\ \A l \in Links \ {To(s, j)} : chan'[l] = chan[l]
          /\ chan'[To(s, j)] = << >> \/ chan'[To(s, j)] = <<m>>
      <4>1. To(s, j) = <<Home[s], w>>
        BY DEF To
      <4> HIDE DEF m, w
      <4>2. Posted(chan, Home[s], w, m, Post(chan, Home[s], w, m))
        BY <1>4, <1>5, <3>1, <4>1, PostEmpty
      <4> QED
        BY <1>5, <1>7, <4>1, <4>2 DEF Posted, m, w
    <3> QED
      BY <3>2, LinksOfIn
  <2>4. \A i \in DOMAIN Plan[s] : \A n : Holds(s, i, n)' <=> Holds(s, i, n)
    BY <2>1 DEF Holds
  <2>5. ASSUME NEW l \in LinksOf(s), chan'[l] # << >>
        PROVE  \E i \in DOMAIN Plan[s] : AssignedAt(s, i, l)'
    <3>1. CASE l = To(s, j)
      <4>1. chan'[l] = <<m>> /\ chan'[From(s, j)] = << >>
        BY <1>1, <1>4, <1>5, <2>3, <2>5, <3>1, LinkFacts
      <4>2. AssignedAt(s, j, l)'
        BY <1>1, <2>2, <3>1, <4>1, Constant DEF AssignedAt
      <4> QED
        BY <1>1, <4>2
    <3>2. CASE l # To(s, j)
      <4>1. chan'[l] = chan[l]
        BY <2>3, <3>2
      <4>2. PICK i \in DOMAIN Plan[s] : i <= count[s] /\ AssignedAt(s, i, l)
        BY <1>3, <2>5, <4>1
      <4>3. i # j /\ i \in Nat
        BY <1>1, <4>2, PlanFacts
      <4>4. chan'[To(s, i)] = chan[To(s, i)] /\ chan'[From(s, i)] = chan[From(s, i)]
        BY <1>1, <2>3, <4>3, LinkFacts
      <4>5. AssignedAt(s, i, l)'
        BY <1>1, <2>2, <2>4, <4>1, <4>2, <4>3, <4>4, Constant DEF AssignedAt
      <4> QED
        BY <4>5
    <3> QED
      BY <3>1, <3>2
  <2>6. call'[s] = "acking" => count'[s] <= Cardinality(Done(s))'
    <3>1. IsFiniteSet(DOMAIN Plan[s]) /\ Done(s)' \subseteq DOMAIN Plan[s]
      BY PlanFacts, FS_Interval DEF Done
    <3>2. Cardinality(Done(s)') \in Nat
      BY <3>1, FS_Subset, FS_CardinalityType
    <3> QED
      BY <2>2, <3>2
  <2>7. SetsUp(s)'
    BY <1>2, <2>1, <2>5, <2>6, Constant DEF SetsUp
  <2> QED
    BY <2>2, <2>7 DEF OnCourse
<1> QED
  BY <1>1, <1>6, <1>7 DEF SendAssign, Sends, Over, TypeOK

\* An acknowledgement is of a stage that had not been counted; the last one is of the
\* last worker.
LEMMA AckKeeps ==
  ASSUME TypeOK, Routed, Apart, NEW s \in Sessions, ~disturbed[s], OnCourse(s),
         NEW w \in Workers, SetupReads(s, w)
  PROVE  OnCourse(s)'
<1> DEFINE l == <<w, Home[s]>>
           m == Head(chan[l])
<1>1. call[s] = "acking" /\ chan[l] # << >> /\ Under(s) /\ SetsUp(s)
  BY DEF SetupReads, Under, OnCourse
<1>2. l \in Links /\ Touches(s, l)
  BY PlanFacts DEF Links, Touches, Area
<1>3. l \in LinksOf(s) /\ m = chan[l][1] /\ m.id = s /\ chan[l] \in Seq(Messages)
  BY <1>1, <1>2, OwnLinks
<1>4. PICK i \in DOMAIN Plan[s] : AssignedAt(s, i, l)
  BY <1>1, <1>3 DEF SetsUp
<1>5. l = From(s, i) /\ chan[To(s, i)] = << >>
  BY <1>4, PlanFacts DEF AssignedAt, To
<1>6. PICK r \in 0..1 : chan[l] = <<Msg("ack", s, 0, r)>> /\ (r = 1 => Holds(s, i, 0))
  BY <1>4, <1>5, LinkFacts DEF AssignedAt
<1>7. m.kind = "ack" /\ m.via = r
  BY <1>6, <1>3 DEF Msg
<1>8. /\ chan'[l] = << >>
      /\ \A k \in LinksOf(s) \ {l} : chan'[k] = chan[k]
  <2>1. chan' = [chan EXCEPT ![l] = Tail(@)]
    BY DEF SetupReads, Takes
  <2>2. chan'[l] = Tail(chan[l]) /\ \A k \in Links \ {l} : chan'[k] = chan[k]
    BY <1>2, <2>1 DEF TypeOK
  <2> QED
    BY <1>6, <2>2, LinksOfIn
<1>9. UNCHANGED <<got, stage, down>>
  BY DEF SetupReads, workerVars
<1>10. CASE r = 0
  <2>1. call'[s] = "over"
    BY <1>1, <1>3, <1>7, <1>10 DEF SetupReads, Over, TypeOK
  <2> QED
    BY <2>1 DEF OnCourse
<1>11. CASE r = 1
  <2>1. /\ count'[s] = count[s] + 1
        /\ call'[s] = IF count'[s] = Len(Plan[s]) THEN "ready" ELSE "acking"
    BY <1>1, <1>3, <1>7, <1>11 DEF SetupReads, TypeOK
  <2>2. \A k \in DOMAIN Plan[s] : \A n : Holds(s, k, n)' <=> Holds(s, k, n)
    BY <1>9 DEF Holds
  <2>3. \A k \in DOMAIN Plan[s] :
          /\ chan'[To(s, k)] = chan[To(s, k)] \/ chan'[To(s, k)] = << >>
          /\ chan'[From(s, k)] = chan[From(s, k)] \/ chan'[From(s, k)] = << >>
    BY <1>8, LinkFacts
  <2> DEFINE D == Done(s)'
  <2>4. Done(s) \subseteq D /\ D \subseteq DOMAIN Plan[s] /\ i \in D \ Done(s)
    BY <1>1, <1>5, <1>6, <1>8, <1>11, <2>2, <2>3, Constant, LinkFacts DEF Done
  <2>5. /\ Cardinality(D) \in Nat /\ Cardinality(Done(s)) \in Nat
        /\ Cardinality(Done(s)) + 1 <= Cardinality(D) /\ Cardinality(D) <= Len(Plan[s])
        /\ Cardinality(D) = Len(Plan[s]) => D = DOMAIN Plan[s]
    <3> HIDE DEF D
    <3> QED
      BY <2>4, DoneFacts
  <2>6. count'[s] \in Nat /\ count'[s] <= Cardinality(D) /\ Len(Plan[s]) \in Nat
    BY <1>1, <2>1, <2>5, PlanFacts DEF SetsUp, TypeOK
  <2>7. ASSUME NEW k \in LinksOf(s), chan'[k] # << >>
        PROVE  k # l /\ chan'[k] = chan[k] /\ \E j \in DOMAIN Plan[s] : AssignedAt(s, j, k)
    BY <1>1, <1>8, <2>7 DEF SetsUp
  <2>8. CASE count'[s] = Len(Plan[s])
    <3>1. D = DOMAIN Plan[s]
      BY <2>5, <2>6, <2>8
    <3>2. \A j \in DOMAIN Plan[s] : chan'[To(s, j)] = << >> /\ chan'[From(s, j)] = << >> /\ Holds(s, j, 0)'
      BY <3>1, Constant DEF Done
    <3>3. \A k \in LinksOf(s) : chan'[k] = << >>
      BY <2>7, <3>2 DEF AssignedAt
    <3>4. IsReady(s)'
      BY <1>1, <1>9, <3>2, <3>3, Constant DEF IsReady, SetsUp
    <3> QED
      BY <2>1, <2>8, <3>4 DEF OnCourse
  <2>9. CASE count'[s] # Len(Plan[s])
    <3>1. call'[s] = "acking"
      BY <2>1, <2>9
    <3>2. ASSUME NEW k \in LinksOf(s), chan'[k] # << >>
          PROVE  \E j \in DOMAIN Plan[s] : AssignedAt(s, j, k)'
      <4>1. PICK j \in DOMAIN Plan[s] : AssignedAt(s, j, k)
        BY <2>7, <3>2
      <4>2. AssignedAt(s, j, k)'
        BY <2>2, <2>3, <2>7, <3>1, <3>2, <4>1, Constant DEF AssignedAt
      <4> QED
        BY <4>2
    <3>3. SetsUp(s)'
      BY <1>1, <1>9, <2>6, <3>1, <3>2, Constant DEF SetsUp
    <3> QED
      BY <3>1, <3>3 DEF OnCourse
  <2> QED
    BY <2>8, <2>9
<1> QED
  BY <1>10, <1>11

\* A worker takes its assignment and acknowledges it.
LEMMA LoadKeeps ==
  ASSUME TypeOK, Routed, NEW s \in Sessions, call[s] \in {"assigning", "acking"}, SetsUp(s),
         NEW w \in Workers, NEW from \in Homes \cup Workers, HandledFor(s, from, w)
  PROVE  OnCourse(s)'
<1> DEFINE l == <<from, w>>
           m == Head(chan[l])
<1>1. l \in LinksOf(s) /\ l \in Links /\ chan[l] # << >> /\ m = chan[l][1] /\ w \notin down
  <2>1. HandledFacts(s, from, w)
    BY HandledForm
  <2> QED
    BY <2>1 DEF HandledFacts
<1>2. PICK i \in DOMAIN Plan[s] : AssignedAt(s, i, l)
  BY <1>1 DEF SetsUp
<1>3. l = To(s, i) /\ chan[l] = <<Msg("assign", s, 0, 0)>> /\ chan[From(s, i)] = << >>
  BY <1>2, PlanFacts DEF AssignedAt, From
<1>4. m.kind = "assign" /\ m.id = s /\ from = Home[s] /\ w = Plan[s][i]
  BY <1>1, <1>3 DEF Msg, To
<1>5. PICK r \in 0..1 :
        /\ stage' = [stage EXCEPT ![w] = IF r = 1 THEN Stage(s, << >>) ELSE @]
        /\ \/ chan' = Post(Takes(from, w), w, from, Msg("ack", s, 0, r))
           \/ chan' = Takes(from, w)
  <2>1. WorkerLoads(from, w)
    BY <1>4 DEF HandledFor, Takings, WorkerForwards, WorkerRefuses, WorkerReleases
  <2> QED
    BY <1>4, <2>1 DEF WorkerLoads, Sends
<1>6. UNCHANGED <<call, count, got, down>>
  BY DEF HandledFor, Takings, WorkerLoads, WorkerForwards, WorkerRefuses, WorkerReleases, callVars, workerVars
<1>7. From(s, i) \in LinksOf(s) /\ From(s, i) \in Links /\ From(s, i) # l /\ From(s, i) = <<w, from>>
  BY <1>3, <1>4, LinkFacts, LinksOfIn DEF From
<1>8. /\ chan'[To(s, i)] = << >>
      /\ chan'[From(s, i)] = << >> \/ chan'[From(s, i)] = <<Msg("ack", s, 0, r)>>
      /\ \A k \in LinksOf(s) \ {To(s, i), From(s, i)} : chan'[k] = chan[k]
  <2> DEFINE h == Takes(from, w)
  <2> DEFINE a == Msg("ack", s, 0, r)
  <2>1. /\ h \in Chans /\ h[l] = << >> /\ \A k \in Links \ {l} : h[k] = chan[k]
    <3>1. l \in Links /\ Len(chan[l]) = 1
      BY <1>1, <1>3
    <3> QED
      BY <3>1, TakeLast
  <2>2. a \in Messages /\ from \notin down
    <3>1. r \in Nat /\ 0 \in Nat
      OBVIOUS
    <3>2. a \in Messages
      BY <3>1, MsgType
    <3>3. from \notin down
      BY <1>4, PlanFacts DEF TypeOK
    <3> QED
      BY <3>2, <3>3
  <2>3. chan' = Post(h, w, from, a) \/ chan' = h
    BY <1>5
  <2> HIDE DEF h, a
  <2>4. h[From(s, i)] = << >>
    BY <1>3, <1>7, <2>1
  <2>5. /\ \A k \in Links \ {From(s, i)} : chan'[k] = h[k]
        /\ chan'[From(s, i)] = << >> \/ chan'[From(s, i)] = <<a>>
    <3>1. Posted(h, w, from, a, Post(h, w, from, a))
      BY <1>7, <2>1, <2>2, <2>4, PostEmpty
    <3> QED
      BY <1>7, <2>3, <2>4, <3>1 DEF Posted
  <2> QED
    BY <1>1, <1>3, <1>7, <2>1, <2>2, <2>5, LinksOfIn DEF a
<1>9. /\ \A j \in DOMAIN Plan[s] \ {i} : Holds(s, j, 0)' <=> Holds(s, j, 0)
      /\ r = 1 => Holds(s, i, 0)'
  <2>1. \A j \in DOMAIN Plan[s] \ {i} : stage'[Plan[s][j]] = stage[Plan[s][j]]
    BY <1>4, <1>5, PlanFacts DEF TypeOK
  <2>2. r = 1 => stage'[Plan[s][i]] = Stage(s, << >>)
    BY <1>4, <1>5 DEF TypeOK
  <2>3. Prefix(s, 0) = << >>
    BY PrefixFacts
  <2> QED
    BY <1>6, <2>1, <2>2, <2>3 DEF Holds
<1>10. \A j \in DOMAIN Plan[s] \ {i} :
         chan'[To(s, j)] = chan[To(s, j)] /\ chan'[From(s, j)] = chan[From(s, j)]
  BY <1>8, LinkFacts
<1>11. ASSUME NEW k \in LinksOf(s), chan'[k] # << >>
       PROVE  \E j \in DOMAIN Plan[s] : AssignedAt(s, j, k)'
  <2>1. CASE k = From(s, i)
    <3>1. call'[s] = "assigning" => i <= count'[s]
      BY <1>2, <1>6 DEF AssignedAt
    <3>2. AssignedAt(s, i, k)'
      BY <1>8, <1>9, <1>11, <2>1, <3>1, Constant DEF AssignedAt
    <3> QED
      BY <3>2
  <2>2. CASE k # From(s, i)
    <3>1. k # To(s, i) /\ chan'[k] = chan[k]
      BY <1>8, <1>11, <2>2
    <3>2. PICK j \in DOMAIN Plan[s] : AssignedAt(s, j, k)
      BY <1>11, <3>1 DEF SetsUp
    <3>3. j # i
      BY <2>2, <3>1, <3>2 DEF AssignedAt
    <3>4. AssignedAt(s, j, k)'
      BY <1>6, <1>9, <1>10, <3>1, <3>2, <3>3, Constant DEF AssignedAt
    <3> QED
      BY <3>4
  <2> QED
    BY <2>1, <2>2
<1>12. call'[s] = "acking" => count'[s] <= Cardinality(Done(s))'
  <2> DEFINE D == Done(s)'
  <2>1. i \notin Done(s)
    BY <1>1, <1>3 DEF Done
  <2>2. Done(s) \subseteq D /\ D \subseteq DOMAIN Plan[s]
    BY <1>9, <1>10, <2>1, Constant DEF Done
  <2>3. Cardinality(D) \in Nat /\ Cardinality(Done(s)) \in Nat /\ Cardinality(Done(s)) <= Cardinality(D)
    <3> HIDE DEF D
    <3> QED
      BY <2>2, DoneFacts
  <2>4. call[s] = "acking" => count[s] <= Cardinality(Done(s))
    BY DEF SetsUp
  <2>5. count[s] \in Nat
    BY DEF TypeOK
  <2> QED
    BY <1>6, <2>3, <2>4, <2>5
<1>13. SetsUp(s)'
  BY <1>6, <1>11, <1>12, Constant DEF SetsUp
<1> QED
  BY <1>6, <1>13 DEF OnCourse

\* The one message of a session under way is the last of its step.
LEMMA StreamsIf ==
  ASSUME NEW s \in Sessions, call'[s] = "waiting",
         NEW l \in LinksOf(s), \A k \in LinksOf(s) \ {l} : chan'[k] = << >>,
         NEW m, chan'[l] = << >> \/ (chan'[l] = <<m>> /\ UnderWay(s, l, m)')
  PROVE  OnCourse(s)'
<1>1. ASSUME NEW k \in LinksOf(s), chan'[k] # << >>
      PROVE  /\ Len(chan'[k]) = 1 /\ UnderWay(s, k, chan[k][1])'
             /\ \A j \in LinksOf(s) \ {k} : chan'[j] = << >>
  <2>1. k = l /\ chan'[k] = <<m>>
    BY <1>1
  <2>2. chan'[k][1] = m /\ Len(chan'[k]) = 1
    BY <2>1
  <2> QED
    BY <2>1, <2>2
<1>2. Streams(s)'
  BY <1>1, Constant DEF Streams
<1> QED
  BY <1>2 DEF OnCourse

LEMMA StartKeeps ==
  ASSUME TypeOK, NEW s \in Sessions, OnCourse(s), StreamStarts(s)
  PROVE  OnCourse(s)'
<1> DEFINE w == Plan[s][1]
           m == Msg("act", s, 0, 0)
<1>1. call[s] = "ready" /\ IsReady(s) /\ 1 \in DOMAIN Plan[s]
  BY PlanFacts DEF StreamStarts, OnCourse
<1>2. UNCHANGED <<got, stage, down>>
  BY DEF StreamStarts, workerVars
<1>3. CASE call'[s] = "over"
  BY <1>3 DEF OnCourse
<1>4. CASE /\ chan' = Post(chan, Home[s], w, m) \/ chan' = chan
           /\ call' = [call EXCEPT ![s] = "waiting"]
  <2>1. To(s, 1) \in LinksOf(s) /\ To(s, 1) \in Links /\ To(s, 1) = <<Home[s], w>>
    BY <1>1, LinkFacts, LinksOfIn DEF To
  <2>2. /\ \A k \in LinksOf(s) \ {To(s, 1)} : chan'[k] = << >>
        /\ chan'[To(s, 1)] = << >> \/ chan'[To(s, 1)] = <<m>>
    <3>1. chan \in Chans /\ m \in Messages
      BY MsgType DEF TypeOK, Chans
    <3>2. chan' = Post(chan, Home[s], w, m) \/ chan' = chan
      BY <1>4
    <3>3. chan[To(s, 1)] = << >>
      BY <1>1, <2>1 DEF IsReady
    <3>4. /\ \A k \in Links \ {To(s, 1)} : chan'[k] = chan[k]
          /\ chan'[To(s, 1)] = << >> \/ chan'[To(s, 1)] = <<m>>
      <4> HIDE DEF m, w
      <4>1. Posted(chan, Home[s], w, m, Post(chan, Home[s], w, m))
        BY <2>1, <3>1, <3>3, PostEmpty
      <4> QED
        BY <2>1, <3>2, <3>3, <4>1 DEF Posted
    <3> QED
      BY <1>1, <2>1, <3>4, LinksOfIn DEF IsReady
  <2>3. \A i \in DOMAIN Plan[s] : Holds(s, i, 0)'
    BY <1>1, <1>2 DEF IsReady, Holds
  <2>4. Len(got'[s]) = 0
    BY <1>1, <1>2 DEF IsReady
  <2>5. Passed(s, 0)'
    BY <2>3, <2>4, PlanFacts DEF Passed
  <2>6. ActAt(s, 1, To(s, 1), m)'
    BY <2>1, <2>4, <2>5 DEF ActAt
  <2>7. UnderWay(s, To(s, 1), m)'
    BY <1>1, <2>6 DEF UnderWay
  <2>8. call'[s] = "waiting"
    BY <1>4 DEF TypeOK
  <2> HIDE DEF m
  <2> QED
    BY <2>1, <2>2, <2>7, <2>8, StreamsIf
<1> QED
  BY <1>3, <1>4 DEF StreamStarts, Sends, Over, TypeOK

\* What an undisturbed session reads while it waits: its logits, or an error.
LEMMA ReadFacts ==
  ASSUME TypeOK, Routed, Apart, NEW s \in Sessions, ~disturbed[s], OnCourse(s),
         NEW w \in Workers, StreamReads(s, w)
  PROVE  LET l == <<w, Home[s]>>
             m == Head(chan[l]) IN
         /\ call[s] = "waiting" /\ l \in LinksOf(s) /\ Len(chan[l]) = 1 /\ m.id = s
         /\ \A k \in LinksOf(s) \ {l} : chan[k] = << >>
         /\ LogitsAt(s, l, m) \/ m.kind = "error"
<1> DEFINE l == <<w, Home[s]>>
           m == Head(chan[l])
<1>1. call[s] = "waiting" /\ chan[l] # << >> /\ Under(s) /\ Streams(s)
  BY DEF StreamReads, Under, OnCourse
<1>2. l \in Links /\ Touches(s, l)
  BY PlanFacts DEF Links, Touches, Area
<1>3. l \in LinksOf(s) /\ m = chan[l][1] /\ m.id = s
  BY <1>1, <1>2, OwnLinks
<1>4. Len(chan[l]) = 1 /\ UnderWay(s, l, m) /\ \A k \in LinksOf(s) \ {l} : chan[k] = << >>
  BY <1>1, <1>3 DEF Streams
<1>5. ASSUME NEW i \in DOMAIN Plan[s], ActAt(s, i, l, m) PROVE FALSE
  BY <1>5, PlanFacts DEF ActAt
<1> QED
  BY <1>1, <1>3, <1>4, <1>5 DEF UnderWay

\* What the step makes of the tokens: none, or one with the logits that were waited for.
LEMMA ReadTokens ==
  ASSUME TypeOK, Routed, Apart, NEW s \in Sessions, ~disturbed[s], OnCourse(s),
         NEW w \in Workers, StreamReads(s, w), got'[s] # got[s]
  PROVE  got'[s] = Append(got[s], [pos |-> Len(got[s]), via |-> Len(Plan[s])])
<1> DEFINE l == <<w, Home[s]>>
           m == Head(chan[l])
<1>1. m.id = s /\ (LogitsAt(s, l, m) \/ m.kind = "error")
  BY ReadFacts
<1>2. m.kind = "logits" /\ TakeLogits(s, w, m)
  BY DEF StreamReads
<1>3. LogitsAt(s, l, m) /\ m.pos = Len(got[s]) /\ m.via = Len(Plan[s])
  BY <1>1, <1>2 DEF LogitsAt, Msg
<1>4. got' = [got EXCEPT ![s] = Append(@, [pos |-> m.pos, via |-> m.via])]
  BY <1>2 DEF TakeLogits
<1>5. got'[s] = Append(got[s], [pos |-> m.pos, via |-> m.via])
  BY <1>4 DEF TypeOK
<1> QED
  BY <1>3, <1>5

\* The next activation goes to stages that have computed all positions before it.
LEMMA ReadKeeps ==
  ASSUME TypeOK, Routed, Apart, NEW s \in Sessions, ~disturbed[s], OnCourse(s),
         NEW w \in Workers, StreamReads(s, w)
  PROVE  OnCourse(s)'
<1>l. PICK l : l = <<w, Home[s]>>
  OBVIOUS
<1>m. PICK m : m = Head(chan[l])
  OBVIOUS
<1>1. /\ call[s] = "waiting" /\ l \in LinksOf(s) /\ Len(chan[l]) = 1 /\ m.id = s
      /\ \A k \in LinksOf(s) \ {l} : chan[k] = << >>
      /\ LogitsAt(s, l, m) \/ m.kind = "error"
  BY <1>l, <1>m, ReadFacts
<1>2. UNCHANGED <<stage, down>>
  BY DEF StreamReads, workerVars
<1>3. CASE call'[s] # "waiting"
  <2>1. call'[s] \notin {"new", "assigning", "acking", "ready"}
    BY <1>1 DEF StreamReads, TakeLogits, Leave, Awaits, TypeOK
  <2> QED
    BY <1>3, <2>1 DEF OnCourse
<1>4. CASE call'[s] = "waiting"
  <2>1. m.kind # "error"
    BY <1>1, <1>4, <1>l, <1>m DEF StreamReads, TypeOK
  <2>2. LogitsAt(s, l, m) /\ m.kind = "logits"
    BY <1>1, <2>1 DEF LogitsAt, Msg
  <2>3. TakeLogits(s, w, m)
    BY <1>1, <1>l, <1>m, <2>2 DEF StreamReads
  <2>4. /\ \/ chan' = Post(Takes(w, Home[s]), Home[s], Plan[s][1],
                         Msg("act", s, Len(got[s]) + 1, 0))
           \/ chan' = Takes(w, Home[s])
        /\ got' = [got EXCEPT ![s] = Append(@, [pos |-> m.pos, via |-> m.via])]
    BY <1>4, <2>3 DEF TakeLogits, Leave, Awaits, Sends, TypeOK
  <2>5. PICK n \in Nat : n = Len(got[s]) + 1
    BY DEF TypeOK, Tokens
  <2>6. Len(got'[s]) = n
    <3> DEFINE q == got[s]
               e == [pos |-> m.pos, via |-> m.via]
    <3>1. m.pos \in Nat /\ m.via \in Nat /\ q \in Tokens /\ e \in [pos : Nat, via : Nat]
      BY <2>2, PlanFacts DEF LogitsAt, Msg, TypeOK, Tokens
    <3>2. Len(Append(q, e)) = Len(q) + 1
      <4> HIDE DEF q, e
      <4> QED
        BY <3>1, AppendProperties DEF Tokens
    <3>3. got'[s] = Append(q, e)
      BY <2>4 DEF TypeOK
    <3> QED
      BY <2>5, <3>2, <3>3
  <2>7. \A i \in DOMAIN Plan[s] : Holds(s, i, n)'
    <3>1. Passed(s, Len(Plan[s]))
      BY <2>2 DEF LogitsAt
    <3>2. \A i \in DOMAIN Plan[s] : Holds(s, i, n)
      BY <2>5, <3>1, PlanFacts DEF Passed
    <3> QED
      BY <1>2, <3>2 DEF Holds
  <2>8. Passed(s, 0)'
    BY <2>6, <2>7, PlanFacts DEF Passed
  <2> DEFINE a == Msg("act", s, n, 0)
  <2>9. /\ To(s, 1) \in LinksOf(s) /\ To(s, 1) \in Links /\ 1 \in DOMAIN Plan[s]
        /\ To(s, 1) = <<Home[s], Plan[s][1]>> /\ To(s, 1) # l
    <3>1. 1 \in DOMAIN Plan[s] /\ Plan[s][1] \in Workers /\ Home[s] \notin Workers
      BY PlanFacts
    <3>2. To(s, 1) \in LinksOf(s) /\ To(s, 1) \in Links
      BY <3>1, LinkFacts, LinksOfIn
    <3> QED
      BY <1>l, <3>1, <3>2 DEF To
  <2>10. UnderWay(s, To(s, 1), a)'
    <3>1. ActAt(s, 1, To(s, 1), a)'
      BY <2>6, <2>8, <2>9 DEF ActAt
    <3> QED
      BY <2>9, <3>1 DEF UnderWay
  <2>11. /\ \A k \in LinksOf(s) \ {To(s, 1)} : chan'[k] = << >>
         /\ chan'[To(s, 1)] = << >> \/ chan'[To(s, 1)] = <<a>>
    <3> DEFINE h == Takes(w, Home[s])
    <3>1. h \in Chans /\ h[l] = << >> /\ \A k \in Links \ {l} : h[k] = chan[k]
      <4>1. <<w, Home[s]>> \in Links /\ Len(chan[<<w, Home[s]>>]) = 1
        BY <1>1, <1>l, LinksOfIn
      <4> QED
        BY <1>l, <4>1, TakeLast
    <3>2. a \in Messages /\ h[To(s, 1)] = << >>
      BY <1>1, <2>9, <3>1, MsgType
    <3>3. chan' = Post(h, Home[s], Plan[s][1], a) \/ chan' = h
      BY <2>4, <2>5
    <3> HIDE DEF h, a
    <3>4. /\ \A k \in Links \ {To(s, 1)} : chan'[k] = h[k]
          /\ chan'[To(s, 1)] = << >> \/ chan'[To(s, 1)] = <<a>>
      <4> DEFINE v == Plan[s][1]
      <4>1. Posted(h, Home[s], v, a, Post(h, Home[s], v, a))
        <5> HIDE DEF v
        <5> QED
          BY <2>9, <3>1, <3>2, PostEmpty DEF v
      <4> QED
        BY <2>9, <3>2, <3>3, <4>1 DEF Posted
    <3> QED
      BY <1>1, <2>9, <3>1, <3>4, LinksOfIn
  <2> HIDE DEF a
  <2> QED
    BY <1>4, <2>9, <2>10, <2>11, StreamsIf
<1> QED
  BY <1>3, <1>4

\* A worker passes on the activation of its stage, or reports that it cannot.
LEMMA ForwardKeeps ==
  ASSUME TypeOK, Routed, NEW s \in Sessions, call[s] = "waiting", Streams(s),
         NEW w \in Workers, NEW from \in Homes \cup Workers, HandledFor(s, from, w)
  PROVE  OnCourse(s)'
<1>l. PICK l : l = <<from, w>>
  OBVIOUS
<1>m. PICK m : m = Head(chan[l])
  OBVIOUS
<1>1. /\ l \in LinksOf(s) /\ l \in Links /\ chan[l] # << >> /\ m = chan[l][1] /\ w \notin down
      /\ from \in Area(s) /\ m.id = s
  <2>1. /\ <<from, w>> \in LinksOf(s) /\ <<from, w>> \in Links /\ from \in Area(s)
        /\ chan[<<from, w>>] # << >> /\ Head(chan[<<from, w>>]) = chan[<<from, w>>][1]
        /\ Head(chan[<<from, w>>]).id = s /\ w \notin down
    <3>1. HandledFacts(s, from, w)
      BY HandledForm
    <3> QED
      BY <3>1 DEF HandledFacts
  <2> QED
    BY <1>l, <1>m, <2>1
<1>2. Len(chan[l]) = 1 /\ UnderWay(s, l, m) /\ \A k \in LinksOf(s) \ {l} : chan[k] = << >>
  BY <1>1 DEF Streams
<1>3. PICK i \in DOMAIN Plan[s] : ActAt(s, i, l, m)
  BY <1>2, <1>l, PlanFacts DEF UnderWay, LogitsAt, From
<1>n. PICK n \in Nat : n = Len(got[s])
  BY DEF TypeOK, Tokens
<1>4. /\ w = Plan[s][i] /\ m = Msg("act", s, n, i - 1)
      /\ i \in Nat \ {0} /\ i <= Len(Plan[s]) /\ Len(Plan[s]) \in Nat
  BY <1>3, <1>l, <1>n, PlanFacts DEF ActAt
<1>5. m.kind = "act" /\ m.id = s /\ m.pos = n /\ m.via = i - 1
  BY <1>4 DEF Msg
<1>6. UNCHANGED <<call, got, down>>
  BY DEF HandledFor, Takings, WorkerLoads, WorkerForwards, WorkerRefuses, WorkerReleases, callVars, workerVars
<1>7. Passed(s, i - 1)
  BY <1>3 DEF ActAt
<1>8. stage[w] = Stage(s, Prefix(s, n))
  <2>1. Holds(s, i, n)
    BY <1>4, <1>7, <1>n DEF Passed
  <2> QED
    BY <1>1, <1>4, <2>1 DEF Holds
<1> DEFINE h == Takes(from, w)
<1>9. h \in Chans /\ \A k \in LinksOf(s) : h[k] = << >>
  <2>1. h \in Chans /\ h[l] = << >> /\ \A k \in Links \ {l} : h[k] = chan[k]
    BY <1>l, <1>1, <1>2, TakeLast
  <2> QED
    BY <1>2, <2>1, LinksOfIn
\* Nothing is left, or one message on the way on.
<1>10. ASSUME chan' = h PROVE OnCourse(s)'
  BY <1>1, <1>6, <1>9, <1>10, StreamsIf
<1>11. ASSUME NEW to, <<w, to>> \in LinksOf(s), NEW a \in Messages, chan' = Post(h, w, to, a),
              UnderWay(s, <<w, to>>, a)'
       PROVE OnCourse(s)'
  <2>1. PICK k : k = <<w, to>>
    OBVIOUS
  <2>2. k \in LinksOf(s) /\ k \in Links /\ h[k] = << >>
    BY <1>9, <1>11, <2>1, LinksOfIn
  <2> HIDE DEF h
  <2>3. /\ \A j \in Links \ {k} : chan'[j] = h[j]
        /\ chan'[k] = IF to \in down THEN << >> ELSE <<a>>
    <3>1. Posted(h, w, to, a, Post(h, w, to, a))
      BY <1>9, <1>11, <2>1, <2>2, PostEmpty
    <3> QED
      BY <1>11, <2>1, <3>1 DEF Posted
  <2>4. \A j \in LinksOf(s) \ {k} : chan'[j] = << >>
    BY <1>9, <2>3, LinksOfIn
  <2>5. UnderWay(s, k, a)'
    BY <1>11, <2>1
  <2>6. call'[s] = "waiting"
    BY <1>6
  <2> QED
    BY <2>2, <2>3, <2>4, <2>5, <2>6, StreamsIf
<1>12. CASE WorkerRefuses(from, w)
  <2>1. From(s, i) \in LinksOf(s) /\ From(s, i) = <<w, Home[s]>>
    BY <1>4, LinkFacts DEF From
  <2> DEFINE a == Msg("error", s, 0, 0)
  <2>2. a \in Messages /\ a.kind = "error"
    BY ErrorType
  <2>3. UnderWay(s, <<w, Home[s]>>, a)'
    BY <2>2 DEF UnderWay
  <2>4. chan' = h \/ chan' = Post(h, w, Home[s], a)
    BY <1>12, <1>l, <1>m, <1>5 DEF WorkerRefuses, Sends
  <2> HIDE DEF a
  <2>5. CASE chan' = h
    BY <1>10, <2>5
  <2>6. CASE chan' = Post(h, w, Home[s], a)
    <3>1. <<w, Home[s]>> \in LinksOf(s)
      BY <2>1
    <3> QED
      BY <1>11, <2>2, <2>3, <2>6, <3>1, Zenon
  <2> QED
    BY <2>4, <2>5, <2>6
<1>13. CASE WorkerForwards(from, w)
  <2> DEFINE e == Computed(w, m, Cached(stage[w].cache, s, n))
  <2>1. Place(w, s) = i
    <3>1. w \in Crew(s)
      BY <1>4, PlanFacts
    <3> QED
      BY <1>4, <3>1, PlaceFacts, PlanFacts
  <2>2. Cached(stage[w].cache, s, n) = Prefix(s, n + 1) /\ stage[w].of = s
    BY <1>8, PrefixFacts DEF Stage
  <2>3. e = i
    <3>1. Alone(s, n) = Prefix(s, n + 1)
      BY PrefixFacts
    <3>2. /\ stage[w].of = m.id /\ Cached(stage[w].cache, s, n) = Alone(m.id, m.pos)
          /\ m.via + 1 = Place(w, m.id)
      BY <1>4, <1>5, <2>1, <2>2, <3>1
    <3>3. e = m.via + 1
      BY <3>2 DEF Computed
    <3> QED
      BY <1>4, <1>5, <3>3
  <2>4. stage' = [stage EXCEPT ![w] = Stage(s, Prefix(s, n + 1))]
    <3>1. stage' = [stage EXCEPT ![w].cache = Prefix(s, n + 1)]
      BY <1>13, <1>l, <1>m, <1>5, <2>2 DEF WorkerForwards
    <3>2. [stage[w] EXCEPT !.cache = Prefix(s, n + 1)] = Stage(s, Prefix(s, n + 1))
      BY <1>8 DEF Stage
    <3> QED
      BY <3>1, <3>2
  <2>5. \A j \in DOMAIN Plan[s] : Holds(s, j, IF j <= i THEN n + 1 ELSE n)'
    <3>1. ASSUME NEW j \in DOMAIN Plan[s], j # i PROVE Holds(s, j, IF j <= i THEN n + 1 ELSE n)'
      <4>1. stage'[Plan[s][j]] = stage[Plan[s][j]]
        BY <1>4, <2>4, <3>1, PlanFacts DEF TypeOK
      <4>2. Holds(s, j, IF j <= i THEN n + 1 ELSE n)
        BY <1>4, <1>7, <1>n, <3>1, PlanFacts DEF Passed
      <4> QED
        BY <1>6, <4>1, <4>2 DEF Holds
    <3>2. Holds(s, i, n + 1)'
      BY <1>4, <2>4 DEF Holds, TypeOK
    <3> QED
      BY <1>4, <3>1, <3>2
  <2>6. Passed(s, i)'
    BY <1>6, <1>n, <2>5 DEF Passed
  <2>7. chan' = h \/ chan' = Post(h, w, Onward(w, m, i).to, Onward(w, m, i).msg)
    BY <1>13, <1>l, <1>m, <1>5, <2>3 DEF WorkerForwards, Sends
  <2>8. CASE i = Len(Plan[s])
    <3> DEFINE a == Msg("logits", s, n, i)
    <3>1. Onward(w, m, i).to = Home[s] /\ Onward(w, m, i).msg = a
      BY <1>5, <2>1, <2>8 DEF Onward
    <3>2. From(s, i) \in LinksOf(s) /\ From(s, i) = <<w, Home[s]>>
      BY <1>4, LinkFacts DEF From
    <3>3. a \in Messages
      BY <1>4, MsgType
    <3>4. UnderWay(s, <<w, Home[s]>>, a)'
      <4>1. LogitsAt(s, <<w, Home[s]>>, a)'
        BY <1>6, <1>n, <1>4, <2>6, <2>8, <3>2 DEF LogitsAt, From
      <4> QED
        BY <4>1 DEF UnderWay
    <3> HIDE DEF a
    <3> QED
      BY <1>10, <1>11, <2>7, <3>1, <3>2, <3>3, <3>4
  <2>9. CASE i # Len(Plan[s])
    <3> DEFINE a == Msg("act", s, n, i)
    <3>1. i + 1 \in DOMAIN Plan[s]
      BY <1>4, <2>9, PlanFacts
    <3>2. PICK to : to = Plan[s][i + 1]
      OBVIOUS
    <3>3. Onward(w, m, i).to = to /\ Onward(w, m, i).msg = a
      BY <1>5, <2>1, <2>9, <3>2 DEF Onward
    <3>4. <<w, to>> \in LinksOf(s)
      BY <1>4, <3>1, <3>2, PlanFacts DEF LinksOf, Links, Area
    <3>5. a \in Messages
      BY <1>4, MsgType
    <3>6. UnderWay(s, <<w, to>>, a)'
      <4>1. ActAt(s, i + 1, <<w, to>>, a)'
        BY <1>6, <1>n, <1>4, <2>6, <3>2 DEF ActAt
      <4> QED
        BY <3>1, <4>1 DEF UnderWay
    <3> HIDE DEF a
    <3> QED
      BY <1>10, <1>11, <2>7, <3>3, <3>4, <3>5, <3>6
  <2> QED
    BY <2>8, <2>9
<1>14. WorkerRefuses(from, w) \/ WorkerForwards(from, w)
  BY <1>l, <1>m, <1>5 DEF HandledFor, Takings, WorkerLoads, WorkerReleases
<1> QED
  BY <1>12, <1>13, <1>14

LEMMA HandledKeeps ==
  ASSUME TypeOK, Routed, NEW s \in Sessions, OnCourse(s),
         NEW w \in Workers, NEW from \in Homes \cup Workers, HandledFor(s, from, w)
  PROVE  OnCourse(s)'
<1>1. UNCHANGED <<call, got>>
  BY DEF HandledFor, Takings, WorkerLoads, WorkerForwards, WorkerRefuses, WorkerReleases, callVars
<1>2. CASE call[s] \in {"assigning", "acking"}
  BY <1>2, LoadKeeps DEF OnCourse
<1>3. CASE call[s] = "ready"
  <2>1. <<from, w>> \in LinksOf(s) /\ chan[<<from, w>>] # << >>
    <3>1. HandledFacts(s, from, w)
      BY HandledForm
    <3> QED
      BY <3>1 DEF HandledFacts
  <2> QED
    BY <1>3, <2>1 DEF OnCourse, IsReady
<1>4. CASE call[s] = "waiting"
  BY <1>4, ForwardKeeps DEF OnCourse
<1>5. CASE call[s] \in {"new", "releasing", "over"}
  BY <1>1, <1>5 DEF OnCourse
<1> QED
  BY <1>2, <1>3, <1>4, <1>5 DEF TypeOK

LEMMA ProgressNext ==
  ASSUME TypeOK, Routed, Unstarted, Counted, Apart, Progress, Next
  PROVE  Progress'
<1>1. ASSUME NEW s \in Sessions, MovesOf(s) PROVE Progress'
  <2>1. ASSUME ~disturbed'[s] PROVE OnCourse(s)'
    <3>1. ~disturbed[s] /\ OnCourse(s)
      <4>1. disturbed' = disturbed \/ Disturb(s)
        BY <1>1, MovesForm
      <4>2. ~disturbed[s]
        BY <2>1, <4>1 DEF Disturb
      <4> QED
        BY <4>2 DEF Progress
    <3>2. CASE SendAssign(s)
      BY <2>1, <3>1, <3>2, AssignKeeps
    <3>3. CASE StreamStarts(s)
      BY <3>1, <3>3, StartKeeps
    <3>4. CASE Release(s)
      <4>1. call'[s] \in {"releasing", "over"}
        BY <3>4 DEF Release, TypeOK
      <4> QED
        BY <4>1 DEF OnCourse
    <3>5. ASSUME NEW w \in Workers, SetupReads(s, w) PROVE OnCourse(s)'
      BY <3>1, <3>5, AckKeeps
    <3>6. ASSUME NEW w \in Workers, StreamReads(s, w) PROVE OnCourse(s)'
      BY <3>1, <3>6, ReadKeeps
    <3>7. CASE CallerLeaves(s)
      BY <3>1, <3>7, Kept DEF CallerLeaves, workerVars
    <3>8. ASSUME NEW w \in Workers, NEW from \in Homes \cup Workers, HandledFor(s, from, w)
          PROVE  OnCourse(s)'
      BY <3>1, <3>8, HandledKeeps
    <3> QED
      BY <1>1, <3>2, <3>3, <3>4, <3>5, <3>6, <3>7, <3>8 DEF MovesOf, Initiates
  <2>2. ASSUME NEW q \in Sessions \ {s}, ~disturbed'[q] PROVE OnCourse(q)'
    <3>1. /\ ~disturbed[q] /\ down' = down
          /\ call'[q] = call[q] /\ count'[q] = count[q] /\ got'[q] = got[q]
          /\ Under(q) => /\ \A l \in LinksOf(q) : chan'[l] = chan[l]
                         /\ \A w \in Crew(q) : stage'[w] = stage[w]
      BY <1>1, <2>2, Frame
    <3>2. OnCourse(q)
      BY <3>1 DEF Progress
    <3>3. Under(q) \/ call[q] \in {"new", "over"}
      BY DEF Under
    <3> QED
      BY <3>1, <3>2, <3>3, Kept
  <2> QED
    BY <2>1, <2>2 DEF Progress
<1>2. ASSUME NEW w \in Workers, WorkerEnds(w) PROVE Progress'
  <2>1. disturbed' = disturbed
    BY <1>2, EndsForm
  <2> QED
    BY <1>2, <2>1, EndKeeps DEF Progress
<1> QED
  BY <1>1, <1>2, NextCases

LEMMA ComputedNext ==
  ASSUME TypeOK, Routed, Unstarted, Counted, Apart, Progress, UndisturbedIsComputed, Next
  PROVE  UndisturbedIsComputed'
<1>1. ASSUME NEW s \in Sessions, MovesOf(s), NEW q \in Sessions, ~disturbed'[q]
      PROVE  \A n \in DOMAIN got'[q] : got'[q][n] = [pos |-> n - 1, via |-> Len(Plan[q])]
  <2>1. disturbed' = disturbed \/ Disturb(s)
    BY <1>1, MovesForm
  <2>2. ~disturbed[q]
    BY <1>1, <2>1 DEF Disturb
  <2>3. CASE got'[q] = got[q]
    BY <2>2, <2>3 DEF UndisturbedIsComputed
  <2>4. CASE got'[q] # got[q]
    <3>1. q = s
      BY <1>1, <2>4, MovesForm
    <3>2. PICK w \in Workers : StreamReads(s, w)
      <4>1. ASSUME SendAssign(s) \/ StreamStarts(s) \/ Release(s) \/ CallerLeaves(s) PROVE got' = got
        BY <4>1 DEF SendAssign, StreamStarts, Release, CallerLeaves
      <4>2. ASSUME NEW w \in Workers, SetupReads(s, w) PROVE got' = got
        BY <4>2 DEF SetupReads
      <4>3. ASSUME NEW w \in Workers, NEW from \in Homes \cup Workers, HandledFor(s, from, w) PROVE got' = got
        BY <4>3 DEF HandledFor, Takings, WorkerLoads, WorkerForwards, WorkerRefuses, WorkerReleases, callVars
      <4> QED
        BY <1>1, <2>4, <4>1, <4>2, <4>3 DEF MovesOf, Initiates
    <3> DEFINE g == got[q]
               e == [pos |-> Len(g), via |-> Len(Plan[q])]
    <3>3. got'[q] = Append(g, e)
      BY <2>2, <2>4, <3>1, <3>2, ReadTokens DEF Progress
    <3>4. g \in Tokens /\ e \in [pos : Nat, via : Nat] /\ Len(g) \in Nat
      BY PlanFacts DEF TypeOK, Tokens
    <3>5. \A n \in DOMAIN g : g[n] = [pos |-> n - 1, via |-> Len(Plan[q])]
      BY <2>2 DEF UndisturbedIsComputed
    <3>6. /\ DOMAIN Append(g, e) = 1..Len(g) + 1 /\ DOMAIN g = 1..Len(g)
          /\ \A n \in 1..Len(g) : Append(g, e)[n] = g[n]
          /\ Append(g, e)[Len(g) + 1] = e
      <4> HIDE DEF g, e
      <4> QED
        BY <3>4, AppendProperties DEF Tokens
    <3>7. e = [pos |-> (Len(g) + 1) - 1, via |-> Len(Plan[q])]
      BY <3>4
    <3> HIDE DEF g, e
    <3> QED
      BY <3>3, <3>4, <3>5, <3>6, <3>7
  <2> QED
    BY <2>3, <2>4
<1>2. ASSUME NEW w \in Workers, WorkerEnds(w) PROVE UNCHANGED <<disturbed, got>>
  BY <1>2, EndsForm
<1>3. CASE \E s \in Sessions : MovesOf(s)
  BY <1>1, <1>3 DEF UndisturbedIsComputed
<1>4. CASE \E w \in Workers : WorkerEnds(w)
  BY <1>2, <1>4 DEF UndisturbedIsComputed
<1> QED
  BY <1>3, <1>4, NextCases

-----------------------------------------------------------------------------
(* The invariant *)

LEMMA InitHolds ==
  ASSUME Init
  PROVE  Inv
<1>1. \A l \in Links : chan[l] = << >>
  BY DEF Init
<1>2. \A s \in Sessions : call[s] = "new" /\ count[s] = 0 /\ got[s] = << >>
  BY DEF Init
<1>3. TypeOK
  <2>1. << >> \in Seq(Messages) /\ << >> \in Seq(Nat) /\ << >> \in Tokens
    BY EmptySeq DEF Tokens
  <2>2. gone \in [Sessions -> BOOLEAN] /\ disturbed \in [Sessions -> BOOLEAN]
    BY DEF Init
  <2> QED
    BY <2>1, <2>2 DEF Init, TypeOK
<1>4. Routed /\ Unstarted /\ Counted
  BY <1>1, <1>2 DEF Routed, Unstarted, Counted
<1>5. Apart
  BY <1>1, <1>2 DEF Apart, Under
<1>6. Progress
  BY <1>2 DEF Progress, OnCourse
<1>7. UndisturbedIsComputed
  BY <1>2 DEF UndisturbedIsComputed
<1> QED
  BY <1>3, <1>4, <1>5, <1>6, <1>7 DEF Inv

LEMMA SavedType ==
  ASSUME TypeOK, NEW s \in Sessions, NEW p \in Nat
  PROVE  Saved(s, p) \in Seq(Nat)
<1> DEFINE q == saved[s]
           t == IF Len(q) >= StoreSize THEN Tail(q) ELSE q
<1>1. q \in Seq(Nat) /\ StoreSize \in Nat \ {0}
  BY PipelineAssumption DEF TypeOK
<1>2. t \in Seq(Nat)
  <2> HIDE DEF q
  <2>1. CASE Len(q) >= StoreSize
    <3>1. q # << >>
      BY <1>1, <2>1, EmptySeq
    <3> QED
      BY <1>1, <2>1, <3>1, HeadTailProperties
  <2>2. CASE ~(Len(q) >= StoreSize)
    BY <1>1, <2>2
  <2> QED
    BY <2>1, <2>2
<1>3. Append(t, p) \in Seq(Nat)
  <2> HIDE DEF t
  <2> QED
    BY <1>2
<1> QED
  BY <1>1, <1>3 DEF Saved

\* What a step of an initiator writes.
LEMMA InitiatesType ==
  ASSUME TypeOK, Routed, Unstarted, Counted, NEW s \in Sessions, Initiates(s) \/ CallerLeaves(s)
  PROVE  TypeOK'
<1>1. chan' \in [Links -> Seq(Messages)] /\ down' \subseteq Workers
  <2>1. Exchanges(s, chan, chan') /\ down' = down
    BY MovesForm DEF MovesOf
  <2> QED
    BY <2>1 DEF Exchanges, Chans, TypeOK
<1>2. UNCHANGED <<stage, entries>>
  BY DEF Initiates, CallerLeaves, SendAssign, SetupReads, StreamStarts, StreamReads, Release, workerVars
<1>3. disturbed' \in [Sessions -> BOOLEAN]
  <2>1. disturbed' = disturbed \/ Disturb(s)
    BY MovesForm DEF MovesOf
  <2>2. CASE Disturb(s)
    BY ONLY <2>2 DEF Disturb
  <2> QED
    BY <2>1, <2>2 DEF TypeOK
<1>4. gone' \in [Sessions -> BOOLEAN]
  <2>1. gone' = gone \/ gone' = [gone EXCEPT ![s] = TRUE]
    BY DEF Initiates, CallerLeaves, SendAssign, SetupReads, StreamStarts, StreamReads, Release
  <2>2. gone \in [Sessions -> BOOLEAN]
    BY DEF TypeOK
  <2> QED
    BY <2>1, <2>2
<1> DEFINE Kinds == {"new", "assigning", "acking", "ready", "waiting", "releasing", "over"}
           Ends == {"none", "failed", "complete", "dropped", "error"}
           Rest == /\ call' \in [Sessions -> Kinds] /\ count' \in [Sessions -> Nat]
                   /\ result' \in [Sessions -> Ends]
                   /\ saved' \in [Sessions -> Seq(Nat)] /\ got' \in [Sessions -> Tokens]
<1>5. /\ call \in [Sessions -> Kinds] /\ count \in [Sessions -> Nat] /\ result \in [Sessions -> Ends]
      /\ saved \in [Sessions -> Seq(Nat)] /\ got \in [Sessions -> Tokens]
      /\ [count EXCEPT ![s] = @ + 1] \in [Sessions -> Nat]
  BY DEF TypeOK
<1>6. ASSUME SendAssign(s) PROVE Rest
  <2>1. /\ \/ call' = [call EXCEPT ![s] = "acking"] \/ call' = [call EXCEPT ![s] = "assigning"]
           \/ call' = [call EXCEPT ![s] = "over"]
        /\ \/ count' = count \/ count' = [count EXCEPT ![s] = 0]
           \/ count' = [count EXCEPT ![s] = @ + 1]
        /\ result' = result \/ result' = [result EXCEPT ![s] = "failed"]
        /\ UNCHANGED <<got, saved>>
    BY <1>6 DEF SendAssign, Over
  <2>2. call' \in [Sessions -> Kinds]
    BY <1>5, <2>1
  <2>3. count' \in [Sessions -> Nat]
    BY <1>5, <2>1
  <2>4. result' \in [Sessions -> Ends]
    BY <1>5, <2>1
  <2> QED
    BY <1>5, <2>1, <2>2, <2>3, <2>4
<1>7. ASSUME StreamStarts(s) \/ CallerLeaves(s) PROVE Rest
  BY <1>5, <1>7 DEF StreamStarts, CallerLeaves, Over
<1>8. ASSUME Release(s) PROVE Rest
  BY <1>5, <1>8 DEF Release
<1>9. ASSUME NEW w \in Workers, SetupReads(s, w) PROVE Rest
  <2>1. /\ \/ call' = call \/ call' = [call EXCEPT ![s] = @] \/ call' = [call EXCEPT ![s] = "ready"]
           \/ call' = [call EXCEPT ![s] = "over"]
        /\ count' = count \/ count' = [count EXCEPT ![s] = @ + 1]
        /\ result' = result \/ result' = [result EXCEPT ![s] = "failed"]
        /\ UNCHANGED <<got, saved>>
    BY <1>9 DEF SetupReads, Over
  <2>2. call' \in [Sessions -> Kinds]
    BY <1>5, <2>1
  <2>3. count' \in [Sessions -> Nat]
    BY <1>5, <2>1
  <2>4. result' \in [Sessions -> Ends]
    BY <1>5, <2>1
  <2> QED
    BY <1>5, <2>1, <2>2, <2>3, <2>4
<1>10. ASSUME NEW w \in Workers, StreamReads(s, w) PROVE Rest
  <2> DEFINE m == Head(chan[<<w, Home[s]>>])
             c == chan[<<w, Home[s]>>]
  <2>1. m.pos \in Nat /\ m.via \in Nat
    <3>1. c \in Seq(Messages) /\ c # << >>
      BY <1>10, PlanFacts DEF StreamReads, TypeOK, Links
    <3>2. Head(c) \in Messages
      <4> HIDE DEF c
      <4> QED
        BY <3>1
    <3> QED
      BY <3>2 DEF Messages
  <2>2. /\ << >> \in Seq(Nat) /\ Len(got[s]) + 1 \in Nat
        /\ Saved(s, Len(got[s]) + 1) \in Seq(Nat)
    <3>1. Len(got[s]) + 1 \in Nat
      BY <1>5 DEF Tokens
    <3> QED
      BY <3>1, SavedType, EmptySeq
  <2>3. Append(got[s], [pos |-> m.pos, via |-> m.via]) \in Tokens
    <3> DEFINE g == got[s]
               e == [pos |-> m.pos, via |-> m.via]
    <3>1. g \in Tokens /\ e \in [pos : Nat, via : Nat]
      BY <1>5, <2>1
    <3>2. Append(g, e) \in Tokens
      <4> HIDE DEF g, e
      <4> QED
        BY <3>1 DEF Tokens
    <3> QED
      BY <3>2
  <2> DEFINE Left == \E how \in Ends : Leave(s, how)
  <2>4. /\ got' = got \/ got' = [got EXCEPT ![s] = Append(@, [pos |-> m.pos, via |-> m.via])]
        /\ \/ Left
           \/ /\ call' = [call EXCEPT ![s] = "waiting"]
              /\ saved' = [saved EXCEPT ![s] = Saved(s, Len(got[s]) + 1)]
              /\ UNCHANGED <<count, result>>
           \/ /\ call' = [call EXCEPT ![s] = "releasing"] /\ count' = [count EXCEPT ![s] = 0]
              /\ result' = [result EXCEPT ![s] = "error"] /\ UNCHANGED saved
           \/ UNCHANGED <<call, count, result, saved>>
    BY <1>10 DEF StreamReads, TakeLogits, Awaits
  <2>5. got' \in [Sessions -> Tokens]
    BY <1>5, <2>3, <2>4
  <2>6. Left => /\ call' \in [Sessions -> Kinds] /\ count' \in [Sessions -> Nat]
                /\ result' \in [Sessions -> Ends] /\ saved' \in [Sessions -> Seq(Nat)]
    BY <1>5, <2>2 DEF Leave
  <2>7. Saved(s, Len(got[s]) + 1) \in Seq(Nat)
    BY <2>2
  <2> HIDE DEF Left
  <2> DEFINE Others == /\ call' \in [Sessions -> Kinds] /\ count' \in [Sessions -> Nat]
                       /\ result' \in [Sessions -> Ends] /\ saved' \in [Sessions -> Seq(Nat)]
  <2>8. ASSUME call' = [call EXCEPT ![s] = "waiting"], UNCHANGED <<count, result>>,
               saved' = [saved EXCEPT ![s] = Saved(s, Len(got[s]) + 1)]
        PROVE  Others
    BY <1>5, <2>7, <2>8
  <2>9. ASSUME call' = [call EXCEPT ![s] = "releasing"], count' = [count EXCEPT ![s] = 0],
               result' = [result EXCEPT ![s] = "error"], UNCHANGED saved
        PROVE  Others
    BY <1>5, <2>9
  <2>10. ASSUME UNCHANGED <<call, count, result, saved>> PROVE Others
    BY <1>5, <2>10
  <2>11. Others
    <3> HIDE DEF Others
    <3>1. Left => Others
      BY <2>6 DEF Others
    <3> QED
      BY <2>4, <2>8, <2>9, <2>10, <3>1
  <2> QED
    BY <2>5, <2>11
<1>11. Rest
  BY <1>6, <1>7, <1>8, <1>9, <1>10 DEF Initiates
<1>12. lost' \in [Sessions -> BOOLEAN]
  <2> DEFINE Marked == lost' = lost \/ \E r : lost' = [lost EXCEPT ![r] = TRUE]
  <2>1. ASSUME NEW c, NEW from, NEW to, NEW m, Sends(c, from, to, m) PROVE Marked
    BY <2>1 DEF Sends
  <2>2. lost' = lost => Marked
    OBVIOUS
  <2> HIDE DEF Marked
  <2>3. SendAssign(s) => Marked
    BY <2>1, <2>2, Zenon DEF SendAssign
  <2>4. StreamStarts(s) => Marked
    BY <2>1, <2>2, Zenon DEF StreamStarts
  <2>5. Release(s) \/ CallerLeaves(s) => Marked
    BY <2>1, <2>2, Zenon DEF Release, CallerLeaves
  <2>6. \A w \in Workers : SetupReads(s, w) => Marked
    BY <2>2, Zenon DEF SetupReads
  <2>7. \A w \in Workers : StreamReads(s, w) => Marked
    BY <2>1, <2>2, Zenon DEF StreamReads, TakeLogits
  <2>8. Marked
    BY <2>3, <2>4, <2>5, <2>6, <2>7, Zenon DEF Initiates
  <2> QED
    BY <2>8 DEF TypeOK, Marked
<1> QED
  BY <1>1, <1>2, <1>3, <1>4, <1>11, <1>12 DEF TypeOK

\* What a step of a worker writes.
LEMMA HandledType ==
  ASSUME TypeOK, Routed, Unstarted, Counted, NEW s \in Sessions, NEW w \in Workers,
         NEW from \in Homes \cup Workers, HandledFor(s, from, w)
  PROVE  TypeOK'
<1>1. chan' \in [Links -> Seq(Messages)]
  BY HandledExchanges DEF Exchanges, Chans
<1>2. UNCHANGED <<call, count, result, got, gone, saved, down, disturbed>>
  BY DEF HandledFor, Takings, WorkerLoads, WorkerForwards, WorkerRefuses, WorkerReleases, callVars, workerVars
<1>3. entries' \in [Workers -> SUBSET Sessions]
  <2>1. \/ entries' = entries
        \/ entries' = [entries EXCEPT ![w] = @ \cup {s}]
        \/ entries' = [entries EXCEPT ![w] = @ \ {s}]
    BY DEF HandledFor, Takings, WorkerLoads, WorkerForwards, WorkerRefuses, WorkerReleases, workerVars
  <2>2. /\ entries \in [Workers -> SUBSET Sessions] /\ entries[w] \cup {s} \in SUBSET Sessions
        /\ entries[w] \ {s} \in SUBSET Sessions
    BY DEF TypeOK
  <2> QED
    BY <2>1, <2>2
<1> DEFINE Stages == [of : Sessions, cache : Caches] \cup {NoStage}
<1>4. stage' \in [Workers -> Stages]
  <2>1. CASE ~WorkerForwards(from, w)
    <3>1. Stage(s, << >>) \in Stages
      BY EmptySeq DEF Stage, Caches
    <3>2. \/ stage' = stage
          \/ stage' = [stage EXCEPT ![w] = NoStage]
          \/ stage' = [stage EXCEPT ![w] = Stage(s, << >>)]
      BY <2>1 DEF HandledFor, Takings, WorkerLoads, WorkerRefuses, WorkerReleases, workerVars, TypeOK
    <3> QED
      BY <3>1, <3>2 DEF TypeOK
  <2>2. CASE WorkerForwards(from, w)
    <3> DEFINE p == Head(chan[<<from, w>>]).pos
               c == stage[w].cache
    <3>1. /\ stage[w] # NoStage
          /\ stage' = [stage EXCEPT ![w].cache = Cached(c, s, p)]
      BY <2>2 DEF WorkerForwards, HandledFor
    <3>2. stage[w] \in [of : Sessions, cache : Caches]
      BY <3>1 DEF TypeOK
    <3>3. p \in Nat /\ c \in Caches
      <4>1. Head(chan[<<from, w>>]) \in Messages
        <5>1. HandledFacts(s, from, w)
          BY HandledForm
        <5> QED
          BY <5>1 DEF HandledFacts
      <4> QED
        BY <3>2, <4>1 DEF Messages
    <3>4. Cached(c, s, p) \in Caches
      <4> HIDE DEF c, p
      <4>1. /\ [id |-> s, pos |-> 0] \in [id : Sessions, pos : Nat]
            /\ [id |-> s, pos |-> p] \in [id : Sessions, pos : Nat]
        BY <3>3
      <4>2. <<[id |-> s, pos |-> 0]>> \in Caches
        BY <4>1 DEF Caches
      <4>3. Append(c, [id |-> s, pos |-> p]) \in Caches
        BY <3>3, <4>1, AppendProperties DEF Caches
      <4> QED
        BY <4>2, <4>3 DEF Cached
    <3>5. [stage[w] EXCEPT !.cache = Cached(c, s, p)] \in Stages
      <4> HIDE DEF c, p
      <4> QED
        BY <3>2, <3>4
    <3> HIDE DEF c, p
    <3> QED
      BY <3>1, <3>5 DEF TypeOK
  <2> QED
    BY <2>1, <2>2
<1>5. lost' \in [Sessions -> BOOLEAN]
  <2>1. lost' = lost \/ \E r : lost' = [lost EXCEPT ![r] = TRUE]
    BY DEF HandledFor, Takings, WorkerLoads, WorkerForwards, WorkerRefuses, WorkerReleases, Sends
  <2> QED
    BY <2>1 DEF TypeOK
<1> QED
  BY <1>1, <1>2, <1>3, <1>4, <1>5 DEF TypeOK

LEMMA TypeNext ==
  ASSUME TypeOK, Routed, Unstarted, Counted, Next
  PROVE  TypeOK'
<1>1. ASSUME NEW s \in Sessions, MovesOf(s) PROVE TypeOK'
  BY <1>1, InitiatesType, HandledType DEF MovesOf
<1>2. ASSUME NEW w \in Workers, WorkerEnds(w) PROVE TypeOK'
  <2>1. chan' \in [Links -> Seq(Messages)] /\ down' \subseteq Workers
    BY <1>2, EndsForm DEF Chans, TypeOK
  <2>2. /\ stage' = [stage EXCEPT ![w] = NoStage] /\ entries' = [entries EXCEPT ![w] = {}]
        /\ UNCHANGED <<call, count, result, got, gone, saved, lost, disturbed>>
    BY <1>2 DEF WorkerEnds, callVars
  <2> QED
    BY <2>1, <2>2 DEF TypeOK
<1> QED
  BY <1>1, <1>2, NextCases

LEMMA InvNext ==
  ASSUME Inv, [Next]_vars
  PROVE  Inv'
<1>1. CASE Next
  BY <1>1, TypeNext, RoutedNext, UnstartedNext, ApartNext, ProgressNext, ComputedNext DEF Inv
<1>2. CASE UNCHANGED vars
  <2>1. /\ UNCHANGED <<call, count, result, got, gone, saved, chan, down, lost, disturbed>>
        /\ UNCHANGED <<stage, entries>>
    BY <1>2 DEF vars, callVars, workerVars
  <2>2. TypeOK'
    BY <2>1 DEF Inv, TypeOK
  <2>3. Unstarted' /\ Counted'
    BY <2>1 DEF Inv, Unstarted, Counted
  <2>7. Routed'
    <3>1. Routed
      BY DEF Inv
    <3> QED
      BY <2>1, <3>1 DEF Routed, LinksOf, Area, Crew
  <2>4. Apart'
    <3>1. Apart
      BY DEF Inv
    <3>2. \A r \in Sessions : Under(r)' <=> Under(r)
      BY <2>1 DEF Under
    <3>3. disturbed' = disturbed
      BY <2>1
    <3> QED
      BY <3>1, <3>2, <3>3 DEF Apart, Meet, Crew
  <2>5. Progress'
    BY <2>1, Kept DEF Inv, Progress
  <2>6. UndisturbedIsComputed'
    BY <2>1 DEF Inv, UndisturbedIsComputed
  <2> QED
    BY <2>2, <2>3, <2>4, <2>5, <2>6, <2>7 DEF Inv
<1> QED
  BY <1>1, <1>2

\* A session keeps its messages between the nodes of its plan, and while nothing else
\* shares those nodes it is always at one place of its course: assignments and their
\* acknowledgements during setup (PipelineInitiator::setup), then one activation, one set
\* of logits or one error (stream_tokens, PipelineWorker::run), with the attention caches
\* of all stages as far as that message says.
THEOREM Invariant == Spec => []Inv
<1>1. Init => Inv
  BY InitHolds
<1>2. Inv /\ [Next]_vars => Inv'
  BY InvNext
<1> QED
  BY <1>1, <1>2, PTL DEF Spec

\* The n-th token of a session that nothing disturbed was sampled from the logits of its
\* n-th activation, computed by every stage of the plan with exactly the positions before
\* it in its attention cache, however the steps of the nodes interleave, whatever loads and
\* forward passes fail and whichever workers end (stream_tokens does not look at the
\* position of the logits it takes).
THEOREM TokensComputed == Spec => []UndisturbedIsComputed
<1>1. Inv => UndisturbedIsComputed
  BY DEF Inv
<1> QED
  BY <1>1, Invariant, PTL
=============================================================================
