-------------------------- MODULE NncClientProofs --------------------------
(***************************************************************************)
(* Proofs about the NNC client (nnc/client) for every set of concurrent    *)
(* commands, every capacity of the broadcast, any skew of the clocks and   *)
(* any amount of noise: no answer and no outcome is missed, every delivery *)
(* is handled, and a caller learns the node's decision on its own command  *)
(* or nothing.                                                             *)
(***************************************************************************)
EXTENDS NncClient, CommonProofs

-----------------------------------------------------------------------------
(* The inductive invariant.                                                *)

Early == {"idle", "subscribed", "prepared"}
Places == Early \cup {"published", "awaiting", "held", "waiting", "over"}

\* How far a command is, and what goes with it: no request before it is
\* published, no result while it is in flight, a handle only for Async.
Progress(c) ==
  /\ pc[c] \in Early => c \notin requests
  /\ pc[c] \in Early \cup {"published", "awaiting"} => result[c] = None
  /\ pc[c] \in {"subscribed", "held", "waiting"} => c \in Async
  /\ c \in releasing => pc[c] = "over"
  /\ verdict[c] # None => c \in requests

\* The streams a command holds, and the filter of its handle.
Equipped(c) ==
  /\ (streams[Responses(c)] # None) <=> InFlight(c)
  /\ c \in Async =>
       /\ (streams[Outcomes(c)] # None) <=> (InFlight(c) \/ Handled(c))
       /\ pc[c] \notin {"idle", "subscribed", "over"} => OutcomeFilter(c) \in open

\* AnswerNotMissed, OutcomeNotMissed and PassedOn for one command.
Reached(c) ==
  /\ InFlight(c) => \A e \in arrived : RepliesTo(c, e) => Awaits(Responses(c), e)
  /\ c \in Async /\ (InFlight(c) \/ Handled(c)) =>
       \A e \in arrived : IsOutcomeOf(c, e) => Awaits(Outcomes(c), e)
  /\ InFlight(c) \/ Handled(c) => \A e \in sent : e.re = c =>
       \/ e \in arrived
       \/ /\ e.kind = "response"
          /\ \A f \in open : (f.owner = c /\ f.kind = "response") => e.at < f.since

CommandOK(c) == Progress(c) /\ Equipped(c) /\ Reached(c)

\* What the node may have sent: about a command only what it decided, and the
\* name of this client's subscription only on notifications.
Sendable(e) ==
  /\ e \in Messages
  /\ e.re \in Commands =>
       /\ e.author = Node /\ verdict[e.re] # None
       /\ e.kind = "notification" => e.re \in Async
       /\ e.kind = "response" /\ e.body # "garbled" =>
            verdict[e.re] = IF e.body = "malformed" THEN "ok" ELSE e.body
  /\ e.names_mine => ForListener(e)

ListenerOK ==
  /\ (streams[Heard] # None) <=> (listener = "listening")
  /\ listener \in {"idle", "subscribed"} => due = {}
  /\ \A e \in due : e.names_mine
  /\ DeliveriesHandled

\* Types of everything but the streams.
Typed ==
  /\ scene \in Scenes /\ clock \in 1..scene.seconds /\ noise \in 0..scene.noise
  /\ open \subseteq [owner : Commands \cup {"listener"}, kind : {"response", "notification"},
                     re : Commands \cup {None}, since : Nat]
  /\ pc \in [Commands -> Places]
  /\ result \in [Commands -> {None, "ok", "refused", "timed_out", "failed"}]
  /\ verdict \in [Commands -> {None, "ok", "refused"}]
  /\ releasing \subseteq Async /\ requests \subseteq Commands
  /\ listener \in {"idle", "subscribed", "listening", "over"}
  /\ asked \in BOOLEAN /\ sent \subseteq Messages
  /\ arrived \subseteq sent /\ due \subseteq arrived /\ handled \subseteq arrived

\* What a stream holds was received, and fits.
GoodStream(q, M, seen) ==
  /\ q \in Seq(M) \cup {None}
  /\ q # None => Len(q) <= Capacity /\ ToSet(q) \subseteq seen

GoodStreams ==
  /\ streams = [s \in Streams |-> streams[s]]
  /\ \A s \in Streams : GoodStream(streams[s], Messages, arrived)

World ==
  /\ \A e \in sent : Sendable(e)
  /\ \A f \in open : f.kind = "response" => f.re = None

IInv ==
  /\ Typed /\ GoodStreams /\ World /\ ListenerOK
  /\ \A c \in Commands : CommandOK(c)

-----------------------------------------------------------------------------
(* Streams.                                                                *)

\* The names of streams do not clash.
LEMMA StreamNames ==
  /\ \A c \in Commands : Responses(c) \in Streams
  /\ \A c \in Async : Outcomes(c) \in Streams
  /\ Heard \in Streams
  /\ \A c, d : (Responses(c) = Responses(d)) <=> (c = d)
  /\ \A c, d : (Outcomes(c) = Outcomes(d)) <=> (c = d)
  /\ \A c, d : /\ Responses(c) # Outcomes(d) /\ Responses(c) # Heard
               /\ Outcomes(c) # Heard
  BY DEF Responses, Outcomes, Heard, Streams

\* An empty stream of this client's events holds nothing.
LEMMA ToSetEmpty == ToSet(<< >>) = {} /\ << >> \in Seq(Messages) /\ << >> # None
  BY StreamsAssumption, EmptySequence

\* Reading takes the first event.
LEMMA ToSetTail ==
  ASSUME NEW q \in Seq(Messages), q # << >>
  PROVE  /\ Tail(q) \in Seq(Messages) /\ Tail(q) # None
         /\ Head(q) \in Messages /\ Head(q) \in ToSet(q)
         /\ ToSet(q) = ToSet(Tail(q)) \cup {Head(q)}
  BY StreamsAssumption, TailOfSequence

\* What a broadcast does to one stream: the event is added, nothing is lost
\* but what is recorded as pushed out, and the capacity is kept.
LEMMA BroadcastStream ==
  ASSUME GoodStreams, NEW e \in Messages, NEW s \in Streams
  PROVE  LET q == Broadcast(streams, e)[s]
         IN  /\ streams[s] = None <=> q = None
             /\ q # None => /\ GoodStream(q, Messages, arrived \cup {e})
                            /\ e \in ToSet(q)
                            /\ \A x \in ToSet(streams[s]) :
                                 x \in ToSet(q) \/ <<s, x>> \in PushedOut(streams)
  <1> DEFINE p == streams[s]
             q == Broadcast(streams, e)[s]
  <1>1. s \in DOMAIN streams /\ GoodStream(p, Messages, arrived)
    BY DEF GoodStreams
  <1>2. s \in FullStreams(streams) <=> p # None /\ Len(p) = Capacity
    BY <1>1 DEF FullStreams
  <1>3. CASE p = None
    <2>1. q = None
      BY <1>1, <1>2, <1>3 DEF Broadcast
    <2> QED
      BY <1>3, <2>1
  <1>4. CASE p # None
    <2>1. p \in Seq(Messages) /\ Len(p) <= Capacity /\ ToSet(p) \subseteq arrived
      BY <1>1, <1>4 DEF GoodStream
    <2>2. q = Push(p, e, Capacity)
      BY <1>1, <1>2, <1>4 DEF Broadcast, Push
    <2>3. Len(p) = Capacity => <<s, Head(p)>> \in PushedOut(streams)
      BY <1>2, <1>4 DEF PushedOut
    <2> HIDE DEF p, q
    <2>4. /\ q \in Seq(Messages) /\ Len(q) <= Capacity
          /\ e \in ToSet(q) /\ ToSet(q) \subseteq ToSet(p) \cup {e}
          /\ \A x \in ToSet(p) : x \in ToSet(q) \/ (Len(p) = Capacity /\ x = Head(p))
      BY <2>1, <2>2, CapacityAssumption, PushToSequence
    <2>5. GoodStream(q, Messages, arrived \cup {e}) /\ q # None
      BY <2>1, <2>4, StreamsAssumption DEF GoodStream
    <2> QED
      BY <1>4, <2>3, <2>4, <2>5 DEF p, q
  <1> QED
    BY <1>3, <1>4

\* Closing, taking and reading a stream keep it good.
LEMMA GoodMoves ==
  ASSUME NEW q, NEW seen, GoodStream(q, Messages, seen)
  PROVE  /\ GoodStream(None, Messages, seen) /\ GoodStream(<< >>, Messages, seen)
         /\ q # None /\ q # << >> => GoodStream(Tail(q), Messages, seen)
  <1>1. GoodStream(None, Messages, seen)
    BY DEF GoodStream
  <1>2. GoodStream(<< >>, Messages, seen)
    <2>1. Len(<< >>) <= Capacity
      BY EmptySequence, CapacityAssumption
    <2> QED
      BY <2>1, EmptySequence DEF GoodStream
  <1>3. ASSUME q # None, q # << >> PROVE GoodStream(Tail(q), Messages, seen)
    <2>1. q \in Seq(Messages) /\ Len(q) <= Capacity /\ ToSet(q) \subseteq seen
      BY <1>3 DEF GoodStream
    <2>2. /\ Tail(q) \in Seq(Messages) /\ Len(q) \in Nat /\ Len(Tail(q)) = Len(q) - 1
          /\ ToSet(Tail(q)) \subseteq ToSet(q)
      BY <1>3, <2>1, TailOfSequence
    <2>3. Len(Tail(q)) <= Capacity
      BY <2>1, <2>2, CapacityAssumption
    <2> QED
      BY <2>1, <2>2, <2>3 DEF GoodStream
  <1> QED
    BY <1>1, <1>2, <1>3

\* Closing, taking and reading streams keeps them good.
LEMMA MovedStreams ==
  ASSUME GoodStreams, arrived' = arrived,
         streams' = [s \in Streams |-> streams'[s]],
         \A s \in Streams : \/ streams'[s] \in {streams[s], None, << >>}
                            \/ Unread(s) /\ streams'[s] = Tail(streams[s])
  PROVE  GoodStreams'
  <1> SUFFICES ASSUME NEW s \in Streams PROVE GoodStream(streams'[s], Messages, arrived)
    BY DEF GoodStreams
  <1>1. GoodStream(streams[s], Messages, arrived)
    BY DEF GoodStreams
  <1>2. /\ GoodStream(None, Messages, arrived) /\ GoodStream(<< >>, Messages, arrived)
        /\ Unread(s) => GoodStream(Tail(streams[s]), Messages, arrived)
    BY <1>1, GoodMoves DEF Unread
  <1> QED
    BY <1>1, <1>2

-----------------------------------------------------------------------------
(* An event is sent.                                                       *)

\* An event of the node about a command that is there for it is passed on,
\* or is a response stamped before the response filter.
LEMMA PassesOrEarly ==
  ASSUME IInv, NEW e, Sendable(e), NEW c \in Commands, e.re = c,
         InFlight(c) \/ Handled(c), ~ Passes(open, e)
  PROVE  /\ e.kind = "response"
         /\ \A f \in open : (f.owner = c /\ f.kind = "response") => e.at < f.since
  <1>1. e.at \in Nat /\ e.kind \in {"response", "notification"}
    BY DEF Sendable, Messages
  <1>2. e.kind = "response"
    <2> SUFFICES ASSUME e.kind = "notification" PROVE FALSE
      BY <1>1
    <2>1. c \in Async
      BY DEF Sendable
    <2>2. pc[c] \notin {"idle", "subscribed", "over"}
      BY DEF InFlight, Handled
    <2>3. OutcomeFilter(c) \in open
      BY <2>1, <2>2 DEF IInv, CommandOK, Equipped
    <2>4. Matches(OutcomeFilter(c), e)
      BY <1>1 DEF Matches, OutcomeFilter, Filter
    <2> QED
      BY <2>3, <2>4 DEF Passes
  <1>3. ASSUME NEW f \in open, f.kind = "response"
        PROVE  e.at < f.since
    <2>1. f.re = None /\ f.since \in Nat
      BY <1>3 DEF IInv, World, Typed
    <2>2. ~ Matches(f, e)
      BY DEF Passes
    <2>3. ~ (e.at >= f.since)
      BY <1>2, <1>3, <2>1, <2>2 DEF Matches
    <2> QED
      BY <1>1, <2>1, <2>3
  <1> QED
    BY <1>2, <1>3

\* Whatever the node sends, nothing that was there is lost, and what arrives
\* is there for whom it is for.
LEMMA TransmitStep ==
  ASSUME IInv, NEW e, Sendable(e), Transmit(e), noise' \in 0..scene.noise,
         UNCHANGED <<scene, clock, open, pc, result, releasing, listening, requests,
                     verdict, asked>>
  PROVE  IInv'
  <1>0. UNCHANGED <<scene, clock, open, pc, result, releasing, listener, handled,
                    requests, verdict, asked>>
    BY DEF listening
  <1>1. e \in Messages /\ sent' = sent \cup {e}
    BY DEF Sendable, Transmit
  <1>2. World'
    <2>1. \A x : Sendable(x)' <=> Sendable(x)
      BY <1>0 DEF Sendable, ForListener
    <2> QED
      BY <1>0, <1>1, <2>1 DEF IInv, World
  <1>3. \A c \in Commands : /\ (InFlight(c)' <=> InFlight(c))
                            /\ (Handled(c)' <=> Handled(c))
    BY <1>0 DEF InFlight, Handled
  <1>4. CASE ~ Passes(open, e)
    <2>1. UNCHANGED <<arrived, streams, overrun, due>>
      BY <1>4 DEF Transmit
    <2>2. Typed'
      BY <1>0, <1>1, <2>1 DEF IInv, Typed
    <2>3. GoodStreams'
      BY <2>1 DEF IInv, GoodStreams
    <2>4. \A s, x : Awaits(s, x)' <=> Awaits(s, x)
      BY <2>1 DEF Awaits
    <2>5. ListenerOK'
      BY <1>0, <2>1, <2>4 DEF IInv, ListenerOK, DeliveriesHandled
    <2>6. ASSUME NEW c \in Commands PROVE CommandOK(c)'
      <3>1. Progress(c) /\ Equipped(c) /\ Reached(c)
        BY DEF IInv, CommandOK
      <3>2. Progress(c)' /\ Equipped(c)'
        BY <1>0, <1>3, <2>1, <3>1 DEF Progress, Equipped
      <3>3. Reached(c)'
        <4>1. ASSUME InFlight(c) \/ Handled(c), NEW x \in sent', x.re = c
              PROVE  \/ x \in arrived
                     \/ /\ x.kind = "response"
                        /\ \A f \in open :
                             (f.owner = c /\ f.kind = "response") => x.at < f.since
          <5>1. CASE x \in sent
            BY <3>1, <4>1, <5>1 DEF Reached
          <5>2. CASE x = e
            BY <1>4, <4>1, <5>2, PassesOrEarly
          <5> QED
            BY <1>1, <5>1, <5>2
        <4> QED
          BY <1>0, <1>3, <2>1, <2>4, <3>1, <4>1 DEF Reached, RepliesTo, IsOutcomeOf
      <3> QED
        BY <3>2, <3>3 DEF CommandOK
    <2> QED
      BY <1>2, <2>2, <2>3, <2>5, <2>6 DEF IInv
  <1>5. CASE Passes(open, e)
    <2>1. /\ arrived' = arrived \cup {e} /\ streams' = Broadcast(streams, e)
          /\ overrun' = overrun \cup PushedOut(streams)
          /\ due' = IF streams[Heard] # None /\ e.names_mine THEN due \cup {e} ELSE due
      BY <1>5 DEF Transmit
    <2>2. GoodStreams
      BY DEF IInv
    <2>3. DOMAIN streams = Streams
      BY <2>2 DEF GoodStreams
    <2>4. \A s \in Streams : streams'[s] # None <=> streams[s] # None
      BY <1>1, <2>1, <2>2, BroadcastStream
    <2>5. Typed'
      <3>1. due' \subseteq arrived'
        BY <2>1 DEF IInv, Typed
      <3> QED
        BY <1>0, <1>1, <2>1, <3>1 DEF IInv, Typed
    <2>6. GoodStreams'
      <3>1. streams' = [s \in Streams |-> streams'[s]]
        BY <2>1, <2>3 DEF Broadcast
      <3>2. \A s \in Streams : GoodStream(streams'[s], Messages, arrived')
        <4> SUFFICES ASSUME NEW s \in Streams PROVE GoodStream(streams'[s], Messages, arrived')
          OBVIOUS
        <4>1. CASE streams'[s] = None
          BY <4>1 DEF GoodStream
        <4>2. CASE streams'[s] # None
          BY <1>1, <2>1, <2>2, <4>2, BroadcastStream
        <4> QED
          BY <4>1, <4>2
      <3> QED
        BY <3>1, <3>2 DEF GoodStreams
    <2>7. ASSUME NEW s \in Streams, streams[s] # None
          PROVE  Awaits(s, e)' /\ \A x : Awaits(s, x) => Awaits(s, x)'
      <3>1. /\ e \in ToSet(streams'[s])
            /\ \A x \in ToSet(streams[s]) :
                 x \in ToSet(streams'[s]) \/ <<s, x>> \in PushedOut(streams)
        BY <1>1, <2>1, <2>2, <2>7, BroadcastStream
      <3> QED
        BY <2>1, <3>1 DEF Awaits
    <2>8. ListenerOK'
      <3>1. ListenerOK /\ Heard \in Streams
        BY StreamNames DEF IInv
      <3>2. (streams'[Heard] # None) <=> (listener' = "listening")
        BY <1>0, <2>4, <3>1 DEF ListenerOK
      <3>3. listener' \in {"idle", "subscribed"} => due' = {}
        BY <1>0, <2>1, <3>1 DEF ListenerOK
      <3>4. \A x \in due' : x.names_mine
        BY <2>1, <3>1 DEF ListenerOK
      <3>5. ASSUME NEW x \in due', listener' = "listening"
            PROVE  x \in handled' \/ Awaits(Heard, x)'
        <4>1. streams[Heard] # None
          BY <1>0, <3>1, <3>5 DEF ListenerOK
        <4>2. CASE x = e
          BY <2>7, <3>1, <4>1, <4>2
        <4>3. CASE x \in due
          BY <1>0, <2>7, <3>1, <3>5, <4>1, <4>3 DEF ListenerOK, DeliveriesHandled
        <4> QED
          BY <2>1, <3>5, <4>2, <4>3
      <3> QED
        BY <3>2, <3>3, <3>4, <3>5 DEF ListenerOK, DeliveriesHandled
    <2>9. ASSUME NEW c \in Commands PROVE CommandOK(c)'
      <3>1. Progress(c) /\ Equipped(c) /\ Reached(c)
        BY DEF IInv, CommandOK
      <3>2. Responses(c) \in Streams /\ (c \in Async => Outcomes(c) \in Streams)
        BY StreamNames
      <3>3. Progress(c)' /\ Equipped(c)'
        BY <1>0, <1>3, <2>4, <3>1, <3>2 DEF Progress, Equipped
      <3>4. ASSUME InFlight(c), NEW x \in arrived', RepliesTo(c, x)
            PROVE  Awaits(Responses(c), x)'
        <4>1. streams[Responses(c)] # None
          BY <3>1, <3>4 DEF Equipped
        <4> QED
          BY <2>1, <2>7, <3>1, <3>2, <3>4, <4>1 DEF Reached
      <3>5. ASSUME c \in Async, InFlight(c) \/ Handled(c),
                   NEW x \in arrived', IsOutcomeOf(c, x)
            PROVE  Awaits(Outcomes(c), x)'
        <4>1. streams[Outcomes(c)] # None
          BY <3>1, <3>5 DEF Equipped
        <4> QED
          BY <2>1, <2>7, <3>1, <3>2, <3>5, <4>1 DEF Reached
      <3>6. ASSUME InFlight(c) \/ Handled(c), NEW x \in sent', x.re = c
            PROVE  \/ x \in arrived'
                   \/ /\ x.kind = "response"
                      /\ \A f \in open :
                           (f.owner = c /\ f.kind = "response") => x.at < f.since
        BY <1>1, <2>1, <3>1, <3>6 DEF Reached
      <3>7. Reached(c)'
        BY <1>0, <1>3, <3>4, <3>5, <3>6 DEF Reached, RepliesTo, IsOutcomeOf
      <3> QED
        BY <3>3, <3>7 DEF CommandOK
    <2> QED
      BY <1>2, <2>5, <2>6, <2>8, <2>9 DEF IInv
  <1> QED
    BY <1>4, <1>5

\* The node's clock does not go below zero.
LEMMA EventTime == Typed => clock + scene.skew \in Nat
  <1> SUFFICES ASSUME Typed PROVE clock + scene.skew \in Nat
    OBVIOUS
  <1>1. clock \in Int /\ 1 <= clock /\ scene.skew \in Int /\ 1 + scene.skew \in Nat
    BY ScenesAssumption DEF Typed
  <1> QED
    BY <1>1

\* All the node does keeps the invariant.
LEMMA NodeStep ==
  ASSUME IInv, NodeActs
  PROVE  IInv'
  <1>0. /\ Typed /\ scene \in Scenes /\ noise \in 0..scene.noise
        /\ scene.spoilt \subseteq Spoilt /\ scene.noise \in Nat
    BY ScenesAssumption DEF IInv, Typed
  <1>1. ASSUME NEW c \in Commands, NEW v \in {"ok", "refused"}, Decide(c, v)
        PROVE  IInv'
    <2>1. /\ c \in requests /\ verdict[c] = None
          /\ verdict' = [verdict EXCEPT ![c] = v]
          /\ UNCHANGED <<scene, clock, open, streams, pc, result, releasing, listener,
                         handled, requests, asked, sent, noise, arrived, overrun, due>>
      BY <1>1 DEF Decide, client, listening, history
    <2>2. /\ verdict'[c] = v /\ v # None
          /\ \A d \in Commands : d # c => verdict'[d] = verdict[d]
          /\ verdict' \in [Commands -> {None, "ok", "refused"}]
      BY <1>0, <2>1, CommandsAssumption DEF Typed
    <2>3. Typed' /\ GoodStreams' /\ ListenerOK'
      BY <2>1, <2>2 DEF IInv, Typed, GoodStreams, ListenerOK, DeliveriesHandled, Awaits
    <2>4. World'
      <3>1. ASSUME NEW e \in sent PROVE Sendable(e)'
        <4>1. Sendable(e)
          BY DEF IInv, World
        <4>2. e.re \in Commands => e.re # c /\ verdict'[e.re] = verdict[e.re]
          BY <2>1, <2>2, <4>1 DEF Sendable
        <4> QED
          BY <4>1, <4>2 DEF Sendable, ForListener
      <3> QED
        BY <2>1, <3>1 DEF IInv, World
    <2>5. ASSUME NEW d \in Commands PROVE CommandOK(d)'
      <3>1. Progress(d)'
        BY <2>1, <2>2 DEF IInv, CommandOK, Progress
      <3>2. Equipped(d)' /\ Reached(d)'
        BY <2>1 DEF IInv, CommandOK, Equipped, Reached, InFlight, Handled, Awaits,
                    RepliesTo, IsOutcomeOf
      <3> QED
        BY <3>1, <3>2 DEF CommandOK
    <2> QED
      BY <2>3, <2>4, <2>5 DEF IInv
  <1>2. ASSUME NEW c \in Commands, NEW body \in {"ok", "refused"} \cup Spoilt, Reply(c, body)
        PROVE  IInv'
    <2> DEFINE e == Event("response", Node, c, FALSE, body)
    <2>1. /\ verdict[c] # None /\ body \in {verdict[c]} \cup scene.spoilt
          /\ body = "malformed" => verdict[c] = "ok"
          /\ Transmit(e) /\ noise' = noise
          /\ UNCHANGED <<scene, clock, open, pc, result, releasing, listening, requests,
                         verdict, asked>>
      BY <1>2 DEF Reply
    <2>2. /\ e \in Messages /\ e.kind = "response" /\ e.author = Node /\ e.re = c
          /\ e.body = body /\ ~ e.names_mine
      BY <1>0, EventTime DEF Event, Messages, Spoilt
    <2> HIDE DEF e
    <2>3. Sendable(e)
      BY <1>0, <2>1, <2>2 DEF Sendable, Spoilt
    <2> QED
      BY <1>0, <2>1, <2>3, TransmitStep
  <1>3. ASSUME NEW body \in {"ok"} \cup Spoilt, Announce(body)
        PROVE  IInv'
    <2> DEFINE e == Event("notification", Node, None, TRUE, body)
    <2>1. /\ Transmit(e) /\ noise' = noise
          /\ UNCHANGED <<scene, clock, open, pc, result, releasing, listening, requests,
                         verdict, asked>>
      BY <1>3 DEF Announce
    <2>2. /\ e \in Messages /\ e.kind = "notification" /\ e.author = Node /\ e.re = None
          /\ e.names_mine
      BY <1>0, EventTime DEF Event, Messages, Spoilt
    <2> HIDE DEF e
    <2>3. Sendable(e)
      BY <2>2, CommandsAssumption DEF Sendable, ForListener
    <2> QED
      BY <1>0, <2>1, <2>3, TransmitStep
  <1>4. ASSUME NEW c \in Async, NEW body \in {"ok"} \cup Spoilt, Report(c, body)
        PROVE  IInv'
    <2> DEFINE e == Event("notification", Node, c, asked, body)
    <2>1. /\ verdict[c] = "ok" /\ Transmit(e) /\ noise' = noise
          /\ UNCHANGED <<scene, clock, open, pc, result, releasing, listening, requests,
                         verdict, asked>>
      BY <1>4 DEF Report
    <2>2. /\ e \in Messages /\ e.kind = "notification" /\ e.author = Node /\ e.re = c
      BY <1>0, EventTime DEF Event, Messages, Commands, Typed
    <2> HIDE DEF e
    <2>3. Sendable(e)
      BY <2>1, <2>2, CommandsAssumption DEF Sendable, ForListener
    <2> QED
      BY <1>0, <2>1, <2>3, TransmitStep
  <1>5. ASSUME NEW kind \in {"response", "notification"}, NEW author \in {Node, Other},
               Noise(kind, author)
        PROVE  IInv'
    <2> DEFINE e == Event(kind, author, Elsewhere, FALSE, "ok")
    <2>1. /\ noise < scene.noise /\ noise' = noise + 1 /\ Transmit(e)
          /\ UNCHANGED <<scene, clock, open, pc, result, releasing, listening, requests,
                         verdict, asked>>
      BY <1>5 DEF Noise
    <2>2. e \in Messages /\ e.re = Elsewhere /\ ~ e.names_mine
      BY <1>0, EventTime DEF Event, Messages, Spoilt
    <2> HIDE DEF e
    <2>3. Sendable(e)
      BY <2>2, CommandsAssumption DEF Sendable
    <2>4. noise' \in 0..scene.noise
      BY <1>0, <2>1
    <2> QED
      BY <2>1, <2>3, <2>4, TransmitStep
  <1> QED
    BY <1>1, <1>2, <1>3, <1>4, <1>5 DEF NodeActs

-----------------------------------------------------------------------------
(* The listener.                                                           *)

\* What a step keeps that touches no command.
LEMMA CommandsUntouched ==
  ASSUME IInv,
         UNCHANGED <<pc, result, releasing, requests, verdict, sent, arrived, overrun>>,
         \A s \in Streams \ {Heard} : streams'[s] = streams[s],
         open \subseteq open',
         \A f \in open' : f \in open \/ f.kind # "response"
  PROVE  \A c \in Commands : CommandOK(c)'
  <1> SUFFICES ASSUME NEW c \in Commands PROVE CommandOK(c)'
    OBVIOUS
  <1>1. Progress(c) /\ Equipped(c) /\ Reached(c)
    BY DEF IInv, CommandOK
  <1>2. /\ streams'[Responses(c)] = streams[Responses(c)]
        /\ c \in Async => streams'[Outcomes(c)] = streams[Outcomes(c)]
    BY StreamNames
  <1>3. Progress(c)' /\ Equipped(c)'
    BY <1>1, <1>2 DEF Progress, Equipped, InFlight, Handled
  <1>4. Reached(c)'
    BY <1>1, <1>2 DEF Reached, InFlight, Handled, Awaits, RepliesTo, IsOutcomeOf
  <1> QED
    BY <1>3, <1>4 DEF CommandOK

\* Every step of handle_notifications and set_subscription keeps the
\* invariant; above all, what it skips was not due.
LEMMA ListenerStep ==
  ASSUME IInv, Listener
  PROVE  IInv'
  <1>0. Typed /\ GoodStreams /\ World /\ ListenerOK /\ DOMAIN streams = Streams
    BY DEF IInv, GoodStreams
  <1>1. CASE SetSubscription
    <2>1. /\ asked' = ~ asked
          /\ UNCHANGED <<scene, clock, open, streams, pc, result, releasing, listener,
                         handled, requests, verdict, sent, noise, arrived, overrun, due>>
      BY <1>1 DEF SetSubscription, client, listening, history
    <2>2. Typed' /\ GoodStreams' /\ World' /\ ListenerOK'
      BY <1>0, <2>1 DEF Typed, GoodStreams, World, Sendable, ForListener, ListenerOK,
                        DeliveriesHandled, Awaits
    <2> QED
      BY <2>1, <2>2, CommandsUntouched DEF IInv
  <1>2. CASE ListenSubscribe
    <2> DEFINE g == Filter("listener", "notification", None, clock)
    <2>1. /\ listener = "idle" /\ listener' = "subscribed" /\ open' = open \cup {g}
          /\ UNCHANGED <<scene, clock, streams, pc, result, releasing, handled,
                         requests, verdict, asked, sent, noise, arrived, overrun, due>>
      BY <1>2 DEF ListenSubscribe, node, history
    <2>2. clock \in Nat
      BY <1>0, ScenesAssumption DEF Typed
    <2>3. /\ g \in [owner : Commands \cup {"listener"}, kind : {"response", "notification"},
                    re : Commands \cup {None}, since : Nat]
          /\ g.kind = "notification"
      BY <2>2 DEF Filter
    <2> HIDE DEF g
    <2>4. Typed'
      BY <1>0, <2>1, <2>3 DEF Typed
    <2>5. GoodStreams' /\ World' /\ ListenerOK'
      BY <1>0, <2>1, <2>3 DEF GoodStreams, World, Sendable, ForListener, ListenerOK,
                              DeliveriesHandled, Awaits
    <2> QED
      BY <2>1, <2>3, <2>4, <2>5, CommandsUntouched DEF IInv
  <1>3. ASSUME /\ UNCHANGED <<scene, clock, open, pc, result, releasing, requests, verdict,
                              asked, sent, noise, arrived, overrun, due>>
               /\ listener' \in {"listening", "over"}
               /\ handled' \subseteq arrived
               /\ streams' = [s \in Streams |-> streams'[s]]
               /\ \A s \in Streams \ {Heard} : streams'[s] = streams[s],
               \/ streams'[Heard] \in {None, << >>}
               \/ Unread(Heard) /\ streams'[Heard] = Tail(streams[Heard]),
               ListenerOK'
        PROVE  IInv'
    <2>1. GoodStreams'
      BY <1>0, <1>3, MovedStreams
    <2>2. Typed' /\ World'
      BY <1>0, <1>3 DEF Typed, World, Sendable, ForListener
    <2> QED
      BY <1>3, <2>1, <2>2, CommandsUntouched DEF IInv
  <1>4. CASE Listen
    <2>1. /\ listener = "subscribed" /\ listener' = "listening"
          /\ streams' = [streams EXCEPT ![Heard] = << >>]
          /\ UNCHANGED <<scene, clock, open, pc, result, releasing, handled, requests,
                         verdict, asked, sent, noise, arrived, overrun, due>>
      BY <1>4 DEF Listen, node, history
    <2>2. ListenerOK'
      BY <1>0, <2>1, StreamNames, ToSetEmpty DEF ListenerOK, DeliveriesHandled
    <2> QED
      BY <1>0, <1>3, <2>1, <2>2, StreamNames DEF Typed
  <1>5. ASSUME Unread(Heard)
        PROVE  LET h == Next1(Heard)
                   q == Tail(streams[Heard])
               IN  /\ h \in arrived /\ q # None
                   /\ ToSet(streams[Heard]) = ToSet(q) \cup {h}
    <2>1. /\ streams[Heard] \in Seq(Messages) /\ streams[Heard] # << >>
          /\ ToSet(streams[Heard]) \subseteq arrived
      BY <1>0, <1>5, StreamNames DEF Unread, GoodStreams, GoodStream
    <2> QED
      BY <2>1, ToSetTail DEF Next1
  <1>6. CASE ListenerSkips
    <2>1. /\ listener = "listening" /\ Unread(Heard) /\ ~ ForListener(Next1(Heard))
          /\ streams' = [streams EXCEPT ![Heard] = Tail(streams[Heard])]
          /\ UNCHANGED <<scene, clock, open, pc, result, releasing, listener, handled,
                         requests, verdict, asked, sent, noise, arrived, overrun, due>>
      BY <1>6 DEF ListenerSkips, Rest, node, history, listening
    <2>2. streams'[Heard] = Tail(streams[Heard])
      BY <1>0, <2>1, StreamNames
    <2>3. \A e \in due : e # Next1(Heard)
      BY <1>0, <2>1 DEF ListenerOK, Typed, World, Sendable
    <2>4. ListenerOK'
      BY <1>0, <1>5, <2>1, <2>2, <2>3 DEF ListenerOK, DeliveriesHandled, Awaits
    <2> QED
      BY <1>0, <1>3, <2>1, <2>2, <2>4, StreamNames DEF Typed
  <1>7. ASSUME NEW goes_on \in BOOLEAN, ListenerHandles(goes_on) PROVE IInv'
    <2>1. /\ listener = "listening" /\ Unread(Heard)
          /\ handled' = handled \cup {Next1(Heard)}
          /\ listener' = IF goes_on THEN "listening" ELSE "over"
          /\ streams' = IF goes_on THEN [streams EXCEPT ![Heard] = Tail(streams[Heard])]
                        ELSE [streams EXCEPT ![Heard] = None]
          /\ UNCHANGED <<scene, clock, open, pc, result, releasing, requests, verdict,
                         asked, sent, noise, arrived, overrun, due>>
      BY <1>7 DEF ListenerHandles, Rest, node, history
    <2>2. handled' \subseteq arrived
      BY <1>0, <1>5, <2>1 DEF Typed
    <2>3. CASE goes_on
      <3>1. streams'[Heard] = Tail(streams[Heard])
        BY <1>0, <2>1, <2>3, StreamNames
      <3>2. ListenerOK'
        BY <1>0, <1>5, <2>1, <2>3, <3>1 DEF ListenerOK, DeliveriesHandled, Awaits
      <3> QED
        BY <1>0, <1>3, <2>1, <2>2, <2>3, <3>1, <3>2, StreamNames
    <2>4. CASE ~ goes_on
      <3>1. streams'[Heard] = None
        BY <1>0, <2>1, <2>4, StreamNames
      <3>2. ListenerOK'
        BY <1>0, <2>1, <2>4, <3>1 DEF ListenerOK, DeliveriesHandled
      <3> QED
        BY <1>0, <1>3, <2>1, <2>2, <2>4, <3>1, <3>2, StreamNames
    <2> QED
      BY <2>3, <2>4
  <1>8. CASE ListenerFails
    <2>1. /\ listener = "listening" /\ listener' = "over"
          /\ streams' = [streams EXCEPT ![Heard] = None]
          /\ UNCHANGED <<scene, clock, open, pc, result, releasing, handled, requests,
                         verdict, asked, sent, noise, arrived, overrun, due>>
      BY <1>8 DEF ListenerFails, node, history
    <2>2. ListenerOK'
      BY <1>0, <2>1, StreamNames DEF ListenerOK, DeliveriesHandled
    <2> QED
      BY <1>0, <1>3, <2>1, <2>2, StreamNames DEF Typed
  <1> QED
    BY <1>1, <1>2, <1>4, <1>6, <1>7, <1>8 DEF Listener

-----------------------------------------------------------------------------
(* A command.                                                              *)

Results == {None, "ok", "refused", "timed_out", "failed"}

\* The most a step of command c does to what it shares with others.
Moves(c) ==
  /\ UNCHANGED <<scene, clock, listener, handled, verdict, asked, sent, noise,
                 arrived, overrun, due>>
  /\ pc' = [pc EXCEPT ![c] = pc'[c]] /\ pc'[c] \in Places
  /\ result' = [result EXCEPT ![c] = result'[c]] /\ result'[c] \in Results
  /\ requests' \in {requests, requests \cup {c}}
  /\ releasing' \in {releasing, releasing \cup {c}, releasing \ {c}}
  /\ c \in releasing' => c \in Async
  /\ open' \subseteq open \cup {ResponseFilter(c), OutcomeFilter(c)}
  /\ open \ {OutcomeFilter(c)} \subseteq open'
  /\ streams' = [s \in Streams |-> streams'[s]]
  /\ \A s \in Streams \ {Responses(c), Outcomes(c)} : streams'[s] = streams[s]
  /\ \A s \in Streams : \/ streams'[s] \in {streams[s], None, << >>}
                        \/ Unread(s) /\ streams'[s] = Tail(streams[s])

\* The two filters of a command.
LEMMA FilterFields ==
  ASSUME Typed, NEW c \in Commands
  PROVE  /\ ResponseFilter(c) \in [owner : Commands \cup {"listener"},
                                   kind : {"response", "notification"},
                                   re : Commands \cup {None}, since : Nat]
         /\ OutcomeFilter(c) \in [owner : Commands \cup {"listener"},
                                  kind : {"response", "notification"},
                                  re : Commands \cup {None}, since : Nat]
         /\ ResponseFilter(c).owner = c /\ ResponseFilter(c).kind = "response"
         /\ ResponseFilter(c).re = None
         /\ OutcomeFilter(c).owner = c /\ OutcomeFilter(c).kind = "notification"
         /\ \A d : OutcomeFilter(d) = OutcomeFilter(c) => d = c
  <1>1. clock \in Nat
    BY ScenesAssumption DEF Typed
  <1>2. \A d : OutcomeFilter(d).owner = d
    BY DEF OutcomeFilter, Filter
  <1> QED
    BY <1>1, <1>2 DEF ResponseFilter, OutcomeFilter, Filter

\* A step of one command disturbs no other and not the listener.
LEMMA MovesKeep ==
  ASSUME IInv, NEW c \in Commands, Moves(c), CommandOK(c)'
  PROVE  IInv'
  <1>0. Typed /\ GoodStreams /\ World /\ ListenerOK
    BY DEF IInv
  <1>1. UNCHANGED <<scene, clock, listener, handled, verdict, asked, sent, noise,
                    arrived, overrun, due>>
    BY DEF Moves
  <1>2. Typed'
    <2>1. /\ pc' \in [Commands -> Places] /\ result' \in [Commands -> Results]
      BY <1>0 DEF Moves, Typed, Results
    <2>2. releasing' \subseteq Async /\ requests' \subseteq Commands
      BY <1>0 DEF Moves, Typed
    <2>3. open' \subseteq [owner : Commands \cup {"listener"},
                           kind : {"response", "notification"},
                           re : Commands \cup {None}, since : Nat]
      BY <1>0, FilterFields DEF Moves, Typed
    <2> QED
      BY <1>0, <1>1, <2>1, <2>2, <2>3 DEF Typed, Results
  <1>3. GoodStreams'
    BY <1>0, <1>1, MovedStreams DEF Moves
  <1>4. World'
    <2>1. \A f \in open' : f.kind = "response" => f.re = None
      BY <1>0, FilterFields DEF Moves, World
    <2> QED
      BY <1>0, <1>1, <2>1 DEF World, Sendable, ForListener
  <1>5. ListenerOK'
    <2>1. streams'[Heard] = streams[Heard]
      BY StreamNames DEF Moves
    <2> QED
      BY <1>0, <1>1, <2>1 DEF ListenerOK, DeliveriesHandled, Awaits
  <1>6. ASSUME NEW d \in Commands, d # c PROVE CommandOK(d)'
    <2>1. Progress(d) /\ Equipped(d) /\ Reached(d)
      BY DEF IInv, CommandOK
    <2>2. /\ pc'[d] = pc[d] /\ result'[d] = result[d]
          /\ d \in requests' <=> d \in requests
          /\ d \in releasing' <=> d \in releasing
      BY <1>0, <1>6 DEF Moves, Typed
    <2>3. /\ streams'[Responses(d)] = streams[Responses(d)]
          /\ d \in Async => streams'[Outcomes(d)] = streams[Outcomes(d)]
      BY <1>6, StreamNames DEF Moves
    <2>4. OutcomeFilter(d) \in open => OutcomeFilter(d) \in open'
      BY <1>0, <1>6, FilterFields DEF Moves
    <2>5. \A f \in open' : f.owner = d => f \in open
      BY <1>0, <1>6, FilterFields DEF Moves
    <2>6. Progress(d)' /\ Equipped(d)'
      BY <1>1, <2>1, <2>2, <2>3, <2>4 DEF Progress, Equipped, InFlight, Handled
    <2>7. Reached(d)'
      BY <1>1, <2>1, <2>2, <2>3, <2>5
      DEF Reached, InFlight, Handled, Awaits, RepliesTo, IsOutcomeOf
    <2> QED
      BY <2>6, <2>7 DEF CommandOK
  <1> QED
    BY <1>2, <1>3, <1>4, <1>5, <1>6 DEF IInv

\* Every step of a call is such a step.
LEMMA CallMoves ==
  ASSUME IInv, NEW c \in Commands, Call(c)
  PROVE  Moves(c)
  <1>0. /\ Typed /\ pc \in [Commands -> Places] /\ result \in [Commands -> Results]
        /\ streams = [s \in Streams |-> streams[s]]
        /\ releasing \subseteq Async /\ CommandOK(c)
    BY DEF IInv, Typed, GoodStreams, Results
  <1>1. /\ Responses(c) \in Streams /\ Responses(c) # Outcomes(c)
        /\ c \in Async => Outcomes(c) \in Streams
    BY StreamNames
  <1>2. CASE SendSubscribe(c)
    BY <1>0, <1>2 DEF SendSubscribe, Goto, Moves, Places, Early, listening, node, history
  <1>3. CASE BeginSubscribe(c)
    BY <1>0, <1>3 DEF BeginSubscribe, Goto, Moves, Places, Early, listening, node, history
  <1>4. CASE BeginSubscribeOutcome(c)
    BY <1>0, <1>4 DEF BeginSubscribeOutcome, Goto, Moves, Places, Early, listening, node,
                      history
  <1>5. CASE SendPublish(c)
    BY <1>0, <1>1, <1>5 DEF SendPublish, Goto, Moves, Places, Early, listening, history
  <1>6. CASE BeginPublish(c)
    BY <1>0, <1>1, <1>6 DEF BeginPublish, Goto, Moves, Places, Early, listening, history
  <1>7. CASE SendReturns(c)
    BY <1>0, <1>7 DEF SendReturns, Goto, Moves, Places, Early, listening, node, history
  <1>8. CASE Abandon(c)
    BY <1>0, <1>1, <1>8 DEF Abandon, End, Dropped, Moves, Places, Results, listening, node,
                            history
  <1>9. CASE SkipResponse(c)
    BY <1>0, <1>1, <1>9 DEF SkipResponse, Rest, Moves, listening, node, history
  <1>10. CASE CallAnswered(c)
    BY <1>0, <1>1, <1>10 DEF CallAnswered, End, Dropped, Moves, Places, Results, listening,
                             node, history
  <1>11. CASE BeginAnswered(c)
    BY <1>0, <1>1, <1>11 DEF BeginAnswered, End, Dropped, Moves, Places, Results, listening,
                             node, history
  <1>12. CASE TimeOut(c)
    BY <1>0, <1>1, <1>12 DEF TimeOut, End, Dropped, Moves, Places, Results, listening, node,
                             history
  <1> QED
    BY <1>2, <1>3, <1>4, <1>5, <1>6, <1>7, <1>8, <1>9, <1>10, <1>11, <1>12 DEF Call

\* So is every step of a handle.
LEMMA HandleMoves ==
  ASSUME IInv, NEW c \in Async, Handle(c)
  PROVE  Moves(c)
  <1>0. /\ pc \in [Commands -> Places] /\ result \in [Commands -> Results]
        /\ streams = [s \in Streams |-> streams[s]]
        /\ releasing \subseteq Async /\ c \in Commands
    BY DEF IInv, Typed, GoodStreams, Results, Commands
  <1>1. Outcomes(c) \in Streams
    BY StreamNames
  <1>2. CASE Wait(c)
    BY <1>0, <1>2 DEF Wait, Goto, Moves, Places, listening, node, history
  <1>3. CASE SkipOutcome(c)
    BY <1>0, <1>1, <1>3 DEF SkipOutcome, Rest, Moves, listening, node, history
  <1>4. CASE Outcome(c)
    BY <1>0, <1>1, <1>4 DEF Outcome, DropPending, Goto, Without, Moves, Places, listening,
                            node, history
  <1>5. CASE OutcomeTimeOut(c)
    BY <1>0, <1>1, <1>5 DEF OutcomeTimeOut, DropPending, Goto, Without, Moves, Places,
                            listening, node, history
  <1>6. CASE DropHandle(c)
    BY <1>0, <1>1, <1>6 DEF DropHandle, DropPending, Goto, Moves, Places, listening, node,
                            history
  <1>7. CASE Unsubscribe(c)
    BY <1>0, <1>7 DEF Unsubscribe, Without, Moves, listening, node, history
  <1> QED
    BY <1>2, <1>3, <1>4, <1>5, <1>6, <1>7 DEF Handle

\* Before its request is out a command has nothing to miss.
LEMMA EarlyOK ==
  ASSUME IInv, NEW c \in Commands, Moves(c), pc[c] \in Early, pc'[c] \in Early,
         pc'[c] = "subscribed" => c \in Async,
         c \in Async /\ pc'[c] = "prepared" => OutcomeFilter(c) \in open',
         UNCHANGED <<streams, result, releasing, requests>>
  PROVE  CommandOK(c)'
  <1>1. Progress(c) /\ Equipped(c) /\ UNCHANGED verdict
    BY DEF IInv, CommandOK, Moves
  <1>2. /\ ~ InFlight(c) /\ ~ Handled(c) /\ ~ InFlight(c)' /\ ~ Handled(c)'
    BY DEF InFlight, Handled, Early
  <1>3. Progress(c)' /\ Equipped(c)'
    BY <1>1, <1>2 DEF Progress, Equipped, Early
  <1> QED
    BY <1>2, <1>3 DEF CommandOK, Reached

\* Once it is over it needs nothing.
LEMMA OverOK ==
  ASSUME IInv, NEW c \in Commands, Moves(c), pc'[c] = "over",
         streams'[Responses(c)] = None, c \in Async => streams'[Outcomes(c)] = None
  PROVE  CommandOK(c)'
  <1>1. Progress(c) /\ verdict' = verdict /\ requests \subseteq requests'
    BY DEF IInv, CommandOK, Moves
  <1>2. ~ InFlight(c)' /\ ~ Handled(c)'
    BY DEF InFlight, Handled
  <1>3. Progress(c)' /\ Equipped(c)'
    BY <1>1, <1>2 DEF Progress, Equipped, Early
  <1> QED
    BY <1>2, <1>3 DEF CommandOK, Reached

\* Streams are taken before the request is out, so nothing about it can have
\* been sent yet.
LEMMA PublishOK ==
  ASSUME IInv, NEW c \in Commands, Moves(c), pc[c] = "prepared", pc'[c] = "published",
         requests' = requests \cup {c}, UNCHANGED <<open, result, releasing>>,
         streams'[Responses(c)] = << >>, c \in Async => streams'[Outcomes(c)] = << >>
  PROVE  CommandOK(c)'
  <1>1. Progress(c) /\ Equipped(c)
    BY DEF IInv, CommandOK
  <1>2. UNCHANGED <<verdict, sent, arrived>>
    BY DEF Moves
  <1>3. c \notin requests /\ verdict[c] = None /\ c \notin releasing /\ result[c] = None
    BY <1>1 DEF Progress, Early
  <1>4. \A e \in sent : e.re # c
    BY <1>3 DEF IInv, World, Sendable
  <1>5. InFlight(c)' /\ ~ Handled(c)'
    BY DEF InFlight, Handled
  <1>6. Progress(c)' /\ Equipped(c)'
    BY <1>1, <1>3, <1>5, ToSetEmpty DEF Progress, Equipped, Early
  <1>7. Reached(c)'
    BY <1>2, <1>4 DEF Reached, RepliesTo, IsOutcomeOf, IInv, Typed
  <1> QED
    BY <1>6, <1>7 DEF CommandOK

\* Going on to wait keeps the streams, and with them what they hold.
LEMMA OnwardOK ==
  ASSUME IInv, NEW c \in Commands, Moves(c),
         \/ pc[c] = "published" /\ pc'[c] = "awaiting"
         \/ pc[c] = "held" /\ pc'[c] = "waiting",
         UNCHANGED <<open, streams, result, releasing, requests>>
  PROVE  CommandOK(c)'
  <1>1. Progress(c) /\ Equipped(c) /\ Reached(c)
    BY DEF IInv, CommandOK
  <1>2. UNCHANGED <<verdict, sent, arrived, overrun>>
    BY DEF Moves
  <1>3. (InFlight(c)' <=> InFlight(c)) /\ (Handled(c)' <=> Handled(c))
    BY DEF InFlight, Handled
  <1>4. Progress(c)' /\ Equipped(c)'
    BY <1>1, <1>2, <1>3 DEF Progress, Equipped, Early
  <1>5. Reached(c)'
    BY <1>1, <1>2, <1>3 DEF Reached, RepliesTo, IsOutcomeOf, Awaits
  <1> QED
    BY <1>4, <1>5 DEF CommandOK

\* Skipping an event that is not for it does a command no harm.
LEMMA SkipOK ==
  ASSUME IInv, NEW c \in Commands, Moves(c), NEW t \in Streams, Unread(t),
         \/ t = Responses(c) /\ ~ RepliesTo(c, Next1(t))
         \/ c \in Async /\ t = Outcomes(c) /\ ~ IsOutcomeOf(c, Next1(t)),
         streams' = Rest(t), UNCHANGED <<open, pc, result, releasing, requests>>
  PROVE  CommandOK(c)'
  <1>1. Progress(c) /\ Equipped(c) /\ Reached(c)
    BY DEF IInv, CommandOK
  <1>2. UNCHANGED <<verdict, sent, arrived, overrun>>
    BY DEF Moves
  <1>3. (InFlight(c)' <=> InFlight(c)) /\ (Handled(c)' <=> Handled(c))
    BY DEF InFlight, Handled
  <1>4. /\ streams'[t] = Tail(streams[t]) /\ streams[t] # None
        /\ \A s \in Streams : s # t => streams'[s] = streams[s]
    BY DEF IInv, GoodStreams, Rest, Unread
  <1>5. /\ streams'[t] # None
        /\ ToSet(streams[t]) = ToSet(streams'[t]) \cup {Next1(t)}
    <2>1. streams[t] \in Seq(Messages) /\ streams[t] # << >>
      BY DEF Unread, IInv, GoodStreams, GoodStream
    <2> QED
      BY <1>4, <2>1, ToSetTail DEF Next1
  <1>6. \A s \in Streams : \A x : Awaits(s, x) => Awaits(s, x)' \/ (s = t /\ x = Next1(t))
    BY <1>2, <1>4, <1>5 DEF Awaits
  <1>7. Responses(c) \in Streams /\ (c \in Async => Outcomes(c) \in Streams)
        /\ Responses(c) # Outcomes(c)
    BY StreamNames
  <1>8. Progress(c)' /\ Equipped(c)'
    BY <1>1, <1>2, <1>3, <1>4, <1>5, <1>7 DEF Progress, Equipped
  <1>9. Reached(c)'
    <2>1. ASSUME InFlight(c), NEW e \in arrived, RepliesTo(c, e)
          PROVE  Awaits(Responses(c), e)'
      BY <1>1, <1>6, <1>7, <2>1 DEF Reached
    <2>2. ASSUME c \in Async, InFlight(c) \/ Handled(c), NEW e \in arrived,
                 IsOutcomeOf(c, e)
          PROVE  Awaits(Outcomes(c), e)'
      BY <1>1, <1>6, <1>7, <2>2 DEF Reached
    <2> QED
      BY <1>1, <1>2, <1>3, <2>1, <2>2 DEF Reached, RepliesTo, IsOutcomeOf
  <1> QED
    BY <1>8, <1>9 DEF CommandOK

\* The acknowledgement leaves the stream and the filter of the outcome to the
\* handle.
LEMMA AcknowledgedOK ==
  ASSUME IInv, NEW c \in Async, Moves(c), pc[c] = "awaiting", pc'[c] = "held",
         streams' = [streams EXCEPT ![Responses(c)] = None],
         UNCHANGED <<open, releasing, requests>>
  PROVE  CommandOK(c)'
  <1>0. c \in Commands
    BY DEF Commands
  <1>1. Progress(c) /\ Equipped(c) /\ Reached(c)
    BY <1>0 DEF IInv, CommandOK
  <1>2. UNCHANGED <<verdict, sent, arrived, overrun>>
    BY DEF Moves
  <1>3. InFlight(c) /\ ~ InFlight(c)' /\ Handled(c)'
    BY DEF InFlight, Handled
  <1>4. streams'[Responses(c)] = None /\ streams'[Outcomes(c)] = streams[Outcomes(c)]
    BY <1>0, StreamNames DEF IInv, GoodStreams
  <1>5. Progress(c)' /\ Equipped(c)'
    BY <1>1, <1>2, <1>3, <1>4 DEF Progress, Equipped, Early
  <1>6. Reached(c)'
    BY <1>1, <1>2, <1>3, <1>4 DEF Reached, RepliesTo, IsOutcomeOf, Awaits
  <1> QED
    BY <1>5, <1>6 DEF CommandOK

\* Ending the subscription of a handle that is gone takes nothing from anyone.
LEMMA ReleaseOK ==
  ASSUME IInv, NEW c \in Async, Moves(c), c \in releasing,
         releasing' = releasing \ {c}, UNCHANGED <<streams, pc, result, requests>>
  PROVE  CommandOK(c)'
  <1>0. c \in Commands
    BY DEF Commands
  <1>1. Progress(c) /\ Equipped(c) /\ pc'[c] = "over"
    BY <1>0 DEF IInv, CommandOK, Progress
  <1>2. streams'[Responses(c)] = None /\ streams'[Outcomes(c)] = None
    BY <1>0, <1>1 DEF Equipped, InFlight, Handled
  <1> QED
    BY <1>0, <1>1, <1>2, OverOK

\* Every step of a call keeps the invariant.
LEMMA CallStep ==
  ASSUME IInv, NEW c \in Commands, Call(c)
  PROVE  IInv'
  <1> SUFFICES CommandOK(c)'
    BY CallMoves, MovesKeep
  <1>0. Moves(c) /\ CommandOK(c) /\ pc \in [Commands -> Places]
    BY CallMoves DEF IInv, Typed
  <1>1. /\ Responses(c) \in Streams /\ Responses(c) # Outcomes(c)
        /\ c \in Async => Outcomes(c) \in Streams
        /\ DOMAIN streams = Streams
    BY StreamNames DEF IInv, GoodStreams
  <1>2. c \in Plain => c \notin Async
    BY CommandsAssumption
  <1>3. \A place : Goto(c, place) => pc'[c] = place
    BY <1>0 DEF Goto
  <1>4. ASSUME streams' = Dropped(c), pc'[c] = "over" PROVE CommandOK(c)'
    <2>1. streams'[Responses(c)] = None /\ (c \in Async => streams'[Outcomes(c)] = None)
      BY <1>1, <1>4 DEF Dropped
    <2> QED
      BY <1>0, <1>4, <2>1, OverOK
  <1>5. CASE SendSubscribe(c)
    BY <1>0, <1>2, <1>3, <1>5, EarlyOK DEF SendSubscribe, node, Early
  <1>6. CASE BeginSubscribe(c)
    BY <1>0, <1>3, <1>6, EarlyOK DEF BeginSubscribe, node, Early
  <1>7. CASE BeginSubscribeOutcome(c)
    BY <1>0, <1>3, <1>7, EarlyOK DEF BeginSubscribeOutcome, node, Early
  <1>8. CASE SendPublish(c)
    <2>1. streams'[Responses(c)] = << >>
      BY <1>1, <1>8 DEF SendPublish
    <2> QED
      BY <1>0, <1>2, <1>3, <1>8, <2>1, PublishOK DEF SendPublish
  <1>9. CASE BeginPublish(c)
    <2>1. streams'[Responses(c)] = << >> /\ streams'[Outcomes(c)] = << >>
      BY <1>1, <1>9 DEF BeginPublish
    <2> QED
      BY <1>0, <1>3, <1>9, <2>1, PublishOK DEF BeginPublish
  <1>10. CASE SendReturns(c)
    BY <1>0, <1>3, <1>10, OnwardOK DEF SendReturns, node
  <1>11. CASE Abandon(c)
    BY <1>0, <1>4, <1>11 DEF Abandon, End
  <1>12. CASE SkipResponse(c)
    BY <1>0, <1>1, <1>12, SkipOK DEF SkipResponse, node
  <1>13. CASE CallAnswered(c)
    BY <1>0, <1>4, <1>13 DEF CallAnswered, End
  <1>14. CASE BeginAnswered(c)
    <2>1. c \in Async /\ pc[c] = "awaiting" /\ UNCHANGED <<open, releasing, requests>>
      BY <1>14 DEF BeginAnswered, node
    <2>2. CASE Next1(Responses(c)).body \in {"ok", "malformed"}
      <3>1. /\ pc' = [pc EXCEPT ![c] = "held"]
            /\ streams' = [streams EXCEPT ![Responses(c)] = None]
        BY <1>14, <2>2 DEF BeginAnswered
      <3> QED
        BY <1>0, <2>1, <3>1, AcknowledgedOK
    <2>3. CASE Next1(Responses(c)).body \notin {"ok", "malformed"}
      BY <1>0, <1>4, <1>14, <2>3 DEF BeginAnswered, End
    <2> QED
      BY <2>2, <2>3
  <1>15. CASE TimeOut(c)
    BY <1>0, <1>4, <1>15 DEF TimeOut, End
  <1> QED
    BY <1>5, <1>6, <1>7, <1>8, <1>9, <1>10, <1>11, <1>12, <1>13, <1>14, <1>15 DEF Call

\* Every step of a handle keeps the invariant.
LEMMA HandleStep ==
  ASSUME IInv, NEW c \in Async, Handle(c)
  PROVE  IInv'
  <1>0. /\ c \in Commands /\ Moves(c) /\ CommandOK(c) /\ pc \in [Commands -> Places]
        /\ DOMAIN streams = Streams
    BY HandleMoves DEF IInv, Typed, GoodStreams, Commands
  <1> SUFFICES CommandOK(c)'
    BY <1>0, MovesKeep
  <1>1. /\ Responses(c) \in Streams /\ Responses(c) # Outcomes(c) /\ Outcomes(c) \in Streams
    BY <1>0, StreamNames
  <1>2. ASSUME pc[c] \in {"held", "waiting"}, DropPending(c) PROVE CommandOK(c)'
    <2>1. pc'[c] = "over" /\ streams'[Outcomes(c)] = None
          /\ streams'[Responses(c)] = streams[Responses(c)]
      BY <1>0, <1>1, <1>2 DEF DropPending, Goto
    <2>2. streams[Responses(c)] = None
      BY <1>0, <1>2 DEF CommandOK, Equipped, InFlight
    <2> QED
      BY <1>0, <2>1, <2>2, OverOK
  <1>3. CASE Wait(c)
    BY <1>0, <1>3, OnwardOK DEF Wait, Goto, node
  <1>4. CASE SkipOutcome(c)
    BY <1>0, <1>1, <1>4, SkipOK DEF SkipOutcome, node
  <1>5. CASE Outcome(c)
    BY <1>2, <1>5 DEF Outcome
  <1>6. CASE OutcomeTimeOut(c)
    BY <1>2, <1>6 DEF OutcomeTimeOut
  <1>7. CASE DropHandle(c)
    BY <1>2, <1>7 DEF DropHandle
  <1>8. CASE Unsubscribe(c)
    BY <1>0, <1>8, ReleaseOK DEF Unsubscribe, node
  <1> QED
    BY <1>3, <1>4, <1>5, <1>6, <1>7, <1>8 DEF Handle

-----------------------------------------------------------------------------
(* The invariant holds, and what follows from it.                          *)

\* Before the first call nothing is open, sent or owed.
LEMMA InitIInv == Init => IInv
  <1> SUFFICES ASSUME Init PROVE IInv
    OBVIOUS
  <1>1. /\ streams = [s \in Streams |-> None] /\ scene \in Scenes
        /\ scene.seconds \in Nat \ {0} /\ scene.noise \in Nat
    BY ScenesAssumption DEF Init
  <1>2. Typed
    <2>1. clock \in 1..scene.seconds /\ noise \in 0..scene.noise
      BY <1>1 DEF Init
    <2>2. pc \in [Commands -> Places] /\ result \in [Commands -> Results]
      BY DEF Init, Places, Early, Results
    <2>3. /\ verdict \in [Commands -> {None, "ok", "refused"}]
          /\ listener \in {"idle", "subscribed", "listening", "over"}
          /\ asked \in BOOLEAN
      BY DEF Init
    <2> QED
      BY <1>1, <2>1, <2>2, <2>3 DEF Init, Typed, Results
  <1>3. GoodStreams
    BY <1>1 DEF GoodStreams, GoodStream
  <1>4. World /\ ListenerOK
    BY <1>1, StreamNames DEF Init, World, ListenerOK, DeliveriesHandled
  <1>5. ASSUME NEW c \in Commands PROVE CommandOK(c)
    <2>1. /\ pc[c] \in {"idle", "over"} /\ result[c] = None /\ verdict[c] = None
          /\ c \notin requests /\ c \notin releasing /\ sent = {} /\ arrived = {}
      BY DEF Init
    <2>2. streams[Responses(c)] = None /\ (c \in Async => streams[Outcomes(c)] = None)
      BY <1>1, StreamNames
    <2> QED
      BY <2>1, <2>2 DEF CommandOK, Progress, Equipped, Reached, InFlight, Handled, Early
  <1> QED
    BY <1>2, <1>3, <1>4, <1>5 DEF IInv

\* Every step keeps the invariant.
LEMMA NextIInv == IInv /\ [Next]_vars => IInv'
  <1> SUFFICES ASSUME IInv, [Next]_vars PROVE IInv'
    OBVIOUS
  <1>1. ASSUME NEW c \in Commands, Call(c) PROVE IInv'
    BY <1>1, CallStep
  <1>2. ASSUME NEW c \in Async, Handle(c) PROVE IInv'
    BY <1>2, HandleStep
  <1>3. ASSUME clock' \in 1..scene.seconds,
               UNCHANGED <<scene, open, streams, pc, result, releasing, listener, handled,
                           requests, verdict, asked, sent, noise, arrived, overrun, due>>
        PROVE  IInv'
    <2>1. Typed' /\ GoodStreams' /\ World' /\ ListenerOK'
      BY <1>3 DEF IInv, Typed, GoodStreams, World, Sendable, ForListener, ListenerOK,
                  DeliveriesHandled, Awaits
    <2> QED
      BY <1>3, <2>1, CommandsUntouched DEF IInv
  <1>4. clock \in 1..scene.seconds /\ scene.seconds \in Nat
    BY ScenesAssumption DEF IInv, Typed
  <1>5. CASE Tick
    <2>1. clock' \in 1..scene.seconds
      BY <1>4, <1>5 DEF Tick
    <2> QED
      BY <1>3, <1>5, <2>1 DEF Tick, client, listening, node, history
  <1>6. CASE UNCHANGED vars
    BY <1>3, <1>4, <1>6 DEF vars, client, listening, node, history
  <1> QED
    BY <1>1, <1>2, <1>5, <1>6, ListenerStep, NodeStep DEF Next

\* The invariant holds of every history.
LEMMA AlwaysIInv == Spec => []IInv
  BY InitIInv, NextIInv, PTL DEF Spec

\* The state is of its types; above all, a call holds its streams exactly
\* while it needs them, whichever way it ends.
THEOREM TypeCorrect == Spec => []TypeOK
  <1>1. IInv => TypeOK
    <2> SUFFICES ASSUME IInv PROVE TypeOK
      OBVIOUS
    <2>1. /\ streams \in [Streams -> Seq(Messages) \cup {None}]
          /\ \A s \in Streams : streams[s] # None => Len(streams[s]) <= Capacity
      BY DEF IInv, GoodStreams, GoodStream
    <2>2. /\ \A c \in Commands : (streams[Responses(c)] # None) <=> InFlight(c)
          /\ \A c \in Async : (streams[Outcomes(c)] # None) <=> (InFlight(c) \/ Handled(c))
      BY DEF IInv, CommandOK, Equipped, Commands
    <2> QED
      BY <2>1, <2>2 DEF IInv, Typed, TypeOK, Places, Early
  <1> QED
    BY <1>1, AlwaysIInv, PTL

\* send and begin subscribe before they publish: a response that reaches the
\* client in time is there for its call, with any number of calls at once.
THEOREM AnswersNotMissed == Spec => []AnswerNotMissed
  <1>1. IInv => AnswerNotMissed
    BY DEF IInv, CommandOK, Reached, AnswerNotMissed
  <1> QED
    BY <1>1, AlwaysIInv, PTL

\* begin takes the stream of the outcome before the request is out: however
\* early the outcome comes, the handle finds it.
THEOREM OutcomesNotMissed == Spec => []OutcomeNotMissed
  <1>1. IInv => OutcomeNotMissed
    BY DEF IInv, CommandOK, Reached, OutcomeNotMissed, Commands
  <1> QED
    BY <1>1, AlwaysIInv, PTL

\* The relay passes on what a command is there for, whatever others
\* unsubscribe, but for responses stamped before their filter.
THEOREM AlwaysPassedOn == Spec => []PassedOn
  <1>1. IInv => PassedOn
    BY DEF IInv, CommandOK, Reached, PassedOn
  <1> QED
    BY <1>1, AlwaysIInv, PTL

\* handle_notifications gives every delivery it has received to its callback.
THEOREM DeliveriesAlwaysHandled == Spec => []DeliveriesHandled
  <1>1. IInv => DeliveriesHandled
    BY DEF IInv, ListenerOK
  <1> QED
    BY <1>1, AlwaysIInv, PTL

-----------------------------------------------------------------------------
(* Refinement of Command.                                                  *)

\* What a response in the stream of a call that it answers says is what the
\* node decided.
LEMMA AnswerIsVerdict ==
  ASSUME IInv, NEW c \in Commands, Unread(Responses(c)),
         RepliesTo(c, Next1(Responses(c)))
  PROVE  LET body == Next1(Responses(c)).body
         IN  /\ body \in {"ok", "refused"} \cup Spoilt
             /\ body # "garbled" =>
                  verdict[c] = IF body = "malformed" THEN "ok" ELSE body
  <1> DEFINE e == Next1(Responses(c))
  <1>1. /\ streams[Responses(c)] \in Seq(Messages) /\ streams[Responses(c)] # << >>
        /\ ToSet(streams[Responses(c)]) \subseteq arrived
    BY StreamNames DEF IInv, GoodStreams, GoodStream, Unread
  <1>2. e \in arrived
    BY <1>1, ToSetTail DEF Next1
  <1>3. Sendable(e) /\ e \in Messages
    BY <1>2 DEF IInv, Typed, World
  <1> HIDE DEF e
  <1>4. /\ e.body \in {"ok", "refused"} \cup Spoilt
        /\ e.body # "garbled" => verdict[c] = IF e.body = "malformed" THEN "ok" ELSE e.body
    BY <1>3 DEF Sendable, Messages, RepliesTo, e
  <1> QED
    BY <1>4 DEF e

\* A step of the client towards the caller is one of the promise.
LEMMA CallKeepsPromise ==
  ASSUME IInv, NEW c \in Commands, Call(c)
  PROVE  [Promise!Next]_(Promise!vars)
  <1> DEFINE learned == [d \in Commands |-> Learned(result[d])]
  <1>0. /\ result \in [Commands -> Results] /\ verdict' = verdict /\ Progress(c)
        /\ None \notin {"ok", "refused", "timed_out", "failed"}
    BY CallMoves, CommandsAssumption DEF IInv, Typed, Results, Moves, CommandOK
  <1>1. Learned(None) = None
    BY <1>0 DEF Learned
  <1>2. ASSUME UNCHANGED <<requests, result>> PROVE UNCHANGED Promise!vars
    BY <1>0, <1>2 DEF Promise!vars
  <1>3. ASSUME pc[c] = "prepared", requests' = requests \cup {c}, result' = result
        PROVE  Promise!Next
    <2>1. c \notin requests /\ result[c] = None
      BY <1>0, <1>3 DEF Progress, Early
    <2>2. Promise!Issue(c)
      BY <1>0, <1>1, <1>3, <2>1 DEF Promise!Issue
    <2> QED
      BY <2>2 DEF Promise!Next
  <1>4. ASSUME result[c] = None, requests' = requests, NEW r \in Results \ {None},
               result' = [result EXCEPT ![c] = r],
               r \in {"ok", "refused"} => verdict[c] = r
        PROVE  Promise!Next
    <2>1. [d \in Commands |-> Learned(result'[d])] = [learned EXCEPT ![c] = Learned(r)]
      BY <1>0, <1>4
    <2>2. learned[c] = None
      BY <1>1, <1>4
    <2>3. CASE r \in {"ok", "refused"}
      <3>1. Learned(r) = verdict[c] /\ verdict[c] # None
        BY <1>0, <1>4, <2>3 DEF Learned
      <3>2. Promise!Learn(c)
        BY <1>0, <1>4, <2>1, <2>2, <3>1 DEF Promise!Learn
      <3> QED
        BY <3>2 DEF Promise!Next
    <2>4. CASE r \in {"timed_out", "failed"}
      <3>1. Learned(r) = "unknown"
        BY <2>4 DEF Learned
      <3>2. Promise!GiveUp(c)
        BY <1>0, <1>4, <2>1, <2>2, <3>1 DEF Promise!GiveUp
      <3> QED
        BY <3>2 DEF Promise!Next
    <2> QED
      BY <1>4, <2>3, <2>4 DEF Results
  <1>5. pc[c] \in {"idle", "subscribed", "prepared", "published", "awaiting"}
          => result[c] = None
    BY <1>0 DEF Progress, Early
  <1>6. CASE SendSubscribe(c) \/ BeginSubscribe(c) \/ BeginSubscribeOutcome(c)
             \/ SendReturns(c) \/ SkipResponse(c)
    BY <1>2, <1>6 DEF SendSubscribe, BeginSubscribe, BeginSubscribeOutcome, SendReturns,
                      SkipResponse, node
  <1>7. CASE SendPublish(c) \/ BeginPublish(c)
    BY <1>3, <1>7 DEF SendPublish, BeginPublish
  <1>8. CASE Abandon(c) \/ TimeOut(c)
    <2>1. PICK r \in {"timed_out", "failed"} : result' = [result EXCEPT ![c] = r]
      BY <1>8 DEF Abandon, TimeOut, End
    <2>2. requests' = requests /\ result[c] = None
      BY <1>5, <1>8 DEF Abandon, TimeOut, node
    <2> QED
      BY <1>0, <1>4, <2>1, <2>2 DEF Results
  <1>9. CASE CallAnswered(c) \/ BeginAnswered(c)
    <2> DEFINE body == Next1(Responses(c)).body
    <2>1. /\ requests' = requests /\ result[c] = None
          /\ Unread(Responses(c)) /\ RepliesTo(c, Next1(Responses(c)))
      BY <1>5, <1>9 DEF CallAnswered, BeginAnswered, node
    <2>2. /\ body \in {"ok", "refused"} \cup Spoilt
          /\ body # "garbled" => verdict[c] = IF body = "malformed" THEN "ok" ELSE body
      BY <2>1, AnswerIsVerdict
    <2>3. PICK r : /\ result' = [result EXCEPT ![c] = r]
                   /\ r \in {"ok", "refused", "failed"}
                   /\ r = "ok" => body \in {"ok", "malformed"}
                   /\ r = "refused" => body = "refused"
      BY <1>9 DEF CallAnswered, BeginAnswered, End
    <2>4. r \in {"ok", "refused"} => verdict[c] = r
      BY <2>2, <2>3
    <2> QED
      BY <1>0, <1>4, <2>1, <2>3, <2>4 DEF Results
  <1> QED
    BY <1>6, <1>7, <1>8, <1>9 DEF Call

\* With any number of commands at once, late replies, lost replies, handles
\* and dropped futures, the client keeps its promise about each command.
THEOREM RefinesCommand == Spec => ImplementsCommand
  <1>1. Init => Promise!Init
    BY CommandsAssumption DEF Init, Promise!Init, Learned
  <1>2. IInv /\ [Next]_vars => [Promise!Next]_(Promise!vars)
    <2> SUFFICES ASSUME IInv, [Next]_vars PROVE [Promise!Next]_(Promise!vars)
      OBVIOUS
    <2>1. ASSUME UNCHANGED <<requests, result, verdict>> PROVE UNCHANGED Promise!vars
      BY <2>1 DEF Promise!vars
    <2>2. ASSUME NEW c \in Async, Handle(c) PROVE UNCHANGED <<requests, result, verdict>>
      BY <2>2 DEF Handle, Wait, SkipOutcome, Outcome, OutcomeTimeOut, DropHandle,
                  Unsubscribe, node
    <2>3. ASSUME Listener PROVE UNCHANGED <<requests, result, verdict>>
      BY <2>3 DEF Listener, SetSubscription, ListenSubscribe, Listen, ListenerSkips,
                  ListenerHandles, ListenerFails, client, node
    <2>4. ASSUME NodeActs PROVE [Promise!Next]_(Promise!vars)
      <3>1. ASSUME NEW c \in Commands, NEW v \in {"ok", "refused"}, Decide(c, v)
            PROVE  Promise!Next
        <4>1. Promise!Decide(c, v)
          BY <3>1 DEF Decide, Promise!Decide, client
        <4> QED
          BY <4>1 DEF Promise!Next
      <3>2. ASSUME NEW c \in Commands, NEW body, Reply(c, body)
            PROVE  UNCHANGED <<requests, result, verdict>>
        BY <3>2 DEF Reply
      <3>3. ASSUME NEW body, Announce(body) PROVE UNCHANGED <<requests, result, verdict>>
        BY <3>3 DEF Announce
      <3>4. ASSUME NEW c, NEW body, Report(c, body)
            PROVE  UNCHANGED <<requests, result, verdict>>
        BY <3>4 DEF Report
      <3>5. ASSUME NEW kind, NEW author, Noise(kind, author)
            PROVE  UNCHANGED <<requests, result, verdict>>
        BY <3>5 DEF Noise
      <3> QED
        BY <2>1, <2>4, <3>1, <3>2, <3>3, <3>4, <3>5 DEF NodeActs
    <2>5. ASSUME Tick PROVE UNCHANGED <<requests, result, verdict>>
      BY <2>5 DEF Tick, client, node
    <2>6. ASSUME UNCHANGED vars PROVE UNCHANGED <<requests, result, verdict>>
      BY <2>6 DEF vars, client, node
    <2> QED
      BY <2>1, <2>2, <2>3, <2>4, <2>5, <2>6, CallKeepsPromise DEF Next
  <1> QED
    BY <1>1, <1>2, AlwaysIInv, PTL DEF Spec, ImplementsCommand, Promise!Spec
=============================================================================
