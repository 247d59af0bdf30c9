------------------------- MODULE WalletClientProofs -------------------------
(***************************************************************************)
(* Proofs about the NWC client (nwc/client) for every set of concurrent    *)
(* requests, every capacity of the broadcast and any amount of noise: a    *)
(* caller learns what the wallet decided about its own request or nothing, *)
(* and a notification sent while the stream is there, and not stamped      *)
(* before it, is not lost between reads.                                   *)
(***************************************************************************)
EXTENDS WalletClient, CommonProofs

-----------------------------------------------------------------------------
(* The inductive invariant.                                                *)

Places == {"idle", "prepared", "published", "awaiting", "over"}
Results == {None, "ok", "refused", "timed_out", "failed"}

\* How far a request is, and what goes with it: nothing is out before it is
\* published, no result is there before it is over, and the stream is there
\* while it is in flight.
CommandOK(c) ==
  /\ pc[c] \in {"idle", "prepared"} => c \notin requests
  /\ pc[c] # "over" => result[c] = None
  /\ verdict[c] # None => c \in requests
  /\ (streams[c] # None) <=> InFlight(c)

\* What the wallet may have sent about a command: what it decided.
Sendable(e) ==
  /\ e \in Messages
  /\ e.re \in Commands =>
       /\ verdict[e.re] # None
       /\ e.body \in {"ok", "refused"} => e.body = verdict[e.re]

HeardFilter == Filter(Heard, "notification", None, since)

\* The stream of notifications is there once it is taken, and its filter with
\* it until the WalletConnect is dropped.
NoticeOK ==
  /\ (streams[Heard] # None) <=> (stage = "taken")
  /\ reader # None => stage = "taken"
  /\ stage \in {"asked", "filtering"} => ~ dropped
  /\ stage \in {"filtering", "taken"} /\ ~ dropped => HeardFilter \in open
  /\ stage # "taken" => due = {}
  /\ \A e \in due : IsNotification(e)
  /\ NotificationNotMissed

Typed ==
  /\ scene \in Scenes /\ noise \in 0..scene.noise
  /\ clock \in 1..scene.seconds /\ since \in 0..clock
  /\ pc \in [Commands -> Places] /\ result \in [Commands -> Results]
  /\ verdict \in [Commands -> {None, "ok", "refused"}]
  /\ stage \in {"idle", "asked", "filtering", "taken", "failed"}
  /\ reader \in {None, AnyType} \cup Types
  /\ dropped \in BOOLEAN /\ wanted \in BOOLEAN
  /\ requests \subseteq Commands /\ happened \subseteq Types
  /\ sent \subseteq Messages /\ arrived \subseteq sent /\ due \subseteq sent

\* What a stream holds was received, and fits.
GoodStream(q, M, seen) ==
  /\ q \in Seq(M) \cup {None}
  /\ q # None => Len(q) <= Capacity /\ ToSet(q) \subseteq seen

GoodStreams ==
  /\ streams = [s \in Streams |-> streams[s]]
  /\ \A s \in Streams : GoodStream(streams[s], Messages, arrived)

IInv ==
  /\ Typed /\ GoodStreams /\ NoticeOK
  /\ \A e \in sent : Sendable(e)
  /\ \A c \in Commands : CommandOK(c)

-----------------------------------------------------------------------------
(* Streams.                                                                *)

\* A command's stream is not the stream of notifications.
LEMMA StreamNames ==
  Heard \in Streams /\ \A c \in Commands : c \in Streams /\ c # Heard
  BY CommandsAssumption DEF Streams

\* An empty stream of this client's events holds nothing.
LEMMA ToSetEmpty == ToSet(<< >>) = {} /\ << >> \in Seq(Messages) /\ << >> # None
  BY StreamsAssumption, EmptySequence

\* Reading takes the first event.
LEMMA ReadHead ==
  ASSUME GoodStreams, NEW s \in Streams, Unread(s)
  PROVE  /\ Tail(streams[s]) # None /\ Next1(s) \in arrived
         /\ ToSet(streams[s]) = ToSet(Tail(streams[s])) \cup {Next1(s)}
  <1>1. /\ streams[s] \in Seq(Messages) /\ streams[s] # << >>
        /\ ToSet(streams[s]) \subseteq arrived
    BY DEF GoodStreams, GoodStream, Unread
  <1> QED
    BY <1>1, StreamsAssumption, TailOfSequence DEF Next1

\* What a broadcast does to one stream.
LEMMA BroadcastStream ==
  ASSUME GoodStreams, NEW e \in Messages, NEW s \in Streams
  PROVE  LET q == Broadcast(streams, e)[s]
         IN  /\ streams[s] = None <=> q = None
             /\ q # None => /\ GoodStream(q, Messages, arrived \cup {e})
                            /\ e \in ToSet(q)
                            /\ \A x \in ToSet(streams[s]) :
                                 x \in ToSet(q) \/ <<s, x>> \in PushedOut(streams)
  <1> DEFINE p == streams[s]
             q == Broadcast(streams, e)[s]
  <1>1. s \in DOMAIN streams /\ GoodStream(p, Messages, arrived)
    BY DEF GoodStreams
  <1>2. s \in FullStreams(streams) <=> p # None /\ Len(p) = Capacity
    BY <1>1 DEF FullStreams
  <1>3. CASE p = None
    <2>1. q = None
      BY <1>1, <1>2, <1>3 DEF Broadcast
    <2> QED
      BY <1>3, <2>1
  <1>4. CASE p # None
    <2>1. p \in Seq(Messages) /\ Len(p) <= Capacity /\ ToSet(p) \subseteq arrived
      BY <1>1, <1>4 DEF GoodStream
    <2>2. q = Push(p, e, Capacity)
      BY <1>1, <1>2, <1>4 DEF Broadcast, Push
    <2>3. Len(p) = Capacity => <<s, Head(p)>> \in PushedOut(streams)
      BY <1>2, <1>4 DEF PushedOut
    <2> HIDE DEF p, q
    <2>4. /\ q \in Seq(Messages) /\ Len(q) <= Capacity
          /\ e \in ToSet(q) /\ ToSet(q) \subseteq ToSet(p) \cup {e}
          /\ \A x \in ToSet(p) : x \in ToSet(q) \/ (Len(p) = Capacity /\ x = Head(p))
      BY <2>1, <2>2, CapacityAssumption, PushToSequence
    <2>5. GoodStream(q, Messages, arrived \cup {e}) /\ q # None
      BY <2>1, <2>4, StreamsAssumption DEF GoodStream
    <2> QED
      BY <1>4, <2>3, <2>4, <2>5 DEF p, q
  <1> QED
    BY <1>3, <1>4

\* Closing, taking and reading a stream keep it good.
LEMMA GoodMoves ==
  ASSUME NEW q, NEW seen, GoodStream(q, Messages, seen)
  PROVE  /\ GoodStream(None, Messages, seen) /\ GoodStream(<< >>, Messages, seen)
         /\ q # None /\ q # << >> => GoodStream(Tail(q), Messages, seen)
  <1>1. GoodStream(None, Messages, seen)
    BY DEF GoodStream
  <1>2. GoodStream(<< >>, Messages, seen)
    <2>1. Len(<< >>) <= Capacity
      BY EmptySequence, CapacityAssumption
    <2> QED
      BY <2>1, EmptySequence DEF GoodStream
  <1>3. ASSUME q # None, q # << >> PROVE GoodStream(Tail(q), Messages, seen)
    <2>1. q \in Seq(Messages) /\ Len(q) <= Capacity /\ ToSet(q) \subseteq seen
      BY <1>3 DEF GoodStream
    <2>2. /\ Tail(q) \in Seq(Messages) /\ Len(q) \in Nat /\ Len(Tail(q)) = Len(q) - 1
          /\ ToSet(Tail(q)) \subseteq ToSet(q)
      BY <1>3, <2>1, TailOfSequence
    <2>3. Len(Tail(q)) <= Capacity
      BY <2>1, <2>2, CapacityAssumption
    <2> QED
      BY <2>1, <2>2, <2>3 DEF GoodStream
  <1> QED
    BY <1>1, <1>2, <1>3

\* Closing, taking and reading a stream keeps them all good.
LEMMA MovedStream ==
  ASSUME GoodStreams, arrived' = arrived, NEW t \in Streams, NEW q,
         streams' = [streams EXCEPT ![t] = q],
         q \in {None, << >>} \/ (Unread(t) /\ q = Tail(streams[t]))
  PROVE  /\ GoodStreams' /\ streams'[t] = q
         /\ \A s \in Streams : s # t => streams'[s] = streams[s]
  <1>1. /\ streams' = [s \in Streams |-> streams'[s]] /\ streams'[t] = q
        /\ \A s \in Streams : s # t => streams'[s] = streams[s]
    BY DEF GoodStreams
  <1>2. GoodStream(streams[t], Messages, arrived)
    BY DEF GoodStreams
  <1>3. GoodStream(q, Messages, arrived)
    BY <1>2, GoodMoves DEF Unread
  <1> QED
    BY <1>1, <1>3 DEF GoodStreams

-----------------------------------------------------------------------------
(* What a step has to keep.                                                *)

\* What became of a notification that was read.
Dealt(e) ==
  \E r \in read :
    /\ r.event = e
    /\ \/ r.fate = "returned"
       \/ r.fate = "discarded" /\ r.for \in Types \ {e.type}
       \/ r.fate \in {"skipped", "gave up"} /\ e.body # "ok"

\* A step that leaves the notifications alone keeps what holds of them.
LEMMA NoticeUntouched ==
  ASSUME NoticeOK, streams'[Heard] = streams[Heard],
         open \subseteq open',
         UNCHANGED <<scene, since, stage, reader, dropped, overrun, due, read>>
  PROVE  NoticeOK'
  BY DEF HeardFilter, NoticeOK, NotificationNotMissed, IsNotification

\* A step that leaves the requests alone keeps what holds of them.
LEMMA CommandsUntouched ==
  ASSUME \A c \in Commands : CommandOK(c),
         UNCHANGED <<pc, result, requests, verdict>>,
         \A c \in Commands : streams'[c] = streams[c]
  PROVE  \A c \in Commands : CommandOK(c)'
  BY DEF CommandOK, InFlight

-----------------------------------------------------------------------------
(* The wallet.                                                             *)

\* Whatever is sent, nothing that was there is lost, and a notification is
\* there for its reader.
LEMMA TransmitStep ==
  ASSUME IInv, NEW e, Sendable(e), Transmit(e), e.at = clock + scene.skew,
         UNCHANGED <<scene, clock, since, open, pc, result, requests, stage, reader, dropped,
                     verdict, wanted, read>>,
         noise' \in 0..scene.noise, happened' \subseteq Types
  PROVE  IInv'
  <1>0. Typed /\ GoodStreams /\ NoticeOK /\ Heard \in Streams /\ DOMAIN streams = Streams
    BY StreamNames DEF IInv, GoodStreams
  <1>1. e \in Messages /\ sent' = sent \cup {e}
    BY DEF Sendable, Transmit
  <1>2. \A x \in sent' : Sendable(x)'
    BY <1>1 DEF IInv, Sendable
  <1>3. due' = IF stage = "taken" /\ ~ dropped /\ IsNotification(e) THEN due \cup {e} ELSE due
    BY DEF Transmit
  <1>4. stage = "taken" /\ ~ dropped /\ IsNotification(e) =>
          Passes(open, e) \/ (scene.skew < 0 /\ e.at < since)
    <2> SUFFICES ASSUME stage = "taken", ~ dropped, IsNotification(e),
                        ~ (scene.skew < 0 /\ e.at < since)
                 PROVE  Passes(open, e)
      OBVIOUS
    <2>1. HeardFilter \in open
      BY <1>0 DEF NoticeOK
    <2>2. /\ e.at \in Nat /\ e.kind = "notification"
          /\ clock \in Nat /\ since \in Nat /\ since <= clock /\ scene.skew \in Int
      BY <1>0, <1>1, ScenesAssumption DEF Messages, IsNotification, Typed
    <2>4. e.at >= since
      BY <2>2
    <2>3. Matches(HeardFilter, e)
      BY <2>2, <2>4 DEF Matches, HeardFilter, Filter
    <2> QED
      BY <2>1, <2>3 DEF Passes
  <1>5. CASE ~ Passes(open, e)
    <2>1. UNCHANGED <<arrived, streams, overrun>>
      BY <1>5 DEF Transmit
    <2>2. Typed' /\ GoodStreams'
      BY <1>0, <1>1, <1>3, <2>1 DEF Typed, GoodStreams
    <2>3. NoticeOK'
      <3>1. \A x \in due' : x \in due \/ (x = e /\ IsNotification(e)
                                           /\ scene.skew < 0 /\ e.at < since)
        BY <1>3, <1>4, <1>5
      <3>2. due' # {} => stage = "taken"
        BY <1>0, <1>3 DEF NoticeOK
      <3> QED
        BY <1>0, <2>1, <3>1, <3>2 DEF HeardFilter, NoticeOK, NotificationNotMissed, IsNotification
    <2>4. \A c \in Commands : CommandOK(c)'
      BY <2>1, CommandsUntouched DEF IInv
    <2> QED
      BY <1>2, <2>2, <2>3, <2>4 DEF IInv
  <1>6. CASE Passes(open, e)
    <2>1. /\ arrived' = arrived \cup {e} /\ streams' = Broadcast(streams, e)
          /\ overrun' = overrun \cup PushedOut(streams)
      BY <1>6 DEF Transmit
    <2>2. \A s \in Streams : streams'[s] # None <=> streams[s] # None
      BY <1>0, <1>1, <2>1, BroadcastStream
    <2>3. Typed'
      BY <1>0, <1>1, <1>3, <2>1 DEF Typed
    <2>4. GoodStreams'
      <3>1. streams' = [s \in Streams |-> streams'[s]]
        BY <1>0, <2>1 DEF Broadcast
      <3>2. ASSUME NEW s \in Streams PROVE GoodStream(streams'[s], Messages, arrived')
        <4>1. CASE streams'[s] = None
          BY <4>1 DEF GoodStream
        <4>2. CASE streams'[s] # None
          BY <1>0, <1>1, <2>1, <4>2, BroadcastStream
        <4> QED
          BY <4>1, <4>2
      <3> QED
        BY <3>1, <3>2 DEF GoodStreams
    <2>5. NoticeOK'
      <3>1. /\ (streams'[Heard] # None) <=> (stage' = "taken")
            /\ stage' # "taken" => due' = {}
            /\ \A x \in due' : IsNotification(x)'
        BY <1>0, <1>3, <2>2 DEF NoticeOK, IsNotification
      <3>2. ASSUME NEW x \in due'
            PROVE  \/ scene.skew < 0 /\ x.at < since
                   \/ x \in ToSet(streams'[Heard])
                   \/ <<Heard, x>> \in overrun' \/ Dealt(x)
        <4>1. stage = "taken" /\ streams[Heard] # None
          BY <1>0, <1>3, <3>2 DEF NoticeOK
        <4>2. /\ e \in ToSet(streams'[Heard])
              /\ \A y \in ToSet(streams[Heard]) :
                   y \in ToSet(streams'[Heard]) \/ <<Heard, y>> \in PushedOut(streams)
          BY <1>0, <1>1, <2>1, <4>1, BroadcastStream
        <4>3. CASE x = e
          BY <4>2, <4>3
        <4>4. CASE x \in due
          BY <1>0, <2>1, <4>2, <4>4 DEF NoticeOK, NotificationNotMissed, Dealt
        <4> QED
          BY <1>3, <3>2, <4>3, <4>4
      <3>3. NotificationNotMissed'
        BY <3>2 DEF NotificationNotMissed, Dealt
      <3> QED
        BY <1>0, <3>1, <3>3 DEF HeardFilter, NoticeOK
    <2>6. \A c \in Commands : CommandOK(c)'
      BY <2>2, StreamNames DEF IInv, CommandOK, InFlight
    <2> QED
      BY <1>2, <2>3, <2>4, <2>5, <2>6 DEF IInv
  <1> QED
    BY <1>5, <1>6

\* The wallet's clock does not go below zero.
LEMMA EventTime == Typed => clock + scene.skew \in Nat
  <1> SUFFICES ASSUME Typed PROVE clock + scene.skew \in Nat
    OBVIOUS
  <1>1. clock \in Int /\ 1 <= clock /\ scene.skew \in Int /\ 1 + scene.skew \in Nat
    BY ScenesAssumption DEF Typed
  <1> QED
    BY <1>1

\* All the wallet does keeps the invariant.
LEMMA WalletStep ==
  ASSUME IInv, WalletActs
  PROVE  IInv'
  <1>0. /\ Typed /\ scene \in Scenes /\ noise \in 0..scene.noise /\ happened \subseteq Types
        /\ scene.spoilt \subseteq Spoilt /\ scene.noise \in Nat /\ clock + scene.skew \in Nat
    BY ScenesAssumption, EventTime DEF IInv, Typed
  <1>1. ASSUME NEW c \in Commands, NEW v \in {"ok", "refused"}, Decide(c, v)
        PROVE  IInv'
    <2>1. /\ c \in requests /\ verdict[c] = None
          /\ verdict' = [verdict EXCEPT ![c] = v]
          /\ UNCHANGED <<scene, clock, since, open, streams, pc, result, requests, stage,
                         reader, dropped, sent, wanted, noise, happened, arrived, overrun, due,
                         read>>
      BY <1>1 DEF Decide, time, calls, history
    <2>2. /\ verdict'[c] = v /\ v # None
          /\ \A d \in Commands : d # c => verdict'[d] = verdict[d]
          /\ verdict' \in [Commands -> {None, "ok", "refused"}]
      BY <1>0, <2>1, CommandsAssumption DEF Typed
    <2>3. Typed' /\ GoodStreams'
      BY <2>1, <2>2 DEF IInv, Typed, GoodStreams
    <2>4. NoticeOK'
      BY <2>1, NoticeUntouched DEF IInv
    <2>5. \A e \in sent' : Sendable(e)'
      BY <2>1, <2>2 DEF IInv, Sendable
    <2>6. \A d \in Commands : CommandOK(d)'
      BY <2>1, <2>2 DEF IInv, CommandOK, InFlight
    <2> QED
      BY <2>3, <2>4, <2>5, <2>6 DEF IInv
  <1>2. ASSUME NEW c \in Commands, NEW body \in {"ok", "refused"} \cup Spoilt, Reply(c, body)
        PROVE  IInv'
    <2> DEFINE e == Event("response", Wallet, c, None, body)
    <2>1. /\ verdict[c] # None /\ body \in {verdict[c]} \cup scene.spoilt
          /\ Transmit(e) /\ noise' = noise /\ happened' = happened
          /\ UNCHANGED <<scene, clock, since, open, pc, result, requests, stage, reader,
                         dropped, verdict, wanted, read>>
      BY <1>2 DEF Reply, time, calls
    <2>2. e \in Messages /\ e.re = c /\ e.body = body /\ e.at = clock + scene.skew
      BY <1>0 DEF Event, Messages
    <2> HIDE DEF e
    <2>3. Sendable(e)
      BY <1>0, <2>1, <2>2 DEF Sendable, Spoilt
    <2> QED
      BY <1>0, <2>1, <2>2, <2>3, TransmitStep
  <1>3. CASE TakeNotice
    <2>1. /\ wanted' = TRUE
          /\ UNCHANGED <<scene, clock, since, open, streams, pc, result, requests, stage,
                         reader, dropped, verdict, sent, noise, happened, arrived, overrun,
                         due, read>>
      BY <1>3 DEF TakeNotice, time, calls, history
    <2>2. Typed' /\ GoodStreams'
      BY <1>0, <2>1 DEF IInv, Typed, GoodStreams
    <2>3. \A e \in sent' : Sendable(e)'
      BY <2>1 DEF IInv, Sendable
    <2> QED
      BY <2>1, <2>2, <2>3, NoticeUntouched, CommandsUntouched DEF IInv
  <1>4. ASSUME NEW type \in Types, NEW body \in {"ok"} \cup Spoilt, Happen(type, body)
        PROVE  IInv'
    <2> DEFINE e == Event("notification", Wallet, None, type, body)
    <2>1. /\ happened' = happened \cup {type} /\ noise' = noise
          /\ UNCHANGED <<scene, clock, since, open, pc, result, requests, stage, reader,
                         dropped, verdict, wanted, read>>
      BY <1>4 DEF Happen, time, calls
    <2>2. happened' \subseteq Types
      BY <1>0, <2>1
    <2>3. CASE wanted
      <3>1. Transmit(e)
        BY <1>4, <2>3 DEF Happen
      <3>2. e \in Messages /\ e.re = None /\ e.at = clock + scene.skew
        BY <1>0 DEF Event, Messages
      <3> HIDE DEF e
      <3>3. Sendable(e)
        BY <3>2, CommandsAssumption DEF Sendable
      <3> QED
        BY <1>0, <2>1, <2>2, <3>1, <3>2, <3>3, TransmitStep
    <2>4. CASE ~ wanted
      <3>1. UNCHANGED <<sent, streams, arrived, overrun, due>>
        BY <1>4, <2>4 DEF Happen, time, history
      <3>2. Typed' /\ GoodStreams'
        BY <1>0, <2>1, <2>2, <3>1 DEF IInv, Typed, GoodStreams
      <3>3. \A x \in sent' : Sendable(x)'
        BY <2>1, <3>1 DEF IInv, Sendable
      <3> QED
        BY <2>1, <3>1, <3>2, <3>3, NoticeUntouched, CommandsUntouched DEF IInv
    <2> QED
      BY <2>3, <2>4
  <1>5. ASSUME NEW kind \in {"response", "notification"}, Noise(kind)
        PROVE  IInv'
    <2> DEFINE e == Event(kind, Other, None, None, "ok")
    <2>1. /\ noise < scene.noise /\ noise' = noise + 1 /\ Transmit(e) /\ happened' = happened
          /\ UNCHANGED <<scene, clock, since, open, pc, result, requests, stage, reader,
                         dropped, verdict, wanted, read>>
      BY <1>5 DEF Noise, time, calls
    <2>2. e \in Messages /\ e.re = None /\ e.at = clock + scene.skew
      BY <1>0 DEF Event, Messages
    <2> HIDE DEF e
    <2>3. Sendable(e)
      BY <2>2, CommandsAssumption DEF Sendable
    <2>4. noise' \in 0..scene.noise
      BY <1>0, <2>1
    <2> QED
      BY <1>0, <2>1, <2>2, <2>3, <2>4, TransmitStep
  <1> QED
    BY <1>1, <1>2, <1>3, <1>4, <1>5 DEF WalletActs

-----------------------------------------------------------------------------
(* Requests.                                                               *)

\* What a step of request c leaves alone.
Frame(c) ==
  /\ open \subseteq open'
  /\ \A s \in Streams : s # c => streams'[s] = streams[s]
  /\ \A d \in Commands : d # c => /\ pc'[d] = pc[d] /\ result'[d] = result[d]
                                  /\ d \in requests' <=> d \in requests
  /\ UNCHANGED <<scene, clock, since, stage, reader, dropped, verdict, sent, wanted, noise,
                 happened, arrived, overrun, due, read>>

\* A step of one request disturbs no other request and no notification.
LEMMA FrameKeeps ==
  ASSUME IInv, NEW c \in Commands, Frame(c), GoodStreams',
         pc' \in [Commands -> Places], result' \in [Commands -> Results],
         requests' \subseteq Commands, CommandOK(c)'
  PROVE  IInv'
  <1>1. Typed'
    BY DEF IInv, Typed, Frame
  <1>2. NoticeOK'
    BY NoticeUntouched, StreamNames DEF IInv, Frame
  <1>3. \A e \in sent' : Sendable(e)'
    BY DEF IInv, Frame, Sendable
  <1>4. ASSUME NEW d \in Commands, d # c PROVE CommandOK(d)'
    BY <1>4, StreamNames DEF IInv, Frame, CommandOK, InFlight
  <1> QED
    BY <1>1, <1>2, <1>3, <1>4 DEF IInv

\* A request that ends gives its stream back.
LEMMA EndKeeps ==
  ASSUME IInv, NEW c \in Commands, NEW r \in Results, End(c, r),
         UNCHANGED <<scene, time, open, requests, stage, reader, dropped, wallet, history, read>>
  PROVE  IInv'
  <1>0. /\ pc \in [Commands -> Places] /\ result \in [Commands -> Results]
        /\ requests \subseteq Commands /\ c \in Streams /\ CommandOK(c) /\ GoodStreams
    BY StreamNames DEF IInv, Typed
  <1>1. /\ pc' = [pc EXCEPT ![c] = "over"] /\ result' = [result EXCEPT ![c] = r]
        /\ streams' = [streams EXCEPT ![c] = None]
        /\ UNCHANGED <<scene, clock, since, open, requests, stage, reader, dropped, verdict,
                       sent, wanted, noise, happened, arrived, overrun, due, read>>
    BY DEF End, Closed, time, wallet, history
  <1>2. /\ GoodStreams' /\ streams'[c] = None
        /\ \A s \in Streams : s # c => streams'[s] = streams[s]
    BY <1>0, <1>1, MovedStream
  <1>3. Frame(c)
    BY <1>0, <1>1, <1>2 DEF Frame
  <1>4. CommandOK(c)'
    BY <1>0, <1>1, <1>2 DEF CommandOK, InFlight
  <1>5. pc' \in [Commands -> Places] /\ result' \in [Commands -> Results]
    BY <1>0, <1>1 DEF Places
  <1> QED
    BY <1>0, <1>1, <1>2, <1>3, <1>4, <1>5, FrameKeeps

\* All a request does keeps the invariant.
LEMMA CallStep ==
  ASSUME IInv, NEW c \in Commands, Call(c)
  PROVE  IInv'
  <1>0. /\ pc \in [Commands -> Places] /\ result \in [Commands -> Results]
        /\ requests \subseteq Commands /\ c \in Streams /\ CommandOK(c) /\ GoodStreams
        /\ DOMAIN streams = Streams
    BY StreamNames DEF IInv, Typed, GoodStreams
  <1>1. CASE SendSubscribe(c)
    <2>1. /\ pc[c] = "idle" /\ pc' = [pc EXCEPT ![c] = "prepared"] /\ open \subseteq open'
          /\ UNCHANGED <<scene, clock, since, streams, result, requests, stage, reader,
                         dropped, verdict, sent, wanted, noise, happened, arrived, overrun,
                         due, read>>
      BY <1>1 DEF SendSubscribe, Goto, time, wallet, history
    <2>2. pc' \in [Commands -> Places]
      BY <1>0, <2>1 DEF Places
    <2>3. Frame(c) /\ GoodStreams'
      BY <1>0, <2>1 DEF Frame, GoodStreams
    <2>4. CommandOK(c)'
      BY <1>0, <2>1 DEF CommandOK, InFlight
    <2> QED
      BY <1>0, <2>1, <2>2, <2>3, <2>4, FrameKeeps
  <1>2. CASE SendPublish(c)
    <2>1. /\ pc[c] = "prepared" /\ pc' = [pc EXCEPT ![c] = "published"]
          /\ streams' = [streams EXCEPT ![c] = << >>] /\ requests' = requests \cup {c}
          /\ UNCHANGED <<scene, clock, since, open, result, stage, reader, dropped, verdict, sent,
                         wanted, noise, happened, arrived, overrun, due, read>>
      BY <1>2 DEF SendPublish, Goto, time, wallet, history
    <2>2. pc' \in [Commands -> Places] /\ requests' \subseteq Commands
      BY <1>0, <2>1 DEF Places
    <2>3. /\ GoodStreams' /\ streams'[c] = << >>
          /\ \A s \in Streams : s # c => streams'[s] = streams[s]
      BY <1>0, <2>1, MovedStream
    <2>4. Frame(c)
      BY <1>0, <2>1, <2>3 DEF Frame
    <2>5. CommandOK(c)'
      BY <1>0, <2>1, <2>3, ToSetEmpty DEF CommandOK, InFlight
    <2> QED
      BY <1>0, <2>1, <2>2, <2>3, <2>4, <2>5, FrameKeeps
  <1>3. CASE SendReturns(c)
    <2>1. /\ pc[c] = "published" /\ pc' = [pc EXCEPT ![c] = "awaiting"]
          /\ UNCHANGED <<scene, clock, since, open, streams, result, requests, stage, reader,
                         dropped, verdict, sent, wanted, noise, happened, arrived, overrun,
                         due, read>>
      BY <1>3 DEF SendReturns, Goto, time, wallet, history
    <2>2. pc' \in [Commands -> Places]
      BY <1>0, <2>1 DEF Places
    <2>3. Frame(c) /\ GoodStreams'
      BY <1>0, <2>1 DEF Frame, GoodStreams
    <2>4. CommandOK(c)'
      BY <1>0, <2>1 DEF CommandOK, InFlight
    <2> QED
      BY <1>0, <2>1, <2>2, <2>3, <2>4, FrameKeeps
  <1>4. CASE SkipResponse(c)
    <2>1. /\ pc[c] = "awaiting" /\ Unread(c)
          /\ streams' = [streams EXCEPT ![c] = Tail(streams[c])]
          /\ UNCHANGED <<scene, clock, since, open, pc, result, requests, stage, reader,
                         dropped, verdict, sent, wanted, noise, happened, arrived, overrun,
                         due, read>>
      BY <1>0, <1>4 DEF SkipResponse, Rest, time, calls, wallet, history
    <2>2. /\ GoodStreams' /\ streams'[c] = Tail(streams[c])
          /\ \A s \in Streams : s # c => streams'[s] = streams[s]
      BY <1>0, <2>1, MovedStream
    <2>3. Tail(streams[c]) # None /\ streams[c] # None
      BY <1>0, <2>1, ReadHead DEF Unread
    <2>4. Frame(c)
      BY <1>0, <2>1, <2>2 DEF Frame
    <2>5. CommandOK(c)'
      BY <1>0, <2>1, <2>2, <2>3 DEF CommandOK, InFlight
    <2> QED
      BY <1>0, <2>1, <2>2, <2>4, <2>5, FrameKeeps
  <1>5. CASE Abandon(c)
    <2>1. "failed" \in Results
      BY DEF Results
    <2> QED
      BY <1>5, <2>1, EndKeeps DEF Abandon
  <1>6. CASE Answered(c)
    <2> DEFINE body == Next1(c).body
               r == IF body \in {"ok", "refused"} THEN body ELSE "failed"
    <2>1. r \in Results
      BY DEF Results
    <2>2. /\ End(c, r)
          /\ UNCHANGED <<scene, time, open, requests, stage, reader, dropped, wallet, history,
                         read>>
      BY <1>6 DEF Answered
    <2> HIDE DEF r
    <2> QED
      BY <2>1, <2>2, EndKeeps
  <1>7. CASE TimeOut(c)
    <2>1. "timed_out" \in Results
      BY DEF Results
    <2> QED
      BY <1>7, <2>1, EndKeeps DEF TimeOut
  <1> QED
    BY <1>1, <1>2, <1>3, <1>4, <1>5, <1>6, <1>7 DEF Call

-----------------------------------------------------------------------------
(* Notifications.                                                          *)

\* What every step of notifications(), next and wait_for leaves alone.
Aside ==
  UNCHANGED <<scene, clock, pc, result, requests, dropped, verdict, sent, wanted, noise, happened,
              arrived, overrun, due>>

\* Such a step disturbs no request.
LEMMA AsideKeeps ==
  ASSUME IInv, Aside, GoodStreams', NoticeOK',
         stage' \in {"idle", "asked", "filtering", "taken", "failed"},
         reader' \in {None, AnyType} \cup Types, since' \in 0..clock,
         \A s \in Streams : s # Heard => streams'[s] = streams[s]
  PROVE  IInv'
  <1>1. Typed'
    BY DEF IInv, Typed, Aside
  <1>2. \A e \in sent' : Sendable(e)'
    BY DEF IInv, Aside, Sendable
  <1>3. \A c \in Commands : CommandOK(c)'
    BY CommandsUntouched, StreamNames DEF IInv, Aside
  <1> QED
    BY <1>1, <1>2, <1>3 DEF IInv

\* Reading one event: if it was due, what became of it is on record.
LEMMA ReadKeeps ==
  ASSUME IInv, reader # None, Unread(Heard), streams' = Rest(Heard),
         NEW fate, Took(Next1(Heard), fate),
         Next1(Heard) \in due =>
           \/ fate = "returned"
           \/ fate = "discarded" /\ reader \in Types \ {Next1(Heard).type}
           \/ fate \in {"skipped", "gave up"} /\ Next1(Heard).body # "ok",
         Aside, UNCHANGED <<open, stage, since>>, reader' \in {None, reader}
  PROVE  IInv'
  <1> DEFINE e == Next1(Heard)
             r == [event |-> e, fate |-> fate, for |-> reader]
  <1>0. /\ GoodStreams /\ NoticeOK /\ Heard \in Streams /\ DOMAIN streams = Streams
        /\ stage \in {"idle", "asked", "filtering", "taken", "failed"}
        /\ reader \in {None, AnyType} \cup Types
    BY StreamNames DEF IInv, Typed, GoodStreams
  <1>1. streams' = [streams EXCEPT ![Heard] = Tail(streams[Heard])] /\ arrived' = arrived
    BY <1>0 DEF Rest, Aside
  <1>2. /\ GoodStreams' /\ streams'[Heard] = Tail(streams[Heard])
        /\ \A s \in Streams : s # Heard => streams'[s] = streams[s]
    BY <1>0, <1>1, MovedStream
  <1>3. /\ streams'[Heard] # None
        /\ ToSet(streams[Heard]) = ToSet(streams'[Heard]) \cup {e}
    BY <1>0, <1>2, ReadHead
  <1>4. read' = read \cup {r}
    BY DEF Took
  <1>5. stage = "taken"
    BY <1>0 DEF NoticeOK
  <1>6. ASSUME NEW x \in due
        PROVE  \/ scene.skew < 0 /\ x.at < since
               \/ x \in ToSet(streams'[Heard])
               \/ <<Heard, x>> \in overrun \/ Dealt(x)'
    <2>1. \/ scene.skew < 0 /\ x.at < since
          \/ x \in ToSet(streams[Heard])
          \/ <<Heard, x>> \in overrun \/ Dealt(x)
      BY <1>0, <1>6 DEF NoticeOK, NotificationNotMissed, Dealt
    <2>2. Dealt(x) => Dealt(x)'
      BY <1>4 DEF Dealt
    <2>3. x = e => Dealt(x)'
      <3> SUFFICES ASSUME x = e PROVE Dealt(x)'
        OBVIOUS
      <3>1. r \in read' /\ r.event = e /\ r.fate = fate /\ r.for = reader
        BY <1>4
      <3>2. \/ fate = "returned"
            \/ fate = "discarded" /\ reader \in Types \ {e.type}
            \/ fate \in {"skipped", "gave up"} /\ e.body # "ok"
        BY <1>6
      <3> HIDE DEF e, r
      <3> QED
        BY <3>1, <3>2 DEF Dealt
    <2> QED
      BY <1>3, <2>1, <2>2, <2>3
  <1>7. NotificationNotMissed'
    BY <1>6 DEF NotificationNotMissed, Dealt, Aside
  <1>8. NoticeOK'
    BY <1>0, <1>3, <1>5, <1>7 DEF HeardFilter, NoticeOK, Aside, IsNotification
  <1> QED
    BY <1>0, <1>2, <1>8, AsideKeeps DEF IInv, Typed

\* Taking notifications and reading them keeps the invariant.
LEMMA NotificationsStep ==
  ASSUME IInv, Notifications
  PROVE  IInv'
  <1>0. /\ GoodStreams /\ NoticeOK /\ Heard \in Streams /\ DOMAIN streams = Streams
        /\ stage \in {"idle", "asked", "filtering", "taken", "failed"}
        /\ reader \in {None, AnyType} \cup Types
        /\ (\A e \in due : IsNotification(e)) /\ since \in 0..clock /\ clock \in 0..clock
    BY ScenesAssumption, StreamNames DEF IInv, Typed, GoodStreams, NoticeOK
  <1>1. CASE Ask \/ OpenFilter \/ AskFails
    <2>1. /\ Aside /\ UNCHANGED <<streams, reader, read>> /\ open \subseteq open'
          /\ stage \in {"idle", "asked", "filtering"}
          /\ stage' \in {"asked", "filtering", "failed"}
          /\ stage' = "asked" => ~ dropped
          /\ stage' = "filtering" => stage = "asked" /\ HeardFilter' \in open'
          /\ since' \in {since, clock}
      BY <1>1 DEF Ask, OpenFilter, AskFails, Aside, time, calls, wallet, history, HeardFilter
    <2>2. GoodStreams'
      BY <1>0, <2>1 DEF GoodStreams, Aside
    <2>3. NoticeOK'
      BY <1>0, <2>1 DEF NoticeOK, NotificationNotMissed, Aside, IsNotification
    <2> QED
      BY <1>0, <2>1, <2>2, <2>3, AsideKeeps
  <1>2. CASE TakeStream
    <2>1. /\ Aside /\ UNCHANGED <<since, open, reader, read>>
          /\ stage = "filtering" /\ stage' = "taken"
          /\ streams' = [streams EXCEPT ![Heard] = << >>] /\ arrived' = arrived
      BY <1>2 DEF TakeStream, Aside, time, calls, wallet, history
    <2>2. /\ GoodStreams' /\ streams'[Heard] = << >>
          /\ \A s \in Streams : s # Heard => streams'[s] = streams[s]
      BY <1>0, <2>1, MovedStream
    <2>3. due' = {}
      BY <1>0, <2>1 DEF NoticeOK, Aside
    <2>4. NoticeOK'
      BY <1>0, <2>1, <2>2, <2>3, ToSetEmpty DEF HeardFilter, NoticeOK, NotificationNotMissed, Aside
    <2> QED
      BY <1>0, <2>1, <2>2, <2>4, AsideKeeps
  <1>3. ASSUME NEW want \in Types \cup {AnyType}, Read(want) \/ ReadStops \/ StreamEnded
        PROVE  IInv'
    <2>1. /\ Aside /\ UNCHANGED <<since, open, streams, stage, read>> /\ stage = "taken"
          /\ reader' \in {None, want}
      BY <1>0, <1>3 DEF Read, ReadStops, StreamEnded, Aside, time, calls, wallet, history, NoticeOK
    <2>2. GoodStreams'
      BY <1>0, <2>1 DEF GoodStreams, Aside
    <2>3. NoticeOK'
      BY <1>0, <2>1 DEF HeardFilter, NoticeOK, NotificationNotMissed, Aside, IsNotification
    <2> QED
      BY <1>0, <2>1, <2>2, <2>3, AsideKeeps
  <1>4. CASE ReadSkips
    BY <1>0, <1>4, ReadKeeps DEF ReadSkips, Aside, time, calls, wallet, history
  <1>5. CASE ReadReturns
    BY <1>0, <1>5, ReadKeeps DEF ReadReturns, Aside, time, calls, wallet, history
  <1>6. CASE WaitDiscards
    BY <1>0, <1>6, ReadKeeps DEF WaitDiscards, Aside, time, calls, wallet, history
  <1>7. CASE ReadGivesUp
    BY <1>0, <1>7, ReadKeeps DEF ReadGivesUp, Aside, time, calls, wallet, history
  <1> QED
    BY <1>1, <1>2, <1>3, <1>4, <1>5, <1>6, <1>7 DEF Notifications

\* Dropping the WalletConnect closes its filters, and nothing is due any more
\* but what was.
LEMMA DropStep ==
  ASSUME IInv, DropWalletConnect
  PROVE  IInv'
  <1>1. /\ stage \in {"idle", "taken", "failed"} /\ dropped' = TRUE
        /\ UNCHANGED <<scene, clock, since, streams, pc, result, requests, stage, reader,
                       verdict, sent, wanted, noise, happened, arrived, overrun, due, read>>
    BY DEF DropWalletConnect, time, calls, wallet, history
  <1>2. Typed' /\ GoodStreams'
    BY <1>1 DEF IInv, Typed, GoodStreams
  <1>3. NoticeOK'
    BY <1>1 DEF IInv, NoticeOK, NotificationNotMissed, IsNotification
  <1>4. \A e \in sent' : Sendable(e)'
    BY <1>1 DEF IInv, Sendable
  <1>5. \A c \in Commands : CommandOK(c)'
    BY <1>1, CommandsUntouched DEF IInv
  <1> QED
    BY <1>2, <1>3, <1>4, <1>5 DEF IInv

\* The clock runs on its own.
LEMMA TickStep ==
  ASSUME IInv, Tick
  PROVE  IInv'
  <1>1. /\ clock < scene.seconds /\ clock' = clock + 1
        /\ UNCHANGED <<scene, since, open, streams, pc, result, requests, stage, reader,
                       dropped, verdict, sent, wanted, noise, happened, arrived, overrun,
                       due, read>>
    BY DEF Tick, calls, wallet, history
  <1>2. clock' \in 1..scene.seconds /\ since \in 0..clock'
    BY <1>1, ScenesAssumption DEF IInv, Typed
  <1>3. Typed' /\ GoodStreams'
    BY <1>1, <1>2 DEF IInv, Typed, GoodStreams
  <1>4. \A e \in sent' : Sendable(e)'
    BY <1>1 DEF IInv, Sendable
  <1> QED
    BY <1>1, <1>3, <1>4, NoticeUntouched, CommandsUntouched DEF IInv

-----------------------------------------------------------------------------
(* The theorems.                                                           *)

\* Before the first call nothing is out and no stream is there.
LEMMA InitIInv == Init => IInv
  <1> SUFFICES ASSUME Init PROVE IInv
    OBVIOUS
  <1>0. /\ scene \in Scenes /\ scene.noise \in Nat
        /\ None \notin {"ok", "refused", "timed_out", "failed"}
    BY ScenesAssumption, CommandsAssumption DEF Init
  <1>1. \A s \in Streams : streams[s] = None
    BY DEF Init
  <1>2. Typed
    <2>1. noise \in 0..scene.noise /\ clock \in 1..scene.seconds /\ since \in 0..clock
      BY <1>0, ScenesAssumption DEF Init
    <2>2. /\ pc \in [Commands -> Places] /\ result \in [Commands -> Results]
          /\ verdict \in [Commands -> {None, "ok", "refused"}]
      BY DEF Init, Places, Results
    <2> QED
      BY <1>0, <2>1, <2>2 DEF Init, Typed
  <1>3. GoodStreams
    BY <1>1 DEF Init, GoodStreams, GoodStream
  <1>4. NoticeOK
    BY <1>1, StreamNames DEF Init, NoticeOK, NotificationNotMissed
  <1>5. ASSUME NEW c \in Commands PROVE CommandOK(c)
    BY <1>1, StreamNames DEF Init, CommandOK, InFlight
  <1> QED
    BY <1>2, <1>3, <1>4, <1>5 DEF Init, IInv

\* Every step keeps the invariant.
LEMMA NextIInv == IInv /\ [Next]_vars => IInv'
  <1> SUFFICES ASSUME IInv, [Next]_vars PROVE IInv'
    OBVIOUS
  <1>1. CASE UNCHANGED vars
    <2>1. UNCHANGED <<scene, clock, since, open, streams, pc, result, requests, stage, reader,
                      dropped, verdict, sent, wanted, noise, happened, arrived, overrun, due,
                      read>>
      BY <1>1 DEF vars, time, calls, wallet, history
    <2>2. Typed' /\ GoodStreams'
      BY <2>1 DEF IInv, Typed, GoodStreams
    <2>3. \A e \in sent' : Sendable(e)'
      BY <2>1 DEF IInv, Sendable
    <2> QED
      BY <2>1, <2>2, <2>3, NoticeUntouched, CommandsUntouched DEF IInv
  <1> QED
    BY <1>1, CallStep, NotificationsStep, DropStep, WalletStep, TickStep DEF Next

\* The inductive invariant holds throughout.
LEMMA AlwaysIInv == Spec => []IInv
  BY InitIInv, NextIInv, PTL DEF Spec

\* The state keeps its types: the streams of the requests are there exactly
\* while the requests are out, no stream exceeds its capacity, and only events
\* that were sent arrive.
THEOREM TypeCorrect == Spec => []TypeOK
  <1>1. IInv => TypeOK
    <2> SUFFICES ASSUME IInv PROVE TypeOK
      OBVIOUS
    <2>1. \A s \in Streams : /\ streams[s] \in Seq(Messages) \cup {None}
                             /\ streams[s] # None => Len(streams[s]) <= Capacity
      BY DEF IInv, GoodStreams, GoodStream
    <2>2. streams \in [Streams -> Seq(Messages) \cup {None}]
      BY <2>1 DEF IInv, GoodStreams
    <2> QED
      BY <2>1, <2>2 DEF IInv, Typed, NoticeOK, CommandOK, TypeOK, Places, Results
  <1> QED
    BY <1>1, AlwaysIInv, PTL

\* Whatever is read, waited for, dropped or in flight at the same time, a
\* notification sent after notifications() has returned is in the stream, or
\* with its caller, or accounted for; or a wallet whose clock is behind stamped
\* it before the filter of notifications() starts.
THEOREM NotificationsNotMissed == Spec => []NotificationNotMissed
  <1>1. IInv => NotificationNotMissed
    BY DEF IInv, NoticeOK
  <1> QED
    BY <1>1, AlwaysIInv, PTL

\* The reply a caller finds in its stream carries the wallet's decision about
\* that caller's own request, or cannot be read.
LEMMA AnswerIsVerdict ==
  ASSUME IInv, NEW c \in Commands, Unread(c), RepliesTo(c, Next1(c)),
         Next1(c).body \in {"ok", "refused"}
  PROVE  verdict[c] = Next1(c).body
  <1>1. Next1(c) \in arrived /\ arrived \subseteq sent
    BY ReadHead, StreamNames DEF IInv, Typed
  <1>2. Sendable(Next1(c)) /\ Next1(c).re = c
    BY <1>1 DEF IInv, RepliesTo
  <1> QED
    BY <1>2 DEF Sendable

\* Every step of a request is one its promise allows.
LEMMA CallKeepsPromise ==
  ASSUME IInv, NEW c \in Commands, Call(c)
  PROVE  [Promise!Next]_(Promise!vars)
  <1> DEFINE learned == [d \in Commands |-> Learned(result[d])]
  <1>0. /\ result \in [Commands -> Results] /\ CommandOK(c) /\ verdict' = verdict
        /\ None \notin {"ok", "refused", "timed_out", "failed"}
    BY CommandsAssumption DEF IInv, Typed, Call, SendSubscribe, SendPublish, SendReturns,
                              Abandon, SkipResponse, Answered, TimeOut, wallet
  <1>1. Learned(None) = None
    BY <1>0 DEF Learned
  <1>2. CASE SendSubscribe(c) \/ SendReturns(c) \/ SkipResponse(c)
    <2>1. UNCHANGED <<requests, result>>
      BY <1>2 DEF SendSubscribe, SendReturns, SkipResponse, calls
    <2> QED
      BY <1>0, <2>1 DEF Promise!vars
  <1>3. CASE SendPublish(c)
    <2>1. /\ c \notin requests /\ result[c] = None
          /\ requests' = requests \cup {c} /\ result' = result
      BY <1>0, <1>3 DEF SendPublish, CommandOK
    <2>2. Promise!Issue(c)
      BY <1>0, <1>1, <2>1 DEF Promise!Issue
    <2> QED
      BY <2>2 DEF Promise!Next
  <1>4. ASSUME result[c] = None, requests' = requests, NEW r \in Results \ {None},
               result' = [result EXCEPT ![c] = r],
               r \in {"ok", "refused"} => verdict[c] = r
        PROVE  Promise!Next
    <2>1. [d \in Commands |-> Learned(result'[d])] = [learned EXCEPT ![c] = Learned(r)]
      BY <1>0, <1>4
    <2>2. learned[c] = None
      BY <1>1, <1>4
    <2>3. CASE r \in {"ok", "refused"}
      <3>1. Learned(r) = verdict[c] /\ verdict[c] # None
        BY <1>0, <1>4, <2>3 DEF Learned
      <3>2. Promise!Learn(c)
        BY <1>0, <1>4, <2>1, <2>2, <3>1 DEF Promise!Learn
      <3> QED
        BY <3>2 DEF Promise!Next
    <2>4. CASE r \in {"timed_out", "failed"}
      <3>1. Learned(r) = "unknown"
        BY <2>4 DEF Learned
      <3>2. Promise!GiveUp(c)
        BY <1>0, <1>4, <2>1, <2>2, <3>1 DEF Promise!GiveUp
      <3> QED
        BY <3>2 DEF Promise!Next
    <2> QED
      BY <1>4, <2>3, <2>4 DEF Results
  <1>5. CASE Abandon(c) \/ TimeOut(c)
    <2>1. PICK r \in {"timed_out", "failed"} : result' = [result EXCEPT ![c] = r]
      BY <1>5 DEF Abandon, TimeOut, End
    <2>2. requests' = requests /\ result[c] = None
      BY <1>0, <1>5 DEF Abandon, TimeOut, CommandOK
    <2> QED
      BY <1>0, <1>4, <2>1, <2>2 DEF Results
  <1>6. CASE Answered(c)
    <2>1. /\ requests' = requests /\ result[c] = None
          /\ Unread(c) /\ RepliesTo(c, Next1(c))
      BY <1>0, <1>6 DEF Answered, CommandOK
    <2> DEFINE body == Next1(c).body
               r == IF body \in {"ok", "refused"} THEN body ELSE "failed"
    <2>2. /\ result' = [result EXCEPT ![c] = r]
          /\ r \in {"ok", "refused", "failed"}
          /\ r \in {"ok", "refused"} => Next1(c).body = r
      BY <1>6 DEF Answered, End
    <2> HIDE DEF r
    <2>3. r \in {"ok", "refused"} => verdict[c] = r
      BY <2>1, <2>2, AnswerIsVerdict
    <2> QED
      BY <1>0, <1>4, <2>1, <2>2, <2>3 DEF Results
  <1> QED
    BY <1>2, <1>3, <1>5, <1>6 DEF Call

\* With any number of requests at once, late, lost and spoilt replies and
\* dropped futures, a caller is told what the wallet decided about its own
\* request, or that this is not known.
THEOREM RefinesCommand == Spec => ImplementsCommand
  <1>1. Init => Promise!Init
    BY CommandsAssumption DEF Init, Promise!Init, Learned
  <1>2. IInv /\ [Next]_vars => [Promise!Next]_(Promise!vars)
    <2> SUFFICES ASSUME IInv, [Next]_vars PROVE [Promise!Next]_(Promise!vars)
      OBVIOUS
    <2>1. ASSUME UNCHANGED <<requests, result, verdict>> PROVE UNCHANGED Promise!vars
      BY <2>1 DEF Promise!vars
    <2>2. ASSUME Notifications \/ DropWalletConnect \/ Tick
          PROVE  UNCHANGED <<requests, result, verdict>>
      BY <2>2 DEF Notifications, Ask, OpenFilter, TakeStream, AskFails, Read, ReadSkips,
                  ReadReturns, WaitDiscards, ReadGivesUp, ReadStops, StreamEnded,
                  DropWalletConnect, Tick, calls, wallet
    <2>3. ASSUME WalletActs PROVE [Promise!Next]_(Promise!vars)
      <3>1. ASSUME NEW c \in Commands, NEW v \in {"ok", "refused"}, Decide(c, v)
            PROVE  Promise!Next
        <4>1. Promise!Decide(c, v)
          BY <3>1 DEF Decide, Promise!Decide, calls
        <4> QED
          BY <4>1 DEF Promise!Next
      <3>2. ASSUME NEW c \in Commands, NEW body, Reply(c, body)
            PROVE  UNCHANGED <<requests, result, verdict>>
        BY <3>2 DEF Reply, calls
      <3>3. ASSUME NEW type, NEW body, Happen(type, body)
            PROVE  UNCHANGED <<requests, result, verdict>>
        BY <3>3 DEF Happen, calls
      <3>4. ASSUME NEW kind, Noise(kind) PROVE UNCHANGED <<requests, result, verdict>>
        BY <3>4 DEF Noise, calls
      <3>5. ASSUME TakeNotice PROVE UNCHANGED <<requests, result, verdict>>
        BY <3>5 DEF TakeNotice, calls
      <3> QED
        BY <2>1, <2>3, <3>1, <3>2, <3>3, <3>4, <3>5 DEF WalletActs
    <2>4. ASSUME UNCHANGED vars PROVE UNCHANGED <<requests, result, verdict>>
      BY <2>4 DEF vars, calls, wallet
    <2> QED
      BY <2>1, <2>2, <2>3, <2>4, CallKeepsPromise DEF Next
  <1> QED
    BY <1>1, <1>2, AlwaysIInv, PTL DEF Spec, ImplementsCommand, Promise!Spec
=============================================================================
