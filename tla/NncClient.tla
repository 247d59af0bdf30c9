----------------------------- MODULE NncClient -----------------------------
(***************************************************************************)
(* The NNC client (nnc/client): concurrent commands of one                 *)
(* NostrNodeControl, the handles of its asynchronous commands, and one     *)
(* notification listener, all reading the broadcast of one SDK client.     *)
(*                                                                         *)
(* A command is one call of a method, and stands for the request event it  *)
(* signs.  Plain commands run send() and call() or call_raw(); Async ones  *)
(* (open_channel, close_channel) run begin() and end in a Pending handle.  *)
(* Every await is a point where others run, where the relay layer or the   *)
(* signer may fail, and where the caller may drop the future.  Timeouts    *)
(* may fire at any time; the clock counts the seconds stamped on events,   *)
(* and the node's is Skew away from the client's.                          *)
(*                                                                         *)
(* The node is external here: it decides each request once, and replies,   *)
(* reports outcomes and announces when it likes, or never.                 *)
(***************************************************************************)
EXTENDS Sdk, SequencesExt, FiniteSets

CONSTANTS Plain, Async,  \* commands of the two sorts
          Node, Other,   \* the service addressed, another one
          Elsewhere,     \* a request that is not of this client
          Scenes,        \* who takes part, and what the world does to them
          MaxAnnounced

Commands == Plain \cup Async

ASSUME CommandsAssumption ==
  /\ Plain \cap Async = {} /\ Elsewhere \notin Commands
  /\ None \notin Commands \cup {"ok", "refused", "timed_out", "failed"}

\* cast: the commands called, and "listener" if there is one; skew: the node's
\* clock less the client's; seconds: how far the clock runs; spoilt: what the
\* node's events may carry instead of what they should; noise: how many events
\* there are that are not meant for this client.
Spoilt == {"garbled", "malformed"}

ASSUME ScenesAssumption ==
  \A s \in Scenes :
    /\ s.cast \subseteq Commands \cup {"listener"}
    /\ s.skew \in Int /\ 1 + s.skew \in Nat      \* a timestamp is no less than 0
    /\ s.seconds \in Nat \ {0} /\ s.spoilt \subseteq Spoilt /\ s.noise \in Nat

\* The events there are, as far as this client tells them apart.
Messages ==
  [kind : {"response", "notification"}, author : {Node, Other},
   re : Commands \cup {None, Elsewhere}, names_mine : BOOLEAN,
   body : {"ok", "refused"} \cup Spoilt, at : Nat]

ASSUME StreamsAssumption == None \notin Seq(Messages)

VARIABLES
  scene, clock,
  \* the client
  open,         \* relay filters
  streams,      \* unread events of each stream, or None
  pc, result,   \* of each command
  releasing,    \* commands whose handle has spawned its unsubscribe
  listener,     \* how far handle_notifications has come
  handled,      \* notifications its callback was given
  \* the node
  requests,     \* commands whose request has left the client
  verdict,      \* what the node decided
  asked,        \* whether the client has published a subscription
  sent,         \* events the node has sent
  noise,
  \* history
  arrived,      \* events the client received
  overrun,      \* events pushed out of a full stream, with the stream
  due           \* subscription deliveries received while listening

client == <<open, streams, pc, result, releasing>>
listening == <<listener, handled>>
node == <<requests, verdict, asked, sent, noise>>
history == <<arrived, overrun, due>>
vars == <<scene, clock, client, listening, node, history>>

Responses(c) == <<"responses", c>>
Outcomes(c) == <<"outcomes", c>>
Heard == <<"heard", None>>

Streams == {Responses(c) : c \in Commands} \cup {Outcomes(c) : c \in Async} \cup {Heard}

Init ==
  /\ clock = 1
  /\ open = {}
  /\ streams = [s \in Streams |-> None]
  /\ scene \in Scenes
  /\ pc = [c \in Commands |-> IF c \in scene.cast THEN "idle" ELSE "over"]
  /\ listener = IF "listener" \in scene.cast THEN "idle" ELSE "over"
  /\ result = [c \in Commands |-> None]
  /\ releasing = {}
  /\ handled = {}
  /\ requests = {} /\ verdict = [c \in Commands |-> None]
  /\ asked = FALSE /\ sent = {} /\ noise = 0
  /\ arrived = {} /\ overrun = {} /\ due = {}

Tick ==
  /\ clock < scene.seconds
  /\ clock' = clock + 1
  /\ UNCHANGED <<scene, client, listening, node, history>>

-----------------------------------------------------------------------------
(* A command, up to its request.                                           *)

Goto(c, place) == pc' = [pc EXCEPT ![c] = place]

End(c, r) ==
  /\ pc' = [pc EXCEPT ![c] = "over"]
  /\ result' = [result EXCEPT ![c] = r]

ResponseFilter(c) == Filter(c, "response", None, clock)
OutcomeFilter(c) == Filter(c, "notification", c, 0)

\* send: bootstrap and the response subscription, which nothing ever ends.
SendSubscribe(c) ==
  /\ c \in Plain /\ pc[c] = "idle"
  /\ open' = open \cup {ResponseFilter(c)}
  /\ Goto(c, "prepared")
  /\ UNCHANGED <<scene, clock, streams, result, releasing, listening, node, history>>

\* begin: bootstrap, sign, and the same response subscription.
BeginSubscribe(c) ==
  /\ c \in Async /\ pc[c] = "idle"
  /\ open' = open \cup {ResponseFilter(c)}
  /\ Goto(c, "subscribed")
  /\ UNCHANGED <<scene, clock, streams, result, releasing, listening, node, history>>

\* Mutant of BeginSubscribeOutcome: the filter starts now, like the other.
BeginSubscribeOutcomeSince(c) ==
  /\ pc[c] = "subscribed"
  /\ open' = open \cup {Filter(c, "notification", c, clock)}
  /\ Goto(c, "prepared")
  /\ UNCHANGED <<scene, clock, streams, result, releasing, listening, node, history>>

\* begin: the subscription for the outcome of this request.
BeginSubscribeOutcome(c) ==
  /\ pc[c] = "subscribed"
  /\ open' = open \cup {OutcomeFilter(c)}
  /\ Goto(c, "prepared")
  /\ UNCHANGED <<scene, clock, streams, result, releasing, listening, node, history>>

\* send: take the stream, send the request.
SendPublish(c) ==
  /\ c \in Plain /\ pc[c] = "prepared"
  /\ streams' = [streams EXCEPT ![Responses(c)] = << >>]
  /\ requests' = requests \cup {c}
  /\ Goto(c, "published")
  /\ UNCHANGED <<scene, clock, open, result, releasing, listening, verdict, asked,
                 sent, noise, history>>

\* begin: take both streams, send the request.
BeginPublish(c) ==
  /\ c \in Async /\ pc[c] = "prepared"
  /\ streams' = [streams EXCEPT ![Responses(c)] = << >>, ![Outcomes(c)] = << >>]
  /\ requests' = requests \cup {c}
  /\ Goto(c, "published")
  /\ UNCHANGED <<scene, clock, open, result, releasing, listening, verdict, asked,
                 sent, noise, history>>

\* Mutant of SendReturns: the stream is taken now.
SendReturnsTaking(c) ==
  /\ pc[c] = "published"
  /\ streams' = [streams EXCEPT ![Responses(c)] = << >>]
  /\ Goto(c, "awaiting")
  /\ UNCHANGED <<scene, clock, open, result, releasing, listening, node, history>>

\* send_event has heard from a relay; the reply may have overtaken it.
SendReturns(c) ==
  /\ pc[c] = "published"
  /\ Goto(c, "awaiting")
  /\ UNCHANGED <<scene, clock, open, streams, result, releasing, listening, node, history>>

\* Mutant of Dropped: the stream for the outcome is kept.
DroppedResponses(c) == [streams EXCEPT ![Responses(c)] = None]

\* The streams a call drops when it ends without a handle.
Dropped(c) ==
  [s \in Streams |-> IF s \in {Responses(c), Outcomes(c)} THEN None ELSE streams[s]]

\* An early return of send or begin (relay, signer, JSON), or a caller that
\* drops the future at one of its awaits.  Whatever was subscribed stays.
Abandon(c) ==
  /\ pc[c] \in {"idle", "subscribed", "prepared", "published", "awaiting"}
  /\ streams' = Dropped(c)
  /\ End(c, "failed")
  /\ UNCHANGED <<scene, clock, open, releasing, listening, node, history>>

-----------------------------------------------------------------------------
(* await_response, and what call and begin make of the response.           *)

\* Mutant of RepliesTo: any response of the node will do.
RepliesToAnybody(c, e) == e.kind = "response" /\ e.author = Node

RepliesTo(c, e) == e.kind = "response" /\ e.author = Node /\ e.re = c

Next1(s) == Head(streams[s])
Rest(s) == [streams EXCEPT ![s] = Tail(@)]
Unread(s) == streams[s] # None /\ streams[s] # << >>

SkipResponse(c) ==
  /\ pc[c] = "awaiting" /\ Unread(Responses(c))
  /\ ~ RepliesTo(c, Next1(Responses(c)))
  /\ streams' = Rest(Responses(c))
  /\ UNCHANGED <<scene, clock, open, pc, result, releasing, listening, node, history>>

\* What call makes of a response: a refusal, a result, or one that does not
\* decrypt, parse or fit.
CallAnswered(c) ==
  /\ c \in Plain /\ pc[c] = "awaiting" /\ Unread(Responses(c))
  /\ RepliesTo(c, Next1(Responses(c)))
  /\ LET body == Next1(Responses(c)).body
     IN  End(c, IF body \in {"ok", "refused"} THEN body ELSE "failed")
  /\ streams' = Dropped(c)
  /\ UNCHANGED <<scene, clock, open, releasing, listening, node, history>>

\* What begin makes of it: anything but an error is an acknowledgement.
BeginAnswered(c) ==
  /\ c \in Async /\ pc[c] = "awaiting" /\ Unread(Responses(c))
  /\ RepliesTo(c, Next1(Responses(c)))
  /\ LET body == Next1(Responses(c)).body
     IN  IF body \in {"ok", "malformed"}
         THEN /\ pc' = [pc EXCEPT ![c] = "held"]
              /\ result' = [result EXCEPT ![c] = "ok"]
              /\ streams' = [streams EXCEPT ![Responses(c)] = None]
         ELSE /\ End(c, IF body = "refused" THEN "refused" ELSE "failed")
              /\ streams' = Dropped(c)
  /\ UNCHANGED <<scene, clock, open, releasing, listening, node, history>>

\* Mutant of TimeOut: the deadline is looked at only when an event comes.
TimeOutOnEvent(c) ==
  /\ pc[c] = "awaiting" /\ Unread(Responses(c))
  /\ streams' = Dropped(c)
  /\ End(c, "timed_out")
  /\ UNCHANGED <<scene, clock, open, releasing, listening, node, history>>

\* The deadline passes, unread events or not.
TimeOut(c) ==
  /\ pc[c] = "awaiting"
  /\ streams' = Dropped(c)
  /\ End(c, "timed_out")
  /\ UNCHANGED <<scene, clock, open, releasing, listening, node, history>>

-----------------------------------------------------------------------------
(* Pending: a handle is held, awaited or dropped.                          *)

\* Mutant of Wait: the stream is taken now.
WaitTaking(c) ==
  /\ pc[c] = "held"
  /\ streams' = [streams EXCEPT ![Outcomes(c)] = << >>]
  /\ Goto(c, "waiting")
  /\ UNCHANGED <<scene, clock, open, result, releasing, listening, node, history>>

Wait(c) ==
  /\ pc[c] = "held"
  /\ Goto(c, "waiting")
  /\ UNCHANGED <<scene, clock, open, streams, result, releasing, listening, node, history>>

\* wait asks for the kind and the request, not for the author.
IsOutcomeOf(c, e) == e.kind = "notification" /\ e.re = c

SkipOutcome(c) ==
  /\ pc[c] = "waiting" /\ Unread(Outcomes(c))
  /\ ~ IsOutcomeOf(c, Next1(Outcomes(c)))
  /\ streams' = Rest(Outcomes(c))
  /\ UNCHANGED <<scene, clock, open, pc, result, releasing, listening, node, history>>

Without(c) == {f \in open : f # OutcomeFilter(c)}

\* Drop, which every end of a handle goes through: unsubscribe in a task.
DropPending(c) ==
  /\ Goto(c, "over")
  /\ streams' = [streams EXCEPT ![Outcomes(c)] = None]
  /\ releasing' = releasing \cup {c}

\* The outcome, readable or not of the type: wait unsubscribes and returns.
\* One that does not decrypt or parse returns early and leaves that to Drop.
Outcome(c) ==
  /\ pc[c] = "waiting" /\ Unread(Outcomes(c))
  /\ IsOutcomeOf(c, Next1(Outcomes(c)))
  /\ open' = IF Next1(Outcomes(c)).body = "garbled" THEN open ELSE Without(c)
  /\ DropPending(c)
  /\ UNCHANGED <<scene, clock, result, listening, node, history>>

OutcomeTimeOut(c) ==
  /\ pc[c] = "waiting"
  /\ open' = Without(c)
  /\ DropPending(c)
  /\ UNCHANGED <<scene, clock, result, listening, node, history>>

\* Mutant of DropHandle: dropping only forgets the handle.
ForgetHandle(c) ==
  /\ pc[c] \in {"held", "waiting"}
  /\ Goto(c, "over")
  /\ streams' = [streams EXCEPT ![Outcomes(c)] = None]
  /\ UNCHANGED <<scene, clock, open, result, releasing, listening, node, history>>

\* The caller drops the handle, or the future that waits for it.
DropHandle(c) ==
  /\ pc[c] \in {"held", "waiting"}
  /\ DropPending(c)
  /\ UNCHANGED <<scene, clock, open, result, listening, node, history>>

\* The task Drop has spawned.
Unsubscribe(c) ==
  /\ c \in releasing
  /\ releasing' = releasing \ {c}
  /\ open' = Without(c)
  /\ UNCHANGED <<scene, clock, streams, pc, result, listening, node, history>>

-----------------------------------------------------------------------------
(* handle_notifications and set_subscription.                              *)

\* Who never listens is taken not to subscribe.
SetSubscription ==
  /\ listener # "over"
  /\ asked' = ~ asked
  /\ UNCHANGED <<scene, clock, client, listening, requests, verdict, sent, noise, history>>

ListenSubscribe ==
  /\ listener = "idle"
  /\ open' = open \cup {Filter("listener", "notification", None, clock)}
  /\ listener' = "subscribed"
  /\ UNCHANGED <<scene, clock, streams, pc, result, releasing, handled, node, history>>

Listen ==
  /\ listener = "subscribed"
  /\ streams' = [streams EXCEPT ![Heard] = << >>]
  /\ listener' = "listening"
  /\ UNCHANGED <<scene, clock, open, pc, result, releasing, handled, node, history>>

\* Mutant of ForListener: what names a request is left to its handle.
ForListenerUnlessResult(e) ==
  e.kind = "notification" /\ e.author = Node /\ e.names_mine /\ e.re = None

\* It must name this client's subscription, whether or not it is a result too.
ForListener(e) ==
  e.kind = "notification" /\ e.author = Node /\ e.names_mine

ListenerSkips ==
  /\ listener = "listening" /\ Unread(Heard)
  /\ ~ ForListener(Next1(Heard))
  /\ streams' = Rest(Heard)
  /\ UNCHANGED <<scene, clock, open, pc, result, releasing, listening, node, history>>

\* The callback is given the notification, and may stop the listener.
ListenerHandles(goes_on) ==
  /\ listener = "listening" /\ Unread(Heard)
  /\ ForListener(Next1(Heard)) /\ Next1(Heard).body # "garbled"
  /\ handled' = handled \cup {Next1(Heard)}
  /\ listener' = IF goes_on THEN "listening" ELSE "over"
  /\ streams' = IF goes_on THEN Rest(Heard) ELSE [streams EXCEPT ![Heard] = None]
  /\ UNCHANGED <<scene, clock, open, pc, result, releasing, node, history>>

\* One that does not decrypt or parse ends the listener with an error.
ListenerFails ==
  /\ listener = "listening" /\ Unread(Heard)
  /\ ForListener(Next1(Heard)) /\ Next1(Heard).body = "garbled"
  /\ listener' = "over"
  /\ streams' = [streams EXCEPT ![Heard] = None]
  /\ UNCHANGED <<scene, clock, open, pc, result, releasing, handled, node, history>>

-----------------------------------------------------------------------------
(* The node and the relay.                                                 *)

Event(kind, author, re, names_mine, body) ==
  [kind |-> kind, author |-> author, re |-> re, names_mine |-> names_mine,
   body |-> body, at |-> clock + scene.skew]

\* An event is passed to the client and broadcast there, if asked for.
Transmit(e) ==
  /\ sent' = sent \cup {e}
  /\ IF Passes(open, e)
     THEN /\ arrived' = arrived \cup {e}
          /\ streams' = Broadcast(streams, e)
          /\ overrun' = overrun \cup PushedOut(streams)
          /\ due' = IF streams[Heard] # None /\ e.names_mine THEN due \cup {e} ELSE due
     ELSE UNCHANGED <<arrived, streams, overrun, due>>

Decide(c, v) ==
  /\ c \in requests /\ verdict[c] = None
  /\ verdict' = [verdict EXCEPT ![c] = v]
  /\ UNCHANGED <<scene, clock, client, listening, requests, asked, sent, noise, history>>

Sent(kind, c) == \E e \in sent : e.kind = kind /\ e.re = c

\* A malformed result is one that is not of the type the caller reads it as.
Reply(c, body) ==
  /\ verdict[c] # None /\ ~ Sent("response", c)
  /\ body \in {verdict[c]} \cup scene.spoilt
  /\ body = "malformed" => verdict[c] = "ok"
  /\ Transmit(Event("response", Node, c, FALSE, body))
  /\ UNCHANGED <<scene, clock, open, pc, result, releasing, listening, requests,
                 verdict, asked, noise>>

\* Notifier::deliver to the caller, with both causes if it is subscribed.
Report(c, body) ==
  /\ c \in Async /\ verdict[c] = "ok" /\ ~ Sent("notification", c)
  /\ body \in {"ok"} \cup scene.spoilt
  /\ Transmit(Event("notification", Node, c, asked, body))
  /\ UNCHANGED <<scene, clock, open, pc, result, releasing, listening, requests,
                 verdict, asked, noise>>

\* Notifier::announce.
Announce(body) ==
  /\ body \in {"ok"} \cup scene.spoilt
  /\ asked /\ Cardinality({e \in sent : e.names_mine /\ e.re = None}) < MaxAnnounced
  /\ Transmit(Event("notification", Node, None, TRUE, body))
  /\ UNCHANGED <<scene, clock, open, pc, result, releasing, listening, requests,
                 verdict, asked, noise>>

\* Events for the same key that are none of this client's business: of another
\* service, or for another program that uses the key.
Noise(kind, author) ==
  /\ noise < scene.noise
  /\ noise' = noise + 1
  /\ Transmit(Event(kind, author, Elsewhere, FALSE, "ok"))
  /\ UNCHANGED <<scene, clock, open, pc, result, releasing, listening, requests,
                 verdict, asked>>

-----------------------------------------------------------------------------

Call(c) ==
  \/ SendSubscribe(c) \/ SendPublish(c)
  \/ BeginSubscribe(c) \/ BeginSubscribeOutcome(c) \/ BeginPublish(c)
  \/ SendReturns(c) \/ Abandon(c)
  \/ SkipResponse(c) \/ CallAnswered(c) \/ BeginAnswered(c) \/ TimeOut(c)

Handle(c) ==
  \/ Wait(c) \/ SkipOutcome(c) \/ Outcome(c) \/ OutcomeTimeOut(c)
  \/ DropHandle(c) \/ Unsubscribe(c)

Listener ==
  \/ SetSubscription \/ ListenSubscribe \/ Listen
  \/ ListenerSkips \/ ListenerFails
  \/ \E goes_on \in BOOLEAN : ListenerHandles(goes_on)

NodeActs ==
  \/ \E c \in Commands :
       \/ \E v \in {"ok", "refused"} : Decide(c, v)
       \/ \E body \in {"ok", "refused"} \cup Spoilt : Reply(c, body)
  \/ \E body \in {"ok"} \cup Spoilt : Announce(body) \/ \E c \in Async : Report(c, body)
  \/ \E kind \in {"response", "notification"}, author \in {Node, Other} :
       Noise(kind, author)

Next ==
  \/ \E c \in Commands : Call(c)
  \/ \E c \in Async : Handle(c)
  \/ Listener \/ NodeActs \/ Tick

Spec == Init /\ [][Next]_vars

\* send_event returns, deadlines pass, spawned tasks run.  Nothing obliges
\* the node to answer, nor a caller to wait for a handle or to drop it.
Fairness ==
  /\ \A c \in Commands : WF_vars(SendReturns(c)) /\ WF_vars(TimeOut(c))
  /\ \A c \in Async : WF_vars(OutcomeTimeOut(c)) /\ WF_vars(Unsubscribe(c))

FairSpec == Spec /\ Fairness

-----------------------------------------------------------------------------
(* Properties.                                                             *)

InFlight(c) == pc[c] \in {"published", "awaiting"}
Handled(c) == pc[c] \in {"held", "waiting"}

\* The state is of the declared types; a call holds its streams exactly while
\* it needs them.
TypeOK ==
  /\ scene \in Scenes /\ clock \in 1..scene.seconds /\ noise \in 0..scene.noise
  /\ open \subseteq [owner : Commands \cup {"listener"}, kind : {"response", "notification"},
                     re : Commands \cup {None}, since : Nat]
  /\ streams \in [Streams -> Seq(Messages) \cup {None}]
  /\ pc \in [Commands -> {"idle", "subscribed", "prepared", "published",
                          "awaiting", "held", "waiting", "over"}]
  /\ result \in [Commands -> {None, "ok", "refused", "timed_out", "failed"}]
  /\ verdict \in [Commands -> {None, "ok", "refused"}]
  /\ releasing \subseteq Async /\ requests \subseteq Commands
  /\ listener \in {"idle", "subscribed", "listening", "over"}
  /\ asked \in BOOLEAN /\ sent \subseteq Messages
  /\ arrived \subseteq sent /\ due \subseteq arrived /\ handled \subseteq arrived
  /\ \A s \in Streams : streams[s] # None => Len(streams[s]) <= Capacity
  /\ \A c \in Commands : (streams[Responses(c)] # None) <=> InFlight(c)
  /\ \A c \in Async : (streams[Outcomes(c)] # None) <=> (InFlight(c) \/ Handled(c))

\* What a caller is told about a command is what the node decided about that
\* command and no other, late replies and concurrent commands or not; and
\* giving up leaves open what the node did.
Learned(r) == IF r \in {"timed_out", "failed"} THEN "unknown" ELSE r

Promise ==
  INSTANCE Command WITH
    Verdicts <- {"ok", "refused"}, Unknown <- "unknown",
    issued <- requests,
    learned <- [c \in Commands |-> Learned(result[c])]

ImplementsCommand == Promise!Spec

\* e is still to be read from stream s, or was pushed out of it.
Awaits(s, e) == e \in ToSet(streams[s]) \/ <<s, e>> \in overrun

\* "Subscribes before publishing, so a fast answer is not missed": a response
\* that has reached the client while its call is in flight is still to be
\* read by that call, unless the stream overflowed.
AnswerNotMissed ==
  \A e \in arrived : (e.re \in Commands /\ RepliesTo(e.re, e) /\ InFlight(e.re))
    => Awaits(Responses(e.re), e)

\* An outcome that has reached the client before its handle is awaited, or
\* even before the acknowledgement, is still there for the handle, unless
\* the stream overflowed.
OutcomeNotMissed ==
  \A e \in arrived : (e.re \in Async /\ IsOutcomeOf(e.re, e)
                        /\ (InFlight(e.re) \/ Handled(e.re)))
    => Awaits(Outcomes(e.re), e)

\* The relay passes every response and every outcome on to the command that is
\* there for it, whatever other calls and handles unsubscribe meanwhile; but a
\* response stamped before its own subscription is not passed, which takes a
\* node whose clock is behind the client's.
PassedOn ==
  \A e \in sent : (e.re \in Commands /\ (InFlight(e.re) \/ Handled(e.re))) =>
    \/ e \in arrived
    \/ /\ e.kind = "response"
       /\ \A f \in open : (f.owner = e.re /\ f.kind = "response") => e.at < f.since

\* Every delivery of the subscription that is received while the listener
\* listens is given to the callback, those that are some command's outcome at
\* the same time included.
DeliveriesHandled ==
  \A e \in due : listener = "listening" => e \in handled \/ Awaits(Heard, e)

\* A call whose request is out comes back to its caller, also when foreign
\* events keep arriving.  The deadline covers the reads of the stream; decrypting
\* the answer (nnc/client/mod.rs:245) lies outside it, and is one step here: the
\* signer is taken to return.
EveryCallReturns == \A c \in Commands : InFlight(c) ~> ~ InFlight(c)

\* "Dropping unsubscribes": once a handle is gone, by outcome, timeout, error
\* or drop, its subscription is ended.
HandleReleased ==
  \A c \in Async :
    (pc[c] = "over" /\ result[c] = "ok") ~> (\A f \in open : f # OutcomeFilter(c))
=============================================================================
