------------------------------ MODULE Service ------------------------------
(***************************************************************************)
(* The node service on its relays (service/transport.rs, Service::run):    *)
(* start up, refresh, the event loop, the reconnect poll, the mirror for   *)
(* notifiers; crashes and lost connections around it.  A request stands    *)
(* for the whole of Pipeline: here it is refused by the grants in force,   *)
(* or the loop waits for the handler.                                      *)
(*                                                                         *)
(* External parts, modelled from how run() uses them:                      *)
(*  - a relay stores the newest durable event of each address, answers a   *)
(*    subscription with what it has stored before anything newer, and      *)
(*    passes requests on without storing them;                             *)
(*  - the SDK client subscribes again by itself when a relay comes back,   *)
(*    reports an event only the first time it is seen on any relay, and    *)
(*    reports to the notification stream only once run() has taken it.     *)
(*    That it checks and remembers an event in one step is an assumption:  *)
(*    each relay has a task, which awaits in between;                      *)
(*  - the stream keeps the last Capacity of the events that were reported  *)
(*    and not read: a reader that has fallen further behind, because the   *)
(*    loop was waiting for a handler, silently skips the older ones.       *)
(* Events already seen have no effect when they are sent again, so a wire  *)
(* carries only events that were not seen when they were sent.             *)
(***************************************************************************)
EXTENDS Subscriptions, SequencesExt

CONSTANTS Relays,
          Durable,       \* grant and subscription events, each published once
          Requests,      \* request events, each published once
          StartupFaults, \* what may happen while run() starts: a durable
                         \* event is published, a connection is lost or
                         \* comes back, the first fetch fails
          Capacity,      \* how many unread events the stream keeps
          MaxDrops, MaxCrashes

ASSUME CapacityAssumption == Capacity \in Nat \ {0}

ASSUME FaultsAssumption == StartupFaults \subseteq {"publish", "connection", "fetch"}

\* The filters of subscribe and of refresh ask for events with the node's p tag,
\* so these are the ones there are here.
ASSUME EventsAssumption ==
  /\ IsFiniteSet(Durable) /\ Durable \cap Requests = {} /\ None \notin Requests
  /\ \A e \in Durable :
       /\ e.p_tagged /\ e.created_at \in Nat
       /\ e.kind = GRANT_KIND =>
            Target(e) \in Targets \cup {None} /\ VerifiedGrant(e) # None
       /\ e.kind = SUBSCRIPTION_KIND /\ e.content # Unreadable => Wanted(e) # None

VARIABLES
  \* the relays and the connections to them
  stored,       \* stored[r]: the durable events relay r holds
  up,           \* the relays the client is connected to
  wire,         \* wire[r]: events relay r has sent and the client not read
  drops,
  \* the SDK client
  seen,         \* events the client has seen
  queue,        \* what the notification stream has not been read of
  lost,         \* history: what the loop skipped unread, and no re-read
                \* has brought since
  \* Service::run
  pc,           \* how far run() has come
  fetched,      \* what a refresh has read and not yet applied
  grants, subs,
  mirror,       \* Delivery: the copy the notifiers read
  connected,    \* the relays connected at the last poll
  serving,      \* the request the handler is working on, or None
  crashes,
  \* history
  published,    \* events published
  before,       \* before[q]: the durable events published before request q
  answered,     \* requests that were sent an answer
  unreplied     \* requests whose answer could not be sent

network == <<stored, up, wire, drops>>
sdk == <<seen, queue, lost>>
registries == <<grants, subs, mirror>>
loop == <<pc, fetched, connected, serving, crashes>>
history == <<published, before, answered, unreplied>>
vars == <<network, sdk, registries, loop, history>>

Unsent == [r \in Relays |-> << >>]

Init ==
  /\ stored = [r \in Relays |-> {}]
  /\ up = Relays
  /\ wire = Unsent
  /\ seen = {} /\ queue = << >> /\ lost = {}
  /\ pc = "down" /\ fetched = << >>
  /\ grants = NoGrants /\ subs = NoSubscriptions
  /\ mirror = [grants |-> NoGrants, subs |-> NoSubscriptions]
  /\ connected = {} /\ serving = None
  /\ drops = 0 /\ crashes = 0
  /\ published = {}
  /\ before = [q \in Requests |-> {}]
  /\ answered = {} /\ unreplied = {}

Starting == pc \in {"subscribed", "refreshing", "refreshed"}
Subscribed == pc # "down"
StreamTaken == pc \in {"loop", "returned", "rereading"}

-----------------------------------------------------------------------------
(* Relays.                                                                 *)

SameAddress(e, f) == e.kind = f.kind /\ e.pubkey = f.pubkey /\ e.d = f.d

\* A relay's store after it is offered e.
Store(S, e) ==
  IF \E f \in S : SameAddress(e, f) /\ f.created_at > e.created_at
  THEN S
  ELSE {f \in S : ~ SameAddress(e, f)} \cup {e}

\* The relays of R pass e on to a subscribed client.
Broadcast(e, R) ==
  wire' = [r \in Relays |-> IF r \in R \cap up /\ Subscribed
                            THEN Append(wire[r], e) ELSE wire[r]]

\* The relays of R answer a subscription, each in an order of its own.
SendStored(R) ==
  LET orders == [r \in R |-> SetToSeqs(stored[r] \ seen)]
  IN  \E sent \in [R -> UNION {orders[r] : r \in R}] :
        /\ \A r \in R : sent[r] \in orders[r]
        /\ wire' = [r \in Relays |-> IF r \in R THEN wire[r] \o sent[r]
                                               ELSE wire[r]]

\* An owner or a controller publishes a durable event to some of the relays.
Publish(e, R) ==
  /\ e \notin published
  /\ Starting => "publish" \in StartupFaults
  /\ published' = published \cup {e}
  /\ stored' = [r \in Relays |-> IF r \in R THEN Store(stored[r], e) ELSE stored[r]]
  /\ Broadcast(e, R)
  /\ UNCHANGED <<up, drops, sdk, registries, loop, before, answered,
                 unreplied>>

\* A controller sends a request through some of the relays.
Request(q, R) ==
  /\ q \notin published
  /\ published' = published \cup {q}
  /\ before' = [before EXCEPT ![q] = published \cap Durable]
  /\ Broadcast(q, R)
  /\ UNCHANGED <<stored, up, drops, sdk, registries, loop, answered, unreplied>>

\* A connection is lost with what was under way on it.
Drop(r) ==
  /\ r \in up /\ drops < MaxDrops
  /\ Starting => "connection" \in StartupFaults
  /\ drops' = drops + 1
  /\ up' = up \ {r}
  /\ wire' = [wire EXCEPT ![r] = << >>]
  /\ UNCHANGED <<stored, sdk, registries, loop, history>>

\* The SDK reconnects and, once run() has subscribed, subscribes again.
Reconnect(r) ==
  /\ r \notin up
  /\ Starting => "connection" \in StartupFaults
  /\ up' = up \cup {r}
  /\ IF Subscribed THEN SendStored({r}) ELSE UNCHANGED wire
  /\ UNCHANGED <<stored, drops, sdk, registries, loop, history>>

-----------------------------------------------------------------------------
(* The SDK client.                                                         *)

\* The events of S arrive: the new ones are reported, if anyone listens.
Report(S) ==
  /\ seen' = seen \cup S
  /\ IF StreamTaken
     THEN \E news \in SetToSeqs(S \ seen) : queue' = queue \o news
     ELSE UNCHANGED queue

Receive(r) ==
  /\ r \in up /\ wire[r] # << >>
  /\ Report({Head(wire[r])})
  /\ wire' = [wire EXCEPT ![r] = Tail(@)]
  /\ UNCHANGED <<stored, up, drops, lost, registries, loop, history>>

-----------------------------------------------------------------------------
(* The registries: refresh, which applies one event after the other while  *)
(* the world goes on, and mirror.                                          *)

ApplyEvent(state, e) ==
  IF e.kind = GRANT_KIND
  THEN [state EXCEPT !.grants = ApplyGrant(state.grants, e)]
  ELSE [state EXCEPT !.subs = ApplySubscription(state.subs, state.grants, e)]

Current == [grants |-> grants, subs |-> subs]

Become(state) ==
  /\ grants' = state.grants
  /\ subs' = state.subs
  /\ mirror' = state

\* What the connected relays hold, oldest first; equal ages in any order.
Fetchable == UNION {stored[r] : r \in up}

FetchedLists ==
  {list \in SetToSeqs(Fetchable) :
     \A i, j \in DOMAIN list : i < j => list[i].created_at <= list[j].created_at}

Fetch ==
  /\ up # {}
  /\ fetched' \in FetchedLists
  /\ Report(Fetchable)
  /\ lost' = lost \ Fetchable

\* A fetch that fails is logged, and there is nothing to apply.
FetchFails ==
  /\ fetched' = << >>
  /\ UNCHANGED sdk

Refreshing == pc \in {"refreshing", "rereading"}

\* The loop of refresh; the notifiers do not see it yet.
ApplyFetched ==
  /\ Refreshing /\ fetched # << >>
  /\ LET state == ApplyEvent(Current, Head(fetched))
     IN  grants' = state.grants /\ subs' = state.subs
  /\ fetched' = Tail(fetched)
  /\ UNCHANGED <<network, sdk, mirror, pc, connected, serving, crashes, history>>

Mirror ==
  /\ Refreshing /\ fetched = << >>
  /\ Become(Current)
  /\ pc' = IF pc = "refreshing" THEN "refreshed" ELSE "loop"
  /\ UNCHANGED <<network, sdk, fetched, connected, serving, crashes, history>>

-----------------------------------------------------------------------------
(* Service::run, up to the loop.                                           *)

\* add_relay, connect, publish_info, subscribe.  Without a connected relay
\* the info event cannot be sent, run() returns, and is tried again.
Subscribe ==
  /\ pc = "down" /\ up # {}
  /\ pc' = "subscribed"
  /\ SendStored(up)
  /\ UNCHANGED <<stored, up, drops, sdk, registries, fetched, connected, serving,
                 crashes, history>>

\* Mutant of StartupFetch: the subscription is left to bring the state.
StartupWithoutFetch ==
  /\ pc = "subscribed"
  /\ pc' = "refreshing"
  /\ FetchFails
  /\ UNCHANGED <<network, registries, connected, serving, crashes, history>>

StartupFetch ==
  /\ pc = "subscribed"
  /\ pc' = "refreshing"
  /\ \/ Fetch
     \/ (up = {} \/ "fetch" \in StartupFaults) /\ FetchFails
  /\ UNCHANGED <<network, registries, connected, serving, crashes, history>>

\* connected_now(), notifications(), and into the loop.
EnterLoop ==
  /\ pc = "refreshed"
  /\ pc' = "loop"
  /\ connected' = up
  /\ UNCHANGED <<network, sdk, registries, fetched, serving, crashes, history>>

-----------------------------------------------------------------------------
(* The loop: one event or one tick at a time.                              *)

Waiting == pc = "loop" /\ serving = None

\* The loop reads the oldest event that the stream still has.
Reads == Waiting /\ queue # << >> /\ Len(queue) <= Capacity

\* The oldest event is no longer there when the loop comes to read it.
Lag ==
  /\ Waiting /\ Len(queue) > Capacity
  /\ queue' = Tail(queue)
  /\ lost' = lost \cup {Head(queue)}
  /\ UNCHANGED <<network, seen, registries, loop, history>>

\* Mutant of OnRegistryEvent: a grant is not mirrored.
OnRegistryEventUnmirrored ==
  /\ Reads /\ Head(queue) \in Durable
  /\ LET state == ApplyEvent(Current, Head(queue))
     IN  grants' = state.grants /\ subs' = state.subs
  /\ queue' = Tail(queue)
  /\ UNCHANGED <<network, seen, lost, mirror, loop, history>>

\* on_event for a grant or a subscription.
OnRegistryEvent ==
  /\ Reads /\ Head(queue) \in Durable
  /\ Become(ApplyEvent(Current, Head(queue)))
  /\ queue' = Tail(queue)
  /\ UNCHANGED <<network, seen, lost, loop, history>>

Permitted(q) ==
  LET g == Resolve(grants, q.pubkey)
  IN  g # None /\ AllowsControl(g.profile, q.method).denied = None

\* reply: the response is encrypted and sent.  Either may fail, and sending
\* does without a connected relay; on_event logs it and goes on.
Reply(q) ==
  \/ up # {} /\ answered' = answered \cup {q} /\ UNCHANGED unreplied
  \/ unreplied' = unreplied \cup {q} /\ UNCHANGED answered

\* Mutant of OnRequest: a request that is refused gets no answer.
OnRequestSilent ==
  /\ Reads /\ Head(queue) \in Requests
  /\ serving' = IF Permitted(Head(queue)) THEN Head(queue) ELSE None
  /\ queue' = Tail(queue)
  /\ UNCHANGED <<network, seen, lost, registries, pc, fetched, connected, crashes,
                 history>>

\* Mutant of OnRequest: the answer goes out before the handler returns.
OnRequestAcknowledged ==
  /\ Reads /\ Head(queue) \in Requests
  /\ serving' = IF Permitted(Head(queue)) THEN Head(queue) ELSE None
  /\ Reply(Head(queue))
  /\ queue' = Tail(queue)
  /\ UNCHANGED <<network, seen, lost, registries, pc, fetched, connected, crashes,
                 published, before>>

\* on_event for a request.
OnRequest ==
  /\ Reads /\ Head(queue) \in Requests
  /\ LET q == Head(queue)
     IN  IF Permitted(q)
         THEN serving' = q /\ UNCHANGED <<answered, unreplied>>
         ELSE Reply(q) /\ UNCHANGED serving
  /\ queue' = Tail(queue)
  /\ UNCHANGED <<network, seen, lost, registries, pc, fetched, connected, crashes,
                 published, before>>

HandlerReturns ==
  /\ serving # None
  /\ Reply(serving)
  /\ serving' = None
  /\ UNCHANGED <<network, sdk, registries, pc, fetched, connected, crashes,
                 published, before>>

\* A tick that finds a relay back: subscribe again and re-read.  Who is
\* connected is remembered whether or not the fetch will succeed.
TickReturned ==
  /\ Waiting /\ up \ connected # {}
  /\ SendStored(up)
  /\ connected' = up
  /\ pc' = "returned"
  /\ UNCHANGED <<stored, up, drops, sdk, registries, fetched, serving, crashes, history>>

Reread ==
  /\ pc = "returned"
  /\ Fetch \/ FetchFails
  /\ pc' = "rereading"
  /\ UNCHANGED <<network, registries, connected, serving, crashes, history>>

\* A tick that finds only that relays were lost.
TickLost ==
  /\ Waiting /\ up \subseteq connected /\ up # connected
  /\ connected' = up
  /\ UNCHANGED <<network, sdk, registries, pc, fetched, serving, crashes, history>>

\* The process ends and everything in its memory is gone.
Crash ==
  /\ pc # "down" /\ crashes < MaxCrashes
  /\ crashes' = crashes + 1
  /\ pc' = "down" /\ fetched' = << >>
  /\ wire' = Unsent
  /\ seen' = {} /\ queue' = << >> /\ lost' = {}
  /\ Become([grants |-> NoGrants, subs |-> NoSubscriptions])
  /\ connected' = {} /\ serving' = None
  /\ UNCHANGED <<stored, up, drops, history>>

-----------------------------------------------------------------------------

Steps ==
  \/ Subscribe \/ StartupFetch \/ ApplyFetched \/ Mirror \/ EnterLoop
  \/ Lag \/ OnRegistryEvent \/ OnRequest \/ HandlerReturns
  \/ TickReturned \/ Reread \/ TickLost

Network ==
  \/ \E e \in Durable, R \in (SUBSET Relays) \ {{}} : Publish(e, R)
  \/ \E q \in Requests, R \in (SUBSET Relays) \ {{}} : Request(q, R)
  \/ \E r \in Relays : Drop(r) \/ Reconnect(r) \/ Receive(r)

Next == Network \/ Steps \/ Crash

Spec == Init /\ [][Next]_vars

\* The process runs when it can and is started again, handlers return, relays
\* come back and the client reads what they send.  Nobody has to publish.
Fairness ==
  /\ WF_vars(Steps)
  /\ \A r \in Relays : WF_vars(Reconnect(r)) /\ WF_vars(Receive(r))

FairSpec == Spec /\ Fairness

-----------------------------------------------------------------------------
(* Properties.                                                             *)

GrantEvents == {e \in Durable : Trusted(e)}
Wishes == {e \in Durable : /\ e.kind = SUBSCRIPTION_KIND
                           /\ e.content # Unreadable /\ e.content.types # {}}

\* The state is of the declared types: the registries hold only what trusted
\* grants and non-empty subscriptions say.  A request is handled in the loop,
\* and replied to only after that, once, however many relays it came through:
\* the SDK reports an event that two relays send at the same time only once.
TypeOK ==
  /\ stored \in [Relays -> SUBSET Durable]
  /\ up \subseteq Relays /\ connected \subseteq Relays
  /\ wire \in [Relays -> Seq(Durable \cup Requests)]
  /\ queue \in Seq(Durable \cup Requests) /\ fetched \in Seq(Durable)
  /\ pc \in {"down", "subscribed", "refreshing", "refreshed", "loop", "returned", "rereading"}
  /\ grants \in [Targets -> {VerifiedGrant(e) : e \in GrantEvents} \cup {None}]
  /\ subs \in [Authors -> {Wanted(e) : e \in Wishes} \cup {None}]
  /\ serving \in Requests \cup {None}
  /\ serving # None => pc = "loop" /\ serving \notin answered \cup unreplied
  /\ before \in [Requests -> SUBSET published]
  /\ published \subseteq Durable \cup Requests
  /\ answered \cup unreplied \subseteq Requests /\ answered \cap unreplied = {}
  /\ lost \subseteq seen /\ seen \cup answered \cup unreplied \subseteq published

AsNewAs(g, e) == g # None /\ g.created_at >= e.created_at

\* The grant of event f is of the same target as that of e, and as new.
Renews(f, e) ==
  f \in GrantEvents /\ Target(f) = Target(e) /\ f.created_at >= e.created_at

\* e, or what replaced it, was skipped unread and not fetched since.
Missed(e) == \E f \in lost : Renews(f, e)

\* No request is let through on stale grants: whatever owners had published
\* for the caller, or for OTHERS, before the request was sent has been
\* applied when the handler works for it, in spite of restarts, lost
\* connections and failed re-reads.  The one exception is what a loop that
\* waited too long for a handler was not kept.
NoStaleAllow ==
  serving # None =>
    \A e \in before[serving] \cap GrantEvents :
      Target(e) \in {serving.pubkey, OTHERS} =>
        AsNewAs(grants[Target(e)], e) \/ Missed(e)

Quiet ==
  /\ Waiting /\ queue = << >>
  /\ up = Relays /\ wire = Unsent

\* Once every relay is back and nothing is under way, the service and its
\* notifiers hold the newest grant of every target that any relay stores,
\* unless it was skipped unread; a re-read makes up for what was skipped.
InSync ==
  Quiet =>
    /\ mirror = Current
    /\ \A r \in Relays : \A e \in stored[r] \cap GrantEvents :
         AsNewAs(grants[Target(e)], e) \/ Missed(e)

\* A published grant or revocation takes effect, for requests and for
\* notifications, whenever it comes and whatever fails around it, unless the
\* loop skips it unread.  It needs a startup that nothing disturbs: what is
\* published between the first read and notifications() is never reported
\* (StartupFaults, which the runs of this property leave empty).
GrantTakesEffect ==
  \A e \in GrantEvents :
    e \in published ~> \/ Missed(e)
                       \/ /\ pc = "loop" /\ AsNewAs(grants[Target(e)], e)
                          /\ AsNewAs(mirror.grants[Target(e)], e)

\* A request that reached the stream is answered, also when it is refused and
\* however long handlers hold up the loop, unless it was skipped unread, its
\* reply could not be encrypted or sent, which the service only logs, or the
\* process ended.
RequestAnswered ==
  \A q \in Requests :
    q \in ToSet(queue) ~> \/ q \in answered \/ q \in unreplied
                          \/ q \in lost \/ pc = "down"

\* The first read is "exact rather than a best effort at replaying history":
\* after it, a stored subscription whose author holds a grant is in force.
StartupReadIsExact ==
  (pc = "refreshed" /\ up = Relays) =>
    \A r \in Relays : \A e \in stored[r] :
      (SubscriptionAccepted(NoSubscriptions, grants, e) /\ e.content.types # {})
        => subs[e.pubkey] # None
=============================================================================
