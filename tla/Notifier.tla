------------------------------ MODULE Notifier ------------------------------
(***************************************************************************)
(* The Notifier of a node service (service/transport.rs) beside the loop   *)
(* that keeps its grants and subscriptions.                                *)
(*                                                                         *)
(* The loop owns the registries; what a Notifier reads is a copy behind a  *)
(* lock, which the loop writes after what it has applied.  A handler's own *)
(* deliveries run inside the loop, which waits for them; those of other    *)
(* tasks run beside it.  A delivery reads the copy once, and then awaits   *)
(* one send after the other while registry events go on arriving.          *)
(*                                                                         *)
(* A call is [type, caller, within]: the notification type, the controller *)
(* whose command this is the outcome of (None for announce and for notify: *)
(* false), and whether a handler makes it while the loop waits.            *)
(***************************************************************************)
EXTENDS Registry, Sequences

CONSTANTS Scenes         \* which events arrive, and which calls are made

Calls == UNION {s.calls : s \in Scenes}

ASSUME NotifierAssumption ==
  /\ \A s \in Scenes : s.events \subseteq Events
  /\ \A d \in Calls : d.type \in Types /\ d.caller \in Authors \cup {None}
                      /\ d.within \in BOOLEAN
  /\ \A e \in Events : e.created_at # 0      \* which stands for no batch
  /\ None \notin Authors \cup Calls
  /\ \A due \in SUBSET [to : Authors, e : BOOLEAN, a : BOOLEAN] : due # None

VARIABLES
  scene,
  batch,        \* created_at of what was applied since the last mirror, or 0
  handling,     \* the call a handler is making, or None
  delivery,     \* the copy: grants and subscriptions
  queue,        \* of each call: recipients still to be sent to, None before
  log,          \* of each call: its sends, in order
  told,         \* history: the events the copy is made from
  start         \* history: of each call, the copy it read and told then

loop == <<batch, handling, delivery, told>>
calls == <<queue, log, start>>

NotifierInit ==
  /\ Init
  /\ scene \in Scenes
  /\ batch = 0 /\ handling = None
  /\ delivery = [grants |-> NoGrants, subs |-> NoSubscriptions]
  /\ queue = [d \in Calls |-> None]
  /\ log = [d \in Calls |-> << >>]
  /\ told = {} /\ start = [d \in Calls |-> None]

-----------------------------------------------------------------------------
(* The loop.                                                               *)

\* Mutant of Apply: handlers do not hold up the loop.
ApplyWhileHandling(e) ==
  /\ e.created_at >= batch
  /\ DeliverGrant(e) \/ DeliverSubscription(e)
  /\ batch' = e.created_at
  /\ UNCHANGED <<scene, handling, delivery, told, calls>>

\* on_event applies one event and mirrors; refresh applies what it has read,
\* oldest first, and then mirrors.
Apply(e) ==
  /\ handling = None /\ e.created_at >= batch
  /\ DeliverGrant(e) \/ DeliverSubscription(e)
  /\ batch' = e.created_at
  /\ UNCHANGED <<scene, handling, delivery, told, calls>>

Mirror ==
  /\ batch # 0 /\ batch' = 0
  /\ delivery' = [grants |-> grants, subs |-> subs]
  /\ told' = delivered
  /\ UNCHANGED <<scene, handling, grants, subs, delivered, accepted, calls>>

-----------------------------------------------------------------------------
(* deliver, announce and notify.                                           *)

\* What a Cause says: e tags the request, a tags the recipient's subscription.
Command(c) == [to |-> c, e |-> TRUE, a |-> FALSE]
Subscription(c) == [to |-> c, e |-> FALSE, a |-> TRUE]
Both(c) == [to |-> c, e |-> TRUE, a |-> TRUE]

Subscribers(d) == Recipients(delivery.subs, delivery.grants, d.type)

Addressed(d) ==
  {Subscription(c) : c \in Subscribers(d) \ {d.caller}}
    \cup IF d.caller = None THEN {}
         ELSE {IF d.caller \in Subscribers(d) THEN Both(d.caller) ELSE Command(d.caller)}

\* deliver, up to its first send.  A handler runs only between events.
Deliver(d) ==
  /\ d \in scene.calls /\ queue[d] = None
  /\ d.within => handling = None /\ batch = 0
  /\ handling' = IF d.within THEN d ELSE handling
  /\ queue' = [queue EXCEPT ![d] = Addressed(d)]
  /\ start' = [start EXCEPT ![d] = [copy |-> delivery, told |-> told]]
  /\ UNCHANGED <<scene, batch, delivery, log, told, grants, subs, delivered, accepted>>

\* The caller goes first, subscribers follow in the order of a hash map.
Turn(d, r) == r \in queue[d] /\ (\E q \in queue[d] : q.e) => r.e

Attempt(d, r, ok) ==
  log' = [log EXCEPT ![d] = Append(@, [to |-> r.to, e |-> r.e, a |-> r.a, ok |-> ok])]

\* notify: one send, with the tags of its cause.
NotifyOk(d, r) ==
  /\ queue[d] # None /\ Turn(d, r)
  /\ Attempt(d, r, TRUE)
  /\ queue' = [queue EXCEPT ![d] = @ \ {r}]
  /\ UNCHANGED <<scene, loop, start, grants, subs, delivered, accepted>>

\* Mutant of NotifyFails: the error is returned.
NotifyFailsForAll(d, r) ==
  /\ queue[d] # None /\ Turn(d, r)
  /\ Attempt(d, r, FALSE)
  /\ queue' = [queue EXCEPT ![d] = {}]
  /\ UNCHANGED <<scene, loop, start, grants, subs, delivered, accepted>>

\* The signer or the relay layer fails: a warning, and the next recipient.
NotifyFails(d, r) ==
  /\ queue[d] # None /\ Turn(d, r)
  /\ Attempt(d, r, FALSE)
  /\ queue' = [queue EXCEPT ![d] = @ \ {r}]
  /\ UNCHANGED <<scene, loop, start, grants, subs, delivered, accepted>>

\* deliver returns to the handler, and the loop goes on.
HandlerReturns(d) ==
  /\ handling = d /\ queue[d] = {}
  /\ handling' = None
  /\ UNCHANGED <<scene, batch, delivery, told, calls, grants, subs, delivered, accepted>>

-----------------------------------------------------------------------------

NotifierNext ==
  \/ \E e \in scene.events : Apply(e)
  \/ Mirror
  \/ \E d \in scene.calls :
       \/ Deliver(d) \/ HandlerReturns(d)
       \/ queue[d] # None /\ \E r \in queue[d] : NotifyOk(d, r) \/ NotifyFails(d, r)

notifierVars == <<vars, scene, loop, calls>>

NotifierSpec == NotifierInit /\ [][NotifierNext]_notifierVars

-----------------------------------------------------------------------------
(* Properties.                                                             *)

Sends(d) == {log[d][i] : i \in DOMAIN log[d]}

\* "One failed recipient must not silence the rest", and "a caller that is
\* also a subscriber gets one notification, not two": whatever fails, a call
\* that is through has made one send to its caller, subscribed or not, and one
\* to every subscriber at its start.  Each names the request iff it goes to
\* the caller and the subscription iff the recipient was subscribed, which is
\* what handles and listeners of the clients tell them apart by.
EveryoneOnce ==
  \A d \in Calls : queue[d] = {} =>
    LET subscribed == Recipients(start[d].copy.subs, start[d].copy.grants, d.type)
    IN  /\ \A i, j \in DOMAIN log[d] : log[d][i].to = log[d][j].to => i = j
        /\ {s.to : s \in Sends(d)} = (subscribed \cup {d.caller}) \ {None}
        /\ \A s \in Sends(d) : s.e = (s.to = d.caller) /\ s.a = (s.to \in subscribed)

\* What the owners last said about c, going by the events in seen.
LastWordIn(seen, c) ==
  LET about(t) == {e \in seen : Trusted(e) /\ Target(e) = t}
      said == IF c \in Controllers /\ about(c) # {} THEN about(c) ELSE about(OTHERS)
  IN  {e \in said : \A f \in said : f.created_at <= e.created_at}

Permits(seen, c, ntype) ==
  \E g \in LastWordIn(seen, c) : AllowsNotification(VerifiedGrant(g).profile, ntype)

\* Who is sent to as a subscriber was permitted the type by the owners' last
\* word when the call began: a revocation that the loop has mirrored before
\* is never missed, and one that comes later is overtaken by this call only.
\* A handler's call cannot even be overtaken, since the loop waits for it.
SentByLastWord ==
  \A d \in Calls : queue[d] # None =>
    \A s \in Sends(d) \cup queue[d] : s.a =>
      /\ Permits(start[d].told, s.to, d.type)
      /\ handling = d => Permits(delivered, s.to, d.type)
=============================================================================
