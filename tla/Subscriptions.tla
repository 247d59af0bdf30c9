--------------------------- MODULE Subscriptions ---------------------------
(***************************************************************************)
(* Notification subscriptions, kind 30199 (subscription.rs): what applying *)
(* one does to the registry, and who receives a notification now.  A       *)
(* subscription says what a controller wants, its grant what it may have.  *)
(*                                                                         *)
(* A registry maps every author to what it wants, or None.  The content of *)
(* an event holds the set of types it lists, or is Unreadable when it does *)
(* not decrypt or is not a JSON array of strings: both leave the registry  *)
(* as it was, like every other Rejected result.                            *)
(***************************************************************************)
EXTENDS Grants

CONSTANTS Authors,       \* the keys that may sign a subscription
          Unreadable

SUBSCRIPTION_KIND == "subscription"

NoSubscriptions == [a \in Authors |-> None]

Wanted(e) == [types |-> e.content.types, created_at |-> e.created_at]

\* Mutant of SubscriptionSuperseded: the last to arrive wins.
NeverSuperseded(subs, e) == FALSE

SubscriptionSuperseded(subs, e) ==
  /\ subs[e.pubkey] # None
  /\ e.created_at < subs[e.pubkey].created_at

\* Mutant of SubscriptionAccepted: no grant is asked for.
AcceptedUngranted(subs, grants, e) ==
  /\ e.kind = SUBSCRIPTION_KIND
  /\ e.d = Node
  /\ e.p_tagged
  /\ e.content # Unreadable
  /\ ~ SubscriptionSuperseded(subs, e)

\* The checks of apply, in its order; the grants are the ones in force when
\* the event is applied.
SubscriptionAccepted(subs, grants, e) ==
  /\ e.kind = SUBSCRIPTION_KIND
  /\ e.d = Node
  /\ e.p_tagged
  /\ Resolve(grants, e.pubkey) # None
  /\ e.content # Unreadable
  /\ ~ SubscriptionSuperseded(subs, e)

\* Mutant of ApplySubscription: an empty list is stored like any other.
ApplyKeepingEmpty(subs, grants, e) ==
  IF SubscriptionAccepted(subs, grants, e)
  THEN [subs EXCEPT ![e.pubkey] = Wanted(e)]
  ELSE subs

\* An empty list unsubscribes: the entry goes, and its time with it.
ApplySubscription(subs, grants, e) ==
  IF SubscriptionAccepted(subs, grants, e)
  THEN [subs EXCEPT ![e.pubkey] = IF e.content.types = {} THEN None ELSE Wanted(e)]
  ELSE subs

\* Mutant of ShouldReceive: a grant of any content is enough.
ShouldReceiveIfGranted(subs, grants, c, ntype) ==
  /\ subs[c] # None
  /\ ntype \in subs[c].types
  /\ Resolve(grants, c) # None

ShouldReceive(subs, grants, c, ntype) ==
  /\ subs[c] # None
  /\ ntype \in subs[c].types
  /\ Resolve(grants, c) # None
  /\ AllowsNotification(Resolve(grants, c).profile, ntype)

Recipients(subs, grants, ntype) ==
  {c \in Authors : ShouldReceive(subs, grants, c, ntype)}
=============================================================================
