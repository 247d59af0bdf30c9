------------------------------ MODULE Registry ------------------------------
(***************************************************************************)
(* The grants and the subscriptions of a node service together, while      *)
(* events of both kinds arrive in any order and any number of times.       *)
(***************************************************************************)
EXTENDS Subscriptions, FiniteSets

CONSTANTS Events,        \* grant and subscription events
          Types          \* notification types

ASSUME EventsAssumption ==
  \A e \in Events :
    /\ e.created_at \in Nat
    /\ e.kind = GRANT_KIND =>
         Target(e) \in Targets \cup {None} /\ VerifiedGrant(e) # None
    /\ e.kind = SUBSCRIPTION_KIND =>
         e.pubkey \in Authors /\ (e.content # Unreadable => Wanted(e) # None)

VARIABLES grants, subs,
          delivered,     \* history: every event seen
          accepted       \* history: the subscriptions apply returned Ok for

vars == <<grants, subs, delivered, accepted>>

Init ==
  /\ grants = NoGrants
  /\ subs = NoSubscriptions
  /\ delivered = {}
  /\ accepted = {}

DeliverGrant(e) ==
  /\ e.kind = GRANT_KIND
  /\ grants' = ApplyGrant(grants, e)
  /\ delivered' = delivered \cup {e}
  /\ UNCHANGED <<subs, accepted>>

DeliverSubscription(e) ==
  /\ e.kind = SUBSCRIPTION_KIND
  /\ subs' = ApplySubscription(subs, grants, e)
  /\ accepted' = IF SubscriptionAccepted(subs, grants, e)
                 THEN accepted \cup {e} ELSE accepted
  /\ delivered' = delivered \cup {e}
  /\ UNCHANGED grants

Next == \E e \in Events : DeliverGrant(e) \/ DeliverSubscription(e)

Spec == Init /\ [][Next]_vars

-----------------------------------------------------------------------------
(* Properties.                                                             *)

\* The state is of the declared types: entries come from events that passed
\* the checks, and an entry of the subscription registry lists some type.
Grantings == {e \in delivered : Trusted(e)}
Subscriptions == {e \in delivered : /\ e.kind = SUBSCRIPTION_KIND
                                    /\ e.content # Unreadable
                                    /\ e.content.types # {}}

TypeOK ==
  /\ grants \in [Targets -> {VerifiedGrant(e) : e \in Grantings} \cup {None}]
  /\ subs \in [Authors -> {Wanted(e) : e \in Subscriptions} \cup {None}]
  /\ delivered \subseteq Events
  /\ accepted \subseteq delivered

\* The trusted grant events for target t that have arrived, and those of them
\* that no other is newer than.
Arrived(t) == {e \in delivered : Trusted(e) /\ Target(e) = t}
Newest(t) == {e \in Arrived(t) : \A f \in Arrived(t) : f.created_at <= e.created_at}

\* What the owners last said about caller c: its own newest grants if it ever
\* had one, the newest for OTHERS otherwise.
LastWord(c) ==
  IF c \in Controllers /\ Arrived(c) # {} THEN Newest(c) ELSE Newest(OTHERS)

\* Delivery is the intersection at this moment: whoever receives a type asked
\* for it in a subscription that was accepted, and the owners' last word on
\* that controller permits the type.  A subscription that outlives its grant
\* delivers nothing, whatever came before or in between.
DeliveryNeedsBoth ==
  \A ntype \in Types : \A c \in Recipients(subs, grants, ntype) :
    /\ \E e \in accepted : e.pubkey = c /\ ntype \in e.content.types
    /\ \E g \in LastWord(c) : AllowsNotification(VerifiedGrant(g).profile, ntype)

\* A subscription that was accepted is remembered: it, or one as new, is in
\* force ever after, whatever arrives late or again and whichever grants come
\* and go, unless its author has since unsubscribed at the same time or later.
OnlyUnsubscriptionForgets ==
  \A e \in accepted :
    \/ subs[e.pubkey] # None /\ subs[e.pubkey].created_at >= e.created_at
    \/ \E u \in accepted : /\ u.pubkey = e.pubkey /\ u.content.types = {}
                           /\ u.created_at >= e.created_at

\* What a controller is recorded to want is the newest of its subscriptions
\* that were accepted: an older one that arrives late never displaces it.
NewestSubscription ==
  \A a \in Authors : subs[a] # None =>
    \A e \in accepted : e.pubkey = a => e.created_at <= subs[a].created_at

\* The registry holds no more entries than there are controllers the owners
\* wrote grants for, whoever else publishes subscriptions, as the comment at
\* Rejected::NoGrant says of its size.  A grant for OTHERS ends that: then
\* everybody resolves to a grant.
BoundedByGrants ==
  Arrived(OTHERS) = {} =>
    Cardinality({a \in Authors : subs[a] # None})
      <= Cardinality({Target(e) : e \in Grantings})
=============================================================================
