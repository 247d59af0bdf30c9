--------------------------- MODULE NotifierProofs ---------------------------
(***************************************************************************)
(* Proofs about subscription.rs and the Notifier of service/transport.rs,  *)
(* for every set of grant and subscription events, authors, notification   *)
(* types and calls: whoever is notified asked for it and is permitted it   *)
(* by the owners' last word, and a call reaches each of its recipients     *)
(* once, whatever arrives or fails in between.                             *)
(***************************************************************************)
EXTENDS Notifier, FiniteSetTheorems, TLAPS

-----------------------------------------------------------------------------
(* A registry of grants and the events it was made from.                   *)

About(seen, t) == {e \in seen : Trusted(e) /\ Target(e) = t}

\* g holds for each target a newest of the trusted grants in seen.
InForce(g, seen) ==
  /\ g = [t \in Targets |-> g[t]]
  /\ \A t \in Targets :
       IF About(seen, t) = {}
       THEN g[t] = None
       ELSE \E h \in About(seen, t) :
              /\ g[t] = VerifiedGrant(h)
              /\ \A f \in About(seen, t) : f.created_at <= h.created_at

\* An entry for a controller comes from a subscription of its own that was
\* accepted.
SubsAccepted ==
  \A a \in Authors : subs[a] # None =>
    \E e \in accepted : e.pubkey = a /\ subs[a] = Wanted(e)

RegistryInv == TypeOK /\ InForce(grants, delivered) /\ SubsAccepted

-----------------------------------------------------------------------------
(* A call of deliver.                                                      *)

Recipient == [to : Authors, e : BOOLEAN, a : BOOLEAN]
Sending == [to : Authors, e : BOOLEAN, a : BOOLEAN, ok : BOOLEAN]

Subscribed(d) == Recipients(start[d].copy.subs, start[d].copy.grants, d.type)

Tagged(r, d) == (r.e <=> r.to = d.caller) /\ (r.a <=> r.to \in Subscribed(d))

Tos(d) == {s.to : s \in Sends(d)} \cup {r.to : r \in queue[d]}

\* What was sent and what is still to be sent are together one send to each
\* of those the call is addressed to, with the tags of its cause.
CallOK(d) ==
  /\ queue[d] = None => log[d] = << >>
  /\ queue[d] # None =>
       /\ queue[d] \in SUBSET Recipient
       /\ \A i, j \in DOMAIN log[d] : log[d][i].to = log[d][j].to => i = j
       /\ \A s \in Sends(d), r \in queue[d] : s.to # r.to
       /\ Tos(d) = (Subscribed(d) \cup {d.caller}) \ {None}
       /\ \A s \in Sends(d) \cup queue[d] : Tagged(s, d)
       /\ start[d].told \subseteq Events
       /\ InForce(start[d].copy.grants, start[d].told)

\* The copy is the registries' own between batches; while a handler waits
\* for its deliveries nothing is applied.
LoopOK ==
  /\ scene \in Scenes /\ batch \in Nat
  /\ batch = 0 => told = delivered
  /\ told \subseteq Events
  /\ InForce(delivery.grants, told)
  /\ handling # None =>
       /\ handling \in Calls /\ batch = 0
       /\ queue[handling] # None /\ start[handling].told = delivered

CallsOK ==
  /\ DOMAIN queue = Calls /\ DOMAIN start = Calls
  /\ log \in [Calls -> Seq(Sending)]
  /\ \A d \in Calls : CallOK(d)

IInv == RegistryInv /\ LoopOK /\ CallsOK

-----------------------------------------------------------------------------
(* The registries.                                                         *)

\* What the assumption says of an event that passes the checks of apply.
LEMMA TrustedEvent ==
  ASSUME NEW e \in Events
  PROVE  /\ e.created_at \in Nat
         /\ Trusted(e) => /\ e.kind = GRANT_KIND
                          /\ Target(e) \in Targets
                          /\ VerifiedGrant(e) # None
         /\ VerifiedGrant(e).created_at = e.created_at
  <1>1. VerifiedGrant(e).created_at = e.created_at
    BY DEF VerifiedGrant
  <1>2. Trusted(e) => e.kind = GRANT_KIND /\ Target(e) # None
    BY DEF Trusted
  <1> QED
    BY <1>1, <1>2, EventsAssumption

\* Applying one more event, of whatever kind and however late, keeps the
\* newest in force.
LEMMA ApplyInForce ==
  ASSUME NEW g, NEW seen \in SUBSET Events, NEW e \in Events, InForce(g, seen)
  PROVE  InForce(ApplyGrant(g, e), seen \cup {e})
  <1> DEFINE now == seen \cup {e}
             n == ApplyGrant(g, e)
  <1>1. n = [t \in Targets |-> n[t]]
    <2>1. g = [t \in Targets |-> g[t]]
      BY DEF InForce
    <2>2. CASE n = g
      BY <2>1, <2>2
    <2>3. CASE n = [g EXCEPT ![Target(e)] = VerifiedGrant(e)]
      BY <2>1, <2>3
    <2> QED
      BY <2>2, <2>3 DEF ApplyGrant
  <1>2. ASSUME NEW t \in Targets
        PROVE  IF About(now, t) = {}
               THEN n[t] = None
               ELSE \E h \in About(now, t) :
                      /\ n[t] = VerifiedGrant(h)
                      /\ \A f \in About(now, t) : f.created_at <= h.created_at
    <2>1. CASE ~ (Trusted(e) /\ Target(e) = t)
      <3>1. About(now, t) = About(seen, t)
        BY <2>1 DEF About
      <3>2. n[t] = g[t]
        BY <2>1, <1>2, TrustedEvent DEF ApplyGrant, InForce
      <3> QED
        BY <3>1, <3>2 DEF InForce
    <2>2. CASE Trusted(e) /\ Target(e) = t
      <3>1. About(now, t) = About(seen, t) \cup {e}
        BY <2>2 DEF About
      <3>2. \A f \in About(now, t) : f \in Events /\ f.created_at \in Nat
        BY <3>1, TrustedEvent DEF About
      <3>3. ~ Superseded(g, e) => n[t] = VerifiedGrant(e)
        BY <2>2, <1>2 DEF ApplyGrant, InForce
      <3>4. Superseded(g, e) => n[t] = g[t]
        BY <2>2 DEF ApplyGrant
      <3>5. CASE About(seen, t) = {}
        <4>1. g[t] = None
          BY <3>5, <1>2 DEF InForce
        <4>2. n[t] = VerifiedGrant(e)
          BY <3>3, <4>1, <2>2 DEF Superseded
        <4>3. About(now, t) = {e} /\ e.created_at <= e.created_at
          BY <3>1, <3>2, <3>5
        <4> QED
          BY <4>2, <4>3
      <3>6. CASE About(seen, t) # {}
        <4>1. PICK h \in About(seen, t) :
                /\ g[t] = VerifiedGrant(h)
                /\ \A f \in About(seen, t) : f.created_at <= h.created_at
          BY <3>6, <1>2 DEF InForce
        <4>2. h \in Events /\ Trusted(h)
          BY <4>1 DEF About
        <4>3. g[t] # None /\ g[t].created_at = h.created_at
          BY <4>1, <4>2, TrustedEvent
        <4>4. h \in About(now, t) /\ e \in About(now, t)
          BY <3>1
        <4>5. CASE e.created_at < h.created_at
          <5>1. n[t] = VerifiedGrant(h)
            BY <2>2, <3>4, <4>1, <4>3, <4>5 DEF Superseded
          <5>2. \A f \in About(now, t) : f.created_at <= h.created_at
            BY <3>1, <3>2, <4>1, <4>4, <4>5
          <5> QED
            BY <4>4, <5>1, <5>2
        <4>6. CASE ~ (e.created_at < h.created_at)
          <5>1. n[t] = VerifiedGrant(e)
            BY <2>2, <3>3, <4>3, <4>6 DEF Superseded
          <5>2. ASSUME NEW f \in About(now, t)
                PROVE  f.created_at <= e.created_at
            <6>1. /\ f.created_at \in Nat /\ e.created_at \in Nat
                  /\ h.created_at \in Nat
              BY <3>2, <4>4
            <6>2. f.created_at <= h.created_at \/ f = e
              BY <3>1, <4>1
            <6> QED
              BY <4>6, <6>1, <6>2
          <5> QED
            BY <4>4, <5>1, <5>2
        <4> QED
          BY <4>5, <4>6
      <3> QED
        BY <3>5, <3>6
    <2> QED
      BY <2>1, <2>2
  <1> HIDE DEF now, n
  <1>3. InForce(n, now)
    BY <1>1, <1>2 DEF InForce
  <1> QED
    BY <1>3 DEF n, now

\* A grant that resolve finds is one of the owners' last word.
LEMMA ResolveIsLastWord ==
  ASSUME NEW g, NEW seen \in SUBSET Events, InForce(g, seen),
         NEW c, Resolve(g, c) # None
  PROVE  \E h \in LastWordIn(seen, c) : Resolve(g, c) = VerifiedGrant(h)
  <1> DEFINE t == IF c \in Controllers /\ About(seen, c) # {} THEN c ELSE OTHERS
  <1>1. t \in Targets
    BY DEF Targets
  <1>2. Resolve(g, c) = g[t]
    <2>1. CASE c \in Controllers
      <3>1. c \in Targets
        BY <2>1 DEF Targets
      <3>2. g[c] # None <=> About(seen, c) # {}
        BY <3>1, TrustedEvent DEF InForce, About
      <3> QED
        BY <2>1, <3>2 DEF Resolve
    <2>2. CASE c \notin Controllers
      BY <2>2 DEF Resolve
    <2> QED
      BY <2>1, <2>2
  <1>3. PICK h \in About(seen, t) :
          /\ g[t] = VerifiedGrant(h)
          /\ \A f \in About(seen, t) : f.created_at <= h.created_at
    <2> HIDE DEF t
    <2> QED
      BY <1>1, <1>2 DEF InForce
  <1>4. h \in LastWordIn(seen, c)
    BY <1>3 DEF LastWordIn, About
  <1> QED
    BY <1>2, <1>3, <1>4

\* Recipients are permitted the type by the last word.
LEMMA RecipientPermitted ==
  ASSUME NEW s, NEW g, NEW seen \in SUBSET Events, InForce(g, seen),
         NEW ntype, NEW c \in Recipients(s, g, ntype)
  PROVE  /\ c \in Authors /\ s[c] # None /\ ntype \in s[c].types
         /\ Permits(seen, c, ntype)
  <1>1. /\ c \in Authors /\ s[c] # None /\ ntype \in s[c].types
        /\ Resolve(g, c) # None
        /\ AllowsNotification(Resolve(g, c).profile, ntype)
    BY DEF Recipients, ShouldReceive
  <1>2. PICK h \in LastWordIn(seen, c) : Resolve(g, c) = VerifiedGrant(h)
    BY <1>1, ResolveIsLastWord
  <1> QED
    BY <1>1, <1>2 DEF Permits

\* An event that is no grant changes nothing about the grants in force.
LEMMA OtherInForce ==
  ASSUME NEW g, NEW seen \in SUBSET Events, NEW e \in Events, InForce(g, seen),
         e.kind # GRANT_KIND
  PROVE  InForce(g, seen \cup {e})
  <1>1. ApplyGrant(g, e) = g
    BY DEF ApplyGrant, Trusted
  <1> QED
    BY <1>1, ApplyInForce

\* The registries stay accounted for by the events that arrived, in whatever
\* order they do.
LEMMA RegistryStep ==
  ASSUME RegistryInv, NEW e \in Events, DeliverGrant(e) \/ DeliverSubscription(e)
  PROVE  RegistryInv'
  <1>1. delivered \in SUBSET Events /\ delivered' = delivered \cup {e}
    BY DEF RegistryInv, TypeOK, DeliverGrant, DeliverSubscription
  <1>2. CASE DeliverGrant(e)
    <2>1. grants' = ApplyGrant(grants, e) /\ UNCHANGED <<subs, accepted>>
      BY <1>2 DEF DeliverGrant
    <2>2. InForce(grants, delivered)'
      BY <1>1, <2>1, ApplyInForce DEF RegistryInv
    <2>3. SubsAccepted'
      BY <2>1 DEF RegistryInv, SubsAccepted
    <2>4. TypeOK'
      <3>1. grants' \in [Targets -> {VerifiedGrant(f) : f \in Grantings'} \cup {None}]
        BY <1>1, <2>1, TrustedEvent DEF RegistryInv, TypeOK, ApplyGrant, Grantings
      <3>2. subs' \in [Authors -> {Wanted(f) : f \in Subscriptions'} \cup {None}]
        BY <1>1, <2>1 DEF RegistryInv, TypeOK, Subscriptions
      <3> QED
        BY <1>1, <2>1, <3>1, <3>2 DEF RegistryInv, TypeOK
    <2> QED
      BY <2>2, <2>3, <2>4 DEF RegistryInv
  <1>3. CASE DeliverSubscription(e)
    <2>1. /\ e.kind = SUBSCRIPTION_KIND /\ grants' = grants
          /\ subs' = ApplySubscription(subs, grants, e)
          /\ accepted' = IF SubscriptionAccepted(subs, grants, e)
                         THEN accepted \cup {e} ELSE accepted
      BY <1>3 DEF DeliverSubscription
    <2>2. InForce(grants, delivered)'
      BY <1>1, <2>1, OtherInForce DEF RegistryInv, GRANT_KIND, SUBSCRIPTION_KIND
    <2>3. e.pubkey \in Authors
      BY <2>1, EventsAssumption
    <2>4. SubsAccepted'
      <3> SUFFICES ASSUME NEW a \in Authors, subs'[a] # None
                   PROVE  \E f \in accepted' : f.pubkey = a /\ subs'[a] = Wanted(f)
        BY DEF SubsAccepted
      <3>1. CASE subs'[a] = subs[a]
        BY <2>1, <3>1 DEF RegistryInv, SubsAccepted
      <3>2. CASE subs'[a] # subs[a]
        <4>1. SubscriptionAccepted(subs, grants, e)
          BY <2>1, <3>2 DEF ApplySubscription
        <4>2. a = e.pubkey /\ subs'[a] = Wanted(e)
          BY <2>1, <2>3, <3>2, <4>1 DEF ApplySubscription, RegistryInv, TypeOK
        <4> QED
          BY <2>1, <4>1, <4>2
      <3> QED
        BY <3>1, <3>2
    <2>5. TypeOK'
      <3>1. grants' \in [Targets -> {VerifiedGrant(f) : f \in Grantings'} \cup {None}]
        BY <1>1, <2>1 DEF RegistryInv, TypeOK, Grantings
      <3>2. subs \in [Authors -> {Wanted(f) : f \in Subscriptions'} \cup {None}]
        BY <1>1 DEF RegistryInv, TypeOK, Subscriptions
      <3>3. SubscriptionAccepted(subs, grants, e) /\ e.content.types # {}
              => e \in Subscriptions'
        BY <1>1, <2>1 DEF SubscriptionAccepted, Subscriptions
      <3>4. subs' \in [Authors -> {Wanted(f) : f \in Subscriptions'} \cup {None}]
        BY <2>1, <3>2, <3>3 DEF ApplySubscription
      <3> QED
        BY <1>1, <2>1, <3>1, <3>4 DEF RegistryInv, TypeOK
    <2> QED
      BY <2>2, <2>4, <2>5 DEF RegistryInv
  <1> QED
    BY <1>2, <1>3

\* The registries start accounted for.
LEMMA RegistryInit == Init => RegistryInv
  <1> SUFFICES ASSUME Init PROVE RegistryInv
    OBVIOUS
  <1>1. grants = [t \in Targets |-> None] /\ delivered = {}
    BY DEF Init, NoGrants
  <1>2. InForce(grants, delivered)
    <2>1. \A t : About({}, t) = {}
      BY DEF About
    <2> QED
      BY <1>1, <2>1 DEF InForce
  <1>3. SubsAccepted /\ TypeOK
    BY DEF Init, NoGrants, NoSubscriptions, SubsAccepted, TypeOK
  <1> QED
    BY <1>2, <1>3 DEF RegistryInv

\* Who receives a type asked for it and is permitted it.
LEMMA DeliveryFollows == RegistryInv => DeliveryNeedsBoth
  <1> SUFFICES ASSUME RegistryInv, NEW ntype \in Types,
                      NEW c \in Recipients(subs, grants, ntype)
               PROVE  /\ \E e \in accepted : e.pubkey = c /\ ntype \in e.content.types
                      /\ \E g \in LastWord(c) :
                           AllowsNotification(VerifiedGrant(g).profile, ntype)
    BY DEF DeliveryNeedsBoth
  <1>1. delivered \in SUBSET Events /\ InForce(grants, delivered)
    BY DEF RegistryInv, TypeOK
  <1>2. /\ c \in Authors /\ subs[c] # None /\ ntype \in subs[c].types
        /\ Permits(delivered, c, ntype)
    BY <1>1, RecipientPermitted
  <1>3. PICK e \in accepted : e.pubkey = c /\ subs[c] = Wanted(e)
    BY <1>2 DEF RegistryInv, SubsAccepted
  <1>4. ntype \in e.content.types
    BY <1>2, <1>3 DEF Wanted
  <1>5. LastWord(c) = LastWordIn(delivered, c)
    BY DEF LastWord, LastWordIn, Newest, Arrived
  <1> QED
    BY <1>2, <1>3, <1>4, <1>5 DEF Permits

\* Any history of deliveries keeps the registries accounted for.
LEMMA AlwaysRegistryInv == Spec => []RegistryInv
  <1>1. RegistryInv /\ [Next]_vars => RegistryInv'
    <2> SUFFICES ASSUME RegistryInv, [Next]_vars PROVE RegistryInv'
      OBVIOUS
    <2>1. CASE Next
      BY <2>1, RegistryStep DEF Next
    <2>2. CASE UNCHANGED vars
      BY <2>2 DEF vars, RegistryInv, TypeOK, InForce, SubsAccepted, Grantings,
                  Subscriptions, About
    <2> QED
      BY <2>1, <2>2
  <1> QED
    BY <1>1, RegistryInit, PTL DEF Spec

\* The registries only ever hold what passed the checks of the two apply.
THEOREM TypeCorrect == Spec => []TypeOK
  <1>1. RegistryInv => TypeOK
    BY DEF RegistryInv
  <1> QED
    BY <1>1, AlwaysRegistryInv, PTL

\* Recipients: for every set of events and every order of arrival, whoever
\* receives a type asked for it, and the owners' last word permits it.
THEOREM DeliveryAlwaysNeedsBoth == Spec => []DeliveryNeedsBoth
  BY AlwaysRegistryInv, DeliveryFollows, PTL

\* Only an unsubscription makes the registry forget a subscription, and only
\* one that is as new.
LEMMA RememberedStep ==
  ASSUME TypeOK, TypeOK', OnlyUnsubscriptionForgets, [Next]_vars
  PROVE  OnlyUnsubscriptionForgets'
  <1>1. CASE UNCHANGED <<subs, accepted>>
    BY <1>1 DEF OnlyUnsubscriptionForgets
  <1>2. ASSUME NEW x \in Events, DeliverSubscription(x),
               SubscriptionAccepted(subs, grants, x)
        PROVE  OnlyUnsubscriptionForgets'
    <2> DEFINE a == x.pubkey
    <2>1. /\ a \in Authors /\ accepted' = accepted \cup {x}
          /\ subs' = [subs EXCEPT ![a] = IF x.content.types = {} THEN None ELSE Wanted(x)]
      BY <1>2, EventsAssumption DEF DeliverSubscription, ApplySubscription
    <2>2. /\ subs'[a] = (IF x.content.types = {} THEN None ELSE Wanted(x))
          /\ \A b : b # a => subs'[b] = subs[b]
      BY <2>1 DEF TypeOK
    <2>3. subs[a] = None \/ ~ (x.created_at < subs[a].created_at)
      BY <1>2 DEF SubscriptionAccepted, SubscriptionSuperseded
    <2>4. /\ x.created_at \in Nat /\ \A e \in accepted : e.created_at \in Nat
          /\ subs[a] # None => subs[a].created_at \in Nat
      BY <2>1, EventsAssumption DEF TypeOK, Subscriptions, Wanted
    <2>5. x.content.types # {} => subs'[a] # None /\ subs'[a].created_at = x.created_at
      BY <1>2, <2>2, EventsAssumption DEF Wanted, SubscriptionAccepted
    <2> SUFFICES ASSUME NEW e \in accepted'
                 PROVE  \/ subs'[e.pubkey] # None
                           /\ subs'[e.pubkey].created_at >= e.created_at
                        \/ \E u \in accepted' : /\ u.pubkey = e.pubkey
                                                /\ u.content.types = {}
                                                /\ u.created_at >= e.created_at
      BY DEF OnlyUnsubscriptionForgets
    <2> HIDE DEF a
    <2>6. CASE e = x
      BY <2>1, <2>4, <2>5, <2>6 DEF a
    <2>7. CASE e \in accepted /\ e.pubkey # a
      BY <2>1, <2>2, <2>7 DEF OnlyUnsubscriptionForgets
    <2>8. CASE e \in accepted /\ e.pubkey = a
      <3>1. CASE subs[a] # None /\ subs[a].created_at >= e.created_at
        <4>1. x.created_at >= e.created_at
          BY <2>3, <2>4, <2>8, <3>1
        <4> QED BY <2>1, <2>5, <2>8, <4>1 DEF a
      <3>2. CASE \E u \in accepted : /\ u.pubkey = e.pubkey /\ u.content.types = {}
                                     /\ u.created_at >= e.created_at
        BY <2>1, <3>2
      <3> QED BY <2>8, <3>1, <3>2 DEF OnlyUnsubscriptionForgets
    <2> QED BY <2>1, <2>6, <2>7, <2>8
  <1>3. \/ UNCHANGED <<subs, accepted>>
        \/ \E x \in Events : DeliverSubscription(x) /\ SubscriptionAccepted(subs, grants, x)
    BY DEF Next, DeliverGrant, DeliverSubscription, ApplySubscription, vars
  <1> QED BY <1>1, <1>2, <1>3

\* What a controller asked for is not forgotten: in every history, with late
\* and repeated events, revocations and grants that come back, an accepted
\* subscription or a newer one is in force unless its author unsubscribed.
THEOREM AlwaysRemembered == Spec => []OnlyUnsubscriptionForgets
  <1>1. Init => OnlyUnsubscriptionForgets
    BY DEF Init, OnlyUnsubscriptionForgets
  <1> QED
    BY <1>1, RememberedStep, TypeCorrect, PTL DEF Spec

\* As long as the owners wrote nothing for OTHERS, an entry is of a controller
\* that they wrote a grant for.
KeyedByGrant ==
  Arrived(OTHERS) = {} =>
    \A a \in Authors : subs[a] # None => \E g \in Grantings : Target(g) = a

\* The NoGrant check of apply makes it so, and nothing takes a grant away.
LEMMA KeyedStep ==
  ASSUME RegistryInv, KeyedByGrant, [Next]_vars
  PROVE  KeyedByGrant'
  <1>1. delivered \subseteq delivered' /\ delivered \in SUBSET Events
    BY DEF Next, DeliverGrant, DeliverSubscription, vars, RegistryInv, TypeOK
  <1> SUFFICES ASSUME Arrived(OTHERS)' = {}, NEW a \in Authors, subs'[a] # None
               PROVE  \E g \in Grantings' : Target(g) = a
    BY DEF KeyedByGrant
  <1>2. Arrived(OTHERS) = {} /\ Grantings \subseteq Grantings'
    BY <1>1 DEF Arrived, Grantings
  <1>3. CASE subs'[a] = subs[a]
    BY <1>2, <1>3 DEF KeyedByGrant
  <1>4. CASE subs'[a] # subs[a]
    <2>1. PICK e \in Events : DeliverSubscription(e)
      BY <1>4 DEF Next, DeliverGrant, vars
    <2>2. SubscriptionAccepted(subs, grants, e) /\ a = e.pubkey
      BY <1>4, <2>1 DEF DeliverSubscription, ApplySubscription, RegistryInv, TypeOK
    <2>3. Resolve(grants, a) # None
      BY <2>2 DEF SubscriptionAccepted
    <2>4. OTHERS \in Targets /\ About(delivered, OTHERS) = {}
      BY <1>2 DEF Targets, About, Arrived
    <2>5. grants[OTHERS] = None
      BY <2>4 DEF RegistryInv, InForce
    <2>6. a \in Targets /\ grants[a] # None
      BY <2>3, <2>5 DEF Resolve, Targets
    <2>7. About(delivered, a) # {}
      BY <2>6 DEF RegistryInv, InForce
    <2> QED
      BY <1>2, <2>7 DEF About, Grantings
  <1> QED
    BY <1>3, <1>4

\* The registry is "bounded by what the owner wrote" (subscription.rs,
\* Rejected::NoGrant) for every history in which no grant for OTHERS has
\* arrived, with revocations, unsubscriptions and events of strangers in it.
THEOREM AlwaysBoundedByGrants ==
  ASSUME IsFiniteSet(Events)
  PROVE  Spec => []BoundedByGrants
  <1>1. Init => KeyedByGrant
    BY DEF Init, KeyedByGrant, NoSubscriptions
  <1>2. RegistryInv /\ KeyedByGrant /\ [Next]_vars => KeyedByGrant'
    BY KeyedStep
  <1>3. RegistryInv /\ KeyedByGrant => BoundedByGrants
    <2> SUFFICES ASSUME RegistryInv, KeyedByGrant, Arrived(OTHERS) = {}
                 PROVE  Cardinality({a \in Authors : subs[a] # None})
                          <= Cardinality({Target(e) : e \in Grantings})
      BY DEF BoundedByGrants
    <2> DEFINE holders == {Target(e) : e \in Grantings}
               target == [e \in Grantings |-> Target(e)]
    <2>1. IsFiniteSet(Grantings)
      BY FS_Subset DEF RegistryInv, TypeOK, Grantings
    <2>2. target \in Surjection(Grantings, holders)
      BY DEF Surjection
    <2>3. IsFiniteSet(holders)
      BY <2>1, <2>2, FS_Surjection
    <2>4. {a \in Authors : subs[a] # None} \in SUBSET holders
      BY DEF KeyedByGrant
    <2> HIDE DEF holders
    <2>5. Cardinality({a \in Authors : subs[a] # None}) <= Cardinality(holders)
      BY <2>3, <2>4, FS_Subset
    <2> QED
      BY <2>5 DEF holders
  <1> QED
    BY <1>1, <1>2, <1>3, AlwaysRegistryInv, PTL DEF Spec

-----------------------------------------------------------------------------
(* The Notifier beside the loop.                                           *)

\* The calls of a scene are calls, its events are events.
LEMMA SceneFacts ==
  ASSUME LoopOK
  PROVE  scene.events \subseteq Events /\ scene.calls \subseteq Calls
  BY NotifierAssumption DEF LoopOK, Calls

\* A call that no step touches stays as it is.
LEMMA CallUntouched ==
  ASSUME NEW d, CallOK(d),
         queue'[d] = queue[d], log'[d] = log[d], start'[d] = start[d]
  PROVE  CallOK(d)'
  BY DEF CallOK, Tos, Sends, Tagged, Subscribed

\* What Addressed computes: one recipient for each of those the call is due
\* to, with the tags of its cause.
LEMMA AddressedOnce ==
  ASSUME NEW d \in Calls
  PROVE  LET sub == Recipients(delivery.subs, delivery.grants, d.type)
         IN  /\ Addressed(d) \in SUBSET Recipient
             /\ {r.to : r \in Addressed(d)} = (sub \cup {d.caller}) \ {None}
             /\ \A r \in Addressed(d) :
                  (r.e <=> r.to = d.caller) /\ (r.a <=> r.to \in sub)
  <1> DEFINE sub == Recipients(delivery.subs, delivery.grants, d.type)
  <1>1. sub \subseteq Authors /\ None \notin sub
    BY NotifierAssumption DEF Recipients
  <1>2. d.caller \in Authors \cup {None} /\ None \notin Authors
    BY NotifierAssumption
  <1> HIDE DEF sub
  <1>3. Addressed(d) =
          {Subscription(c) : c \in sub \ {d.caller}}
            \cup IF d.caller = None THEN {}
                 ELSE {IF d.caller \in sub THEN Both(d.caller) ELSE Command(d.caller)}
    BY DEF Addressed, Subscribers, sub
  <1>4. \A c : Subscription(c).to = c /\ Both(c).to = c /\ Command(c).to = c
    BY DEF Subscription, Both, Command
  <1>5. \A c : /\ ~ Subscription(c).e /\ Subscription(c).a
               /\ Both(c).e /\ Both(c).a /\ Command(c).e /\ ~ Command(c).a
    BY DEF Subscription, Both, Command
  <1>6. \A c \in Authors : /\ Subscription(c) \in Recipient
                           /\ Both(c) \in Recipient /\ Command(c) \in Recipient
    BY DEF Subscription, Both, Command, Recipient
  <1>7. Addressed(d) \in SUBSET Recipient
    BY <1>1, <1>2, <1>3, <1>6
  <1>8. {r.to : r \in Addressed(d)} = (sub \cup {d.caller}) \ {None}
    <2>1. CASE d.caller = None
      BY <1>1, <1>3, <1>4, <2>1
    <2>2. CASE d.caller # None
      <3>1. PICK r \in {Both(d.caller), Command(d.caller)} :
              Addressed(d) = {Subscription(c) : c \in sub \ {d.caller}} \cup {r}
        BY <1>3, <2>2
      <3>2. r.to = d.caller
        BY <3>1, <1>4
      <3> QED
        BY <1>1, <1>4, <2>2, <3>1, <3>2
    <2> QED
      BY <2>1, <2>2
  <1>9. ASSUME NEW r \in Addressed(d)
        PROVE  (r.e <=> r.to = d.caller) /\ (r.a <=> r.to \in sub)
    <2>1. CASE \E c \in sub \ {d.caller} : r = Subscription(c)
      BY <1>4, <1>5, <2>1
    <2>2. CASE r = Both(d.caller) /\ d.caller \in sub
      BY <1>4, <1>5, <2>2
    <2>3. CASE r = Command(d.caller) /\ d.caller \notin sub
      BY <1>4, <1>5, <2>3
    <2> QED
      BY <1>3, <1>9, <2>1, <2>2, <2>3
  <1> QED
    BY <1>7, <1>8, <1>9 DEF sub

\* One send, whether it fails or not, takes its recipient from those that
\* wait to those that were sent to.
LEMMA SendStep ==
  ASSUME CallsOK, NEW d \in Calls, queue[d] # None, NEW r \in queue[d],
         NEW ok \in BOOLEAN, Attempt(d, r, ok),
         queue' = [queue EXCEPT ![d] = @ \ {r}], start' = start
  PROVE  CallsOK'
  <1> DEFINE s == [to |-> r.to, e |-> r.e, a |-> r.a, ok |-> ok]
             n == Len(log[d])
  <1>1. log' = [log EXCEPT ![d] = Append(log[d], s)]
    BY DEF Attempt
  <1>2. CallOK(d) /\ log[d] \in Seq(Sending) /\ n \in Nat
    BY DEF CallsOK
  <1>3. r \in Recipient /\ s \in Sending
    BY <1>2 DEF CallOK, Recipient, Sending
  <1>4. s.to = r.to /\ (s.e <=> r.e) /\ (s.a <=> r.a)
    OBVIOUS
  <1> HIDE DEF s
  <1>5. log' \in [Calls -> Seq(Sending)] /\ log'[d] = Append(log[d], s)
    BY <1>1, <1>2, <1>3 DEF CallsOK
  <1>6. queue'[d] = queue[d] \ {r} /\ DOMAIN queue' = Calls
    BY DEF CallsOK
  <1>7. /\ DOMAIN log[d] = 1..n /\ DOMAIN log'[d] = 1..(n + 1)
        /\ log'[d][n + 1] = s
        /\ \A i \in 1..n : log'[d][i] = log[d][i]
    BY <1>2, <1>3, <1>5
  <1> HIDE DEF n
  <1>8. Sends(d)' = Sends(d) \cup {s}
    BY <1>2, <1>7 DEF Sends
  <1>9. \A q \in queue[d] : q.to = r.to => q = r
    <2> SUFFICES ASSUME NEW q \in queue[d], q.to = r.to PROVE q = r
      OBVIOUS
    <2>1. q \in Recipient /\ Tagged(q, d) /\ Tagged(r, d)
      BY <1>2 DEF CallOK
    <2>2. (q.e <=> r.e) /\ (q.a <=> r.a)
      BY <2>1 DEF Tagged
    <2>3. q.e = r.e /\ q.a = r.a
      BY <1>3, <2>1, <2>2 DEF Recipient
    <2> QED
      BY <1>3, <2>1, <2>3 DEF Recipient
  <1>10. CallOK(d)'
    <2>1. queue'[d] \in SUBSET Recipient /\ queue'[d] # None
      <3>1. queue'[d] \in SUBSET Recipient
        BY <1>2, <1>6 DEF CallOK
      <3> QED
        BY <3>1, NotifierAssumption DEF Recipient
    <2>2. \A i, j \in DOMAIN log'[d] : log'[d][i].to = log'[d][j].to => i = j
      <3> SUFFICES ASSUME NEW i \in DOMAIN log'[d], NEW j \in DOMAIN log'[d],
                          log'[d][i].to = log'[d][j].to
                   PROVE  i = j
        OBVIOUS
      <3>1. \A k \in 1..n : log[d][k].to # s.to
        <4>1. \A k \in 1..n : log[d][k] \in Sends(d)
          BY <1>7 DEF Sends
        <4>2. \A t \in Sends(d) : t.to # r.to
          BY <1>2 DEF CallOK
        <4> QED
          BY <1>4, <4>1, <4>2
      <3>2. \A k \in 1..(n + 1) : k \in 1..n \/ k = n + 1
        BY <1>2
      <3>3. \A k, l \in 1..n : log[d][k].to = log[d][l].to => k = l
        BY <1>2, <1>7 DEF CallOK
      <3> QED
        BY <1>7, <3>1, <3>2, <3>3
    <2>3. \A t \in Sends(d)', q \in queue'[d] : t.to # q.to
      <3>1. \A t \in Sends(d), q \in queue[d] : t.to # q.to
        BY <1>2 DEF CallOK
      <3>2. \A q \in queue'[d] : q \in queue[d] /\ q.to # s.to
        BY <1>4, <1>6, <1>9
      <3> QED
        BY <1>8, <3>1, <3>2
    <2>4. Subscribed(d)' = Subscribed(d)
      BY DEF Subscribed
    <2>5. Tos(d)' = (Subscribed(d)' \cup {d.caller}) \ {None}
      <3>1. Tos(d)' = Tos(d)
        BY <1>4, <1>6, <1>8 DEF Tos
      <3> QED
        BY <1>2, <2>4, <3>1 DEF CallOK
    <2>6. \A t \in Sends(d)' \cup queue'[d] : Tagged(t, d)'
      <3>1. \A t \in Sends(d) \cup queue[d] : Tagged(t, d)
        BY <1>2 DEF CallOK
      <3>2. Tagged(s, d)
        BY <1>4, <3>1 DEF Tagged
      <3>3. \A t : Tagged(t, d)' <=> Tagged(t, d)
        BY <2>4 DEF Tagged
      <3> QED
        BY <1>6, <1>8, <3>1, <3>2, <3>3
    <2>7. /\ start'[d].told \subseteq Events
          /\ InForce(start'[d].copy.grants, start'[d].told)
      BY <1>2 DEF CallOK
    <2> QED
      BY <2>1, <2>2, <2>3, <2>5, <2>6, <2>7 DEF CallOK
  <1>11. ASSUME NEW f \in Calls, f # d PROVE CallOK(f)'
    BY <1>1, <1>11, CallUntouched DEF CallsOK
  <1> QED
    BY <1>5, <1>6, <1>10, <1>11 DEF CallsOK

\* Deliver starts a call with the copy of that moment.
LEMMA DeliverStep ==
  ASSUME IInv, NEW d \in Calls, Deliver(d)
  PROVE  CallsOK' /\ LoopOK'
  <1>1. /\ queue[d] = None /\ queue' = [queue EXCEPT ![d] = Addressed(d)]
        /\ start' = [start EXCEPT ![d] = [copy |-> delivery, told |-> told]]
        /\ log' = log /\ handling' = IF d.within THEN d ELSE handling
        /\ d.within => handling = None /\ batch = 0
        /\ UNCHANGED <<scene, batch, delivery, told, delivered>>
    BY DEF Deliver
  <1>2. CallsOK /\ LoopOK
    BY DEF IInv
  <1>3. /\ queue'[d] = Addressed(d) /\ log'[d] = << >>
        /\ start'[d] = [copy |-> delivery, told |-> told]
        /\ DOMAIN queue' = Calls /\ DOMAIN start' = Calls
    BY <1>1, <1>2 DEF CallsOK, CallOK
  <1>4. start'[d].copy = delivery /\ start'[d].told = told
    BY <1>3
  <1>5. Subscribed(d)' = Recipients(delivery.subs, delivery.grants, d.type)
    BY <1>4 DEF Subscribed
  <1>6. CallOK(d)'
    <2>1. Sends(d)' = {} /\ DOMAIN log'[d] = {}
      BY <1>3 DEF Sends
    <2>2. queue'[d] \in SUBSET Recipient
      BY <1>3, AddressedOnce
    <2>3. queue'[d] # None
      BY <2>2, NotifierAssumption DEF Recipient
    <2>4. Tos(d)' = (Subscribed(d)' \cup {d.caller}) \ {None}
      BY <1>3, <1>5, <2>1, AddressedOnce DEF Tos
    <2>5. \A s \in queue'[d] : Tagged(s, d)'
      BY <1>3, <1>5, AddressedOnce DEF Tagged
    <2>6. /\ start'[d].told \subseteq Events
          /\ InForce(start'[d].copy.grants, start'[d].told)
      BY <1>2, <1>4 DEF LoopOK
    <2> QED
      BY <2>1, <2>2, <2>3, <2>4, <2>5, <2>6 DEF CallOK
  <1>7. ASSUME NEW f \in Calls, f # d PROVE CallOK(f)'
    BY <1>1, <1>2, <1>7, CallUntouched DEF CallsOK
  <1>8. CallsOK'
    BY <1>1, <1>2, <1>3, <1>6, <1>7 DEF CallsOK
  <1>9. ASSUME handling' # None
        PROVE  /\ handling' \in Calls /\ batch' = 0
               /\ queue'[handling'] # None /\ start'[handling'].told = delivered'
    <2>1. CASE d.within
      <3>1. handling' = d /\ batch' = 0
        BY <1>1, <2>1
      <3>2. start'[d].told = delivered'
        BY <1>1, <1>2, <1>4, <3>1 DEF LoopOK
      <3>3. queue'[d] # None
        BY <1>3, AddressedOnce, NotifierAssumption DEF Recipient
      <3> QED
        BY <3>1, <3>2, <3>3
    <2>2. CASE ~ d.within
      <3>1. handling' = handling /\ handling # d
        BY <1>1, <1>2, <1>9, <2>2 DEF LoopOK
      <3> QED
        BY <1>1, <1>2, <1>9, <3>1 DEF LoopOK, CallsOK
    <2> QED
      BY <2>1, <2>2
  <1>10. LoopOK'
    BY <1>1, <1>2, <1>9 DEF LoopOK, InForce, About
  <1> QED
    BY <1>8, <1>10

\* A step of the loop leaves the calls alone.
LEMMA CallsUntouched ==
  ASSUME CallsOK, UNCHANGED calls
  PROVE  CallsOK'
  <1>1. queue' = queue /\ log' = log /\ start' = start
    BY DEF calls
  <1> QED
    BY <1>1, CallUntouched DEF CallsOK

\* A step of a call leaves the registries alone.
LEMMA RegistryUntouched ==
  ASSUME RegistryInv, UNCHANGED <<grants, subs, delivered, accepted>>
  PROVE  RegistryInv'
  BY DEF RegistryInv, TypeOK, InForce, SubsAccepted, Grantings, Subscriptions, About

\* The loop's invariant depends on its own state, the events delivered and the
\* call being handled.
LEMMA LoopUntouched ==
  ASSUME LoopOK, UNCHANGED <<scene, loop, delivered, start>>,
         handling # None => queue'[handling] # None
  PROVE  LoopOK'
  <1>1. UNCHANGED <<scene, batch, handling, delivery, told, delivered, start>>
    BY DEF loop
  <1> QED
    BY <1>1 DEF LoopOK, InForce, About

\* Every step of the loop and of the calls keeps the invariant.
LEMMA NextIInv == IInv /\ [NotifierNext]_notifierVars => IInv'
  <1> SUFFICES ASSUME IInv, [NotifierNext]_notifierVars PROVE IInv'
    OBVIOUS
  <1>0. RegistryInv /\ LoopOK /\ CallsOK
    BY DEF IInv
  <1>1. ASSUME NEW e \in scene.events, Apply(e) PROVE IInv'
    <2>1. e \in Events /\ e.created_at \in Nat /\ e.created_at # 0
      BY <1>0, SceneFacts, TrustedEvent, NotifierAssumption
    <2>2. /\ handling = None /\ batch' = e.created_at
          /\ DeliverGrant(e) \/ DeliverSubscription(e)
          /\ UNCHANGED <<scene, handling, delivery, told, calls>>
      BY <1>1 DEF Apply
    <2>3. LoopOK'
      BY <1>0, <2>1, <2>2 DEF LoopOK, InForce, About
    <2> QED
      BY <1>0, <2>1, <2>2, <2>3, RegistryStep, CallsUntouched DEF IInv
  <1>2. CASE Mirror
    <2>1. /\ batch # 0 /\ batch' = 0 /\ told' = delivered
          /\ delivery' = [grants |-> grants, subs |-> subs]
          /\ UNCHANGED <<scene, handling, grants, subs, delivered, accepted, calls>>
      BY <1>2 DEF Mirror
    <2>2. handling = None
      BY <1>0, <2>1 DEF LoopOK
    <2>3. delivered \subseteq Events /\ InForce(grants, delivered)
      BY <1>0 DEF RegistryInv, TypeOK
    <2>4. InForce(delivery.grants, told)'
      <3>1. delivery'.grants = grants
        BY <2>1
      <3> QED
        BY <2>1, <2>3, <3>1 DEF InForce, About
    <2>5. LoopOK'
      BY <1>0, <2>1, <2>2, <2>3, <2>4 DEF LoopOK
    <2> QED
      BY <1>0, <2>1, <2>5, RegistryUntouched, CallsUntouched DEF IInv
  <1>3. ASSUME NEW d \in scene.calls, Deliver(d) PROVE IInv'
    <2>1. d \in Calls /\ UNCHANGED <<grants, subs, delivered, accepted>>
      BY <1>0, <1>3, SceneFacts DEF Deliver
    <2> QED
      BY <1>0, <1>3, <2>1, DeliverStep, RegistryUntouched DEF IInv
  <1>4. ASSUME NEW d \in scene.calls, HandlerReturns(d) PROVE IInv'
    <2>1. /\ handling' = None
          /\ UNCHANGED <<scene, batch, delivery, told, calls, grants, subs,
                         delivered, accepted>>
      BY <1>4 DEF HandlerReturns
    <2>2. LoopOK'
      BY <1>0, <2>1 DEF LoopOK, InForce, About
    <2> QED
      BY <1>0, <2>1, <2>2, RegistryUntouched, CallsUntouched DEF IInv
  <1>5. ASSUME NEW d \in scene.calls, queue[d] # None, NEW r \in queue[d],
               NotifyOk(d, r) \/ NotifyFails(d, r)
        PROVE  IInv'
    <2>1. PICK ok \in BOOLEAN : Attempt(d, r, ok)
      BY <1>5 DEF NotifyOk, NotifyFails
    <2>2. /\ queue' = [queue EXCEPT ![d] = @ \ {r}] /\ d \in Calls
          /\ UNCHANGED <<scene, loop, start, grants, subs, delivered, accepted>>
      BY <1>0, <1>5, SceneFacts DEF NotifyOk, NotifyFails
    <2>3. CallsOK'
      BY <1>0, <1>5, <2>1, <2>2, SendStep
    <2>4. handling # None => queue'[handling] # None
      <3> SUFFICES ASSUME handling # None PROVE queue'[handling] # None
        OBVIOUS
      <3>1. handling \in Calls /\ queue[handling] # None
        BY <1>0 DEF LoopOK
      <3>2. CASE handling # d
        BY <1>0, <2>2, <3>1, <3>2 DEF CallsOK
      <3>3. CASE handling = d
        <4>1. queue'[d] = queue[d] \ {r} /\ queue[d] \in SUBSET Recipient
          BY <1>0, <1>5, <2>2 DEF CallsOK, CallOK
        <4> QED
          BY <3>3, <4>1, NotifierAssumption DEF Recipient
      <3> QED
        BY <3>2, <3>3
    <2> QED
      BY <1>0, <2>2, <2>3, <2>4, LoopUntouched, RegistryUntouched DEF IInv
  <1>6. CASE UNCHANGED notifierVars
    <2>1. UNCHANGED <<grants, subs, delivered, accepted, scene, loop, calls, start, queue>>
      BY <1>6 DEF notifierVars, vars, calls
    <2>2. handling # None => queue'[handling] # None
      BY <1>0, <2>1 DEF LoopOK
    <2> QED
      BY <1>0, <2>1, <2>2, LoopUntouched, RegistryUntouched, CallsUntouched DEF IInv
  <1> QED
    BY <1>1, <1>2, <1>3, <1>4, <1>5, <1>6 DEF NotifierNext

\* Before the first event and the first call the invariant holds.
LEMMA InitIInv == NotifierInit => IInv
  <1> SUFFICES ASSUME NotifierInit PROVE IInv
    OBVIOUS
  <1>1. RegistryInv /\ InForce(NoGrants, {})
    BY RegistryInit DEF NotifierInit, RegistryInv, Init
  <1>2. LoopOK
    <2>1. delivery.grants = NoGrants
      BY DEF NotifierInit
    <2> QED
      BY <1>1, <2>1 DEF NotifierInit, Init, LoopOK
  <1>3. CallsOK
    BY DEF NotifierInit, CallsOK, CallOK
  <1> QED
    BY <1>1, <1>2, <1>3 DEF IInv

\* The invariant of the whole.
LEMMA AlwaysIInv == NotifierSpec => []IInv
  BY InitIInv, NextIInv, PTL DEF NotifierSpec

\* The loop beside its Notifier applies events as the registries alone do:
\* what holds of Registry holds here.
THEOREM ImplementsRegistry == NotifierSpec => Spec
  <1>1. NotifierInit => Init
    BY DEF NotifierInit
  <1>2. IInv /\ [NotifierNext]_notifierVars => [Next]_vars
    <2> SUFFICES ASSUME IInv, [NotifierNext]_notifierVars PROVE [Next]_vars
      OBVIOUS
    <2>1. ASSUME NEW e \in scene.events, Apply(e) PROVE Next
      <3>1. e \in Events
        BY <2>1, SceneFacts DEF IInv
      <3> QED
        BY <2>1, <3>1 DEF Apply, Next
    <2>2. ASSUME UNCHANGED <<grants, subs, delivered, accepted>> PROVE UNCHANGED vars
      BY <2>2 DEF vars
    <2> QED
      BY <2>1, <2>2 DEF NotifierNext, Mirror, Deliver, HandlerReturns, NotifyOk,
                        NotifyFails, notifierVars, vars
  <1> QED
    BY <1>1, <1>2, AlwaysIInv, PTL DEF NotifierSpec, Spec

\* deliver: whatever fails and whatever arrives in between, a call that is
\* through has made one send to its caller and one to each subscriber.
THEOREM EveryoneAlwaysOnce == NotifierSpec => []EveryoneOnce
  <1>1. IInv => EveryoneOnce
    <2> SUFFICES ASSUME IInv, NEW d \in Calls, queue[d] = {}
                 PROVE  /\ \A i, j \in DOMAIN log[d] :
                             log[d][i].to = log[d][j].to => i = j
                        /\ {s.to : s \in Sends(d)} = (Subscribed(d) \cup {d.caller}) \ {None}
                        /\ \A s \in Sends(d) : /\ s.e = (s.to = d.caller)
                                               /\ s.a = (s.to \in Subscribed(d))
      BY DEF EveryoneOnce, Subscribed
    <2>1. CallOK(d) /\ log[d] \in Seq(Sending)
      BY DEF IInv, CallsOK
    <2>2. queue[d] # None
      BY NotifierAssumption DEF Recipient
    <2>3. \A s \in Sends(d) : s \in Sending /\ Tagged(s, d)
      BY <2>1, <2>2 DEF CallOK, Sends
    <2>4. \A s \in Sends(d) : s.e \in BOOLEAN /\ s.a \in BOOLEAN
      BY <2>3 DEF Sending
    <2>5. \A s \in Sends(d) : /\ s.e = (s.to = d.caller)
                              /\ s.a = (s.to \in Subscribed(d))
      BY <2>3, <2>4 DEF Tagged
    <2>6. {s.to : s \in Sends(d)} = (Subscribed(d) \cup {d.caller}) \ {None}
      BY <2>1, <2>2 DEF CallOK, Tos
    <2> QED
      BY <2>1, <2>2, <2>5, <2>6 DEF CallOK
  <1> QED
    BY <1>1, AlwaysIInv, PTL

\* deliver: nobody is sent to as a subscriber against the owners' last word
\* at the start of the call, and within a handler not even against the one
\* that holds at the send.
THEOREM AlwaysSentByLastWord == NotifierSpec => []SentByLastWord
  <1>1. IInv => SentByLastWord
    <2> SUFFICES ASSUME IInv, NEW d \in Calls, queue[d] # None,
                        NEW s \in Sends(d) \cup queue[d], s.a
                 PROVE  /\ Permits(start[d].told, s.to, d.type)
                        /\ handling = d => Permits(delivered, s.to, d.type)
      BY DEF SentByLastWord
    <2>1. /\ s.to \in Subscribed(d) /\ start[d].told \in SUBSET Events
          /\ InForce(start[d].copy.grants, start[d].told)
      BY DEF IInv, CallsOK, CallOK, Tagged
    <2>2. Permits(start[d].told, s.to, d.type)
      BY <2>1, RecipientPermitted DEF Subscribed
    <2>3. handling = d => start[d].told = delivered
      BY NotifierAssumption DEF IInv, LoopOK
    <2> QED
      BY <2>2, <2>3
  <1> QED
    BY <1>1, AlwaysIInv, PTL
=============================================================================
