--------------------------- MODULE ServiceProofs ---------------------------
(***************************************************************************)
(* Proofs about Service::run (service/transport.rs) for every set of       *)
(* relays, events and requests, and any number of lost connections and     *)
(* crashes: no request is handled again once it was answered, the          *)
(* registries catch up with the relays, and no request is let through on   *)
(* stale grants.  The last two rest on an undisturbed startup, the last    *)
(* also on there being one relay: without that the code does not have the  *)
(* property.  Both except what a stream of bounded capacity did not keep.  *)
(***************************************************************************)
EXTENDS Service, CommonProofs

-----------------------------------------------------------------------------
(* The inductive invariants.                                               *)

Events == Durable \cup Requests

\* Where events can be: what the relays hold and send was published, what is
\* in the stream was seen, and each only once.
Flow ==
  /\ \A r \in Relays : stored[r] \cup ToSet(wire[r]) \subseteq published
  /\ \A r \in Relays \ up : wire[r] = << >>
  /\ pc = "down" => wire = Unsent /\ seen = {}
  /\ ~ StreamTaken => queue = << >>
  /\ ~ Refreshing => fetched = << >>
  /\ ToSet(queue) \subseteq seen
  /\ \A i, j \in DOMAIN queue : queue[i] = queue[j] => i = j

\* A request that was answered, or that a handler works for, will not come
\* again.
OnceOnly ==
  /\ ToSet(queue) \cap (answered \cup unreplied) = {}
  /\ serving # None => serving \in seen \ ToSet(queue)
  /\ \A r \in Relays : ToSet(wire[r]) \cap (answered \cup unreplied) \subseteq seen

\* A subscribed client has seen what a connected relay holds, or will.
SeenOrSent ==
  Subscribed => \A r \in up : stored[r] \subseteq seen \cup ToSet(wire[r])

Mirrored == ~ Refreshing => mirror = Current

BaseInv == TypeOK /\ Flow /\ OnceOnly /\ SeenOrSent /\ Mirrored

Covered(e) == AsNewAs(grants[Target(e)], e)

\* e is in force or something newer is, or the loop skipped it.
Settled(e) == Covered(e) \/ Missed(e)

\* The same, or it will be in force when what was fetched and what is in the
\* stream has been applied.
Supplied(e) ==
  Settled(e) \/ \E f \in ToSet(queue) \cup ToSet(fetched) : Renews(f, e)

\* The startup is undisturbed: what was seen or sent in its course is what the
\* relays hold, so that the fetch has it; later all that was seen is applied.
SyncInv ==
  /\ Starting => /\ up # {}
                 /\ seen \cap Durable \subseteq Fetchable
                 /\ \A r \in Relays : ToSet(wire[r]) \cap Durable \subseteq Fetchable
  /\ pc \in {"refreshing", "refreshed"} =>
       \A e \in Fetchable \cap GrantEvents : Supplied(e)
  /\ StreamTaken => \A e \in seen \cap GrantEvents : Supplied(e)

\* Something as new as e comes before position i of s.
Precedes(s, i, e) == \E j \in 1 .. (i - 1) : Renews(s[j], e)

\* With one relay: it holds something as new as whatever was published.
HoldsNewest(r) ==
  \A e \in published \cap GrantEvents : \E f \in stored[r] : Renews(f, e)

\* Whatever was published before a request is applied, or will be, or is ahead
\* of the request on the wire; in the stream likewise, where an event that is
\* behind the request does not count; and applied once the request is served.
WireAhead(r) ==
  pc \notin {"down", "subscribed"} =>
    \A i \in DOMAIN wire[r] : wire[r][i] \in Requests =>
      \A e \in before[wire[r][i]] \cap GrantEvents :
        Supplied(e) \/ Precedes(wire[r], i, e)

StreamAhead ==
  \A i \in DOMAIN queue : queue[i] \in Requests =>
    \A e \in before[queue[i]] \cap GrantEvents :
      Settled(e) \/ Precedes(queue, i, e) \/ \E f \in ToSet(fetched) : Renews(f, e)

ServedSettled ==
  serving # None => \A e \in before[serving] \cap GrantEvents : Settled(e)

AheadInv(r) == HoldsNewest(r) /\ WireAhead(r) /\ StreamAhead /\ ServedSettled

-----------------------------------------------------------------------------
(* Wires and the stream.                                                   *)

\* q is p with the events of S after it.
Grown(p, q, S) ==
  /\ q \in Seq(Events) /\ ToSet(q) = ToSet(p) \cup S
  /\ DOMAIN p \subseteq DOMAIN q /\ \A i \in DOMAIN p : q[i] = p[i]
  /\ \A i \in DOMAIN q \ DOMAIN p : q[i] \in S /\ \A j \in DOMAIN p : j < i

\* Appending an event to a sequence, or other events in any order, or none.
LEMMA Growth ==
  ASSUME NEW p \in Seq(Events)
  PROVE  /\ Grown(p, p, {})
         /\ \A e \in Events : Grown(p, Append(p, e), {e})
         /\ \A s \in Seq(Events) : Grown(p, p \o s, ToSet(s))
  <1>1. Grown(p, p, {})
    BY DEF Grown
  <1>2. ASSUME NEW e \in Events PROVE Grown(p, Append(p, e), {e})
    <2> DEFINE n == Len(p)
               q == Append(p, e)
    <2>1. /\ n \in Nat /\ DOMAIN p = 1..n /\ DOMAIN q = 1..(n + 1)
          /\ q[n + 1] = e /\ \A i \in 1..n : q[i] = p[i]
      OBVIOUS
    <2>2. q \in Seq(Events) /\ ToSet(q) = ToSet(p) \cup {e}
      BY AppendToSequence
    <2> HIDE DEF n, q
    <2>3. /\ \A i \in 1..n : i \in 1..(n + 1)
          /\ \A i \in (1..(n + 1)) \ (1..n) : i = n + 1 /\ \A j \in 1..n : j < i
      BY <2>1
    <2>4. Grown(p, q, {e})
      BY <2>1, <2>2, <2>3 DEF Grown
    <2> QED
      BY <2>4 DEF q
  <1>3. ASSUME NEW s \in Seq(Events) PROVE Grown(p, p \o s, ToSet(s))
    <2> DEFINE m == Len(p)
               n == Len(s)
               q == p \o s
    <2>1. /\ m \in Nat /\ n \in Nat /\ DOMAIN p = 1..m /\ DOMAIN s = 1..n
          /\ DOMAIN q = 1..(m + n)
      OBVIOUS
    <2>2. /\ q \in Seq(Events) /\ ToSet(q) = ToSet(p) \cup ToSet(s)
          /\ \A i \in 1..m : q[i] = p[i]
          /\ \A i \in 1..n : q[m + i] = s[i]
      BY ConcatSequences
    <2> HIDE DEF m, n, q
    <2>3. /\ \A i \in 1..m : i \in 1..(m + n)
          /\ \A i \in (1..(m + n)) \ (1..m) :
               i - m \in 1..n /\ m + (i - m) = i /\ \A j \in 1..m : j < i
      BY <2>1
    <2>4. ASSUME NEW i \in (1..(m + n)) \ (1..m) PROVE q[i] \in ToSet(s)
      <3>1. q[i] = s[i - m] /\ i - m \in DOMAIN s
        BY <2>1, <2>2, <2>3
      <3> QED
        BY <3>1 DEF ToSet
    <2>5. Grown(p, q, ToSet(s))
      BY <2>1, <2>2, <2>3, <2>4 DEF Grown
    <2> QED
      BY <2>5 DEF q
  <1> QED
    BY <1>1, <1>2, <1>3

\* A relay that answers a subscription sends all it holds that was not seen.
LEMMA StoredSent ==
  ASSUME TypeOK, NEW R \in SUBSET Relays, SendStored(R)
  PROVE  /\ wire' \in [Relays -> Seq(Events)]
         /\ \A r \in R : Grown(wire[r], wire'[r], stored[r] \ seen)
         /\ \A r \in Relays \ R : wire'[r] = wire[r]
  <1> DEFINE orders == [r \in R |-> SetToSeqs(stored[r] \ seen)]
  <1>1. PICK sent \in [R -> UNION {orders[r] : r \in R}] :
          /\ \A r \in R : sent[r] \in SetToSeqs(stored[r] \ seen)
          /\ wire' = [r \in Relays |-> IF r \in R THEN wire[r] \o sent[r] ELSE wire[r]]
    BY DEF SendStored
  <1>2. ASSUME NEW r \in R PROVE sent[r] \in Seq(Events) /\ ToSet(sent[r]) = stored[r] \ seen
    <2>1. stored[r] \ seen \subseteq Durable /\ IsFiniteSet(stored[r] \ seen)
      BY EventsAssumption, FS_Subset DEF TypeOK
    <2>2. sent[r] \in Seq(stored[r] \ seen) /\ ToSet(sent[r]) = stored[r] \ seen
      BY <1>1, <2>1, SetInOrder
    <2> QED
      BY <2>1, <2>2 DEF Events
  <1>3. ASSUME NEW r \in Relays PROVE wire[r] \in Seq(Events)
    BY DEF TypeOK, Events
  <1>4. ASSUME NEW r \in R PROVE Grown(wire[r], wire'[r], stored[r] \ seen)
    <2>1. Grown(wire[r], wire[r] \o sent[r], ToSet(sent[r]))
      BY <1>2, <1>3, Growth
    <2> QED
      BY <1>1, <1>2, <2>1
  <1>5. ASSUME NEW r \in Relays \ R PROVE wire'[r] = wire[r]
    BY <1>1
  <1>6. wire' \in [Relays -> Seq(Events)]
    BY <1>1, <1>3, <1>4, <1>5 DEF Grown
  <1> QED
    BY <1>4, <1>5, <1>6

\* An event that is passed on comes after what is on the wire.
LEMMA PassedOn ==
  ASSUME TypeOK, NEW e \in Events, NEW R, Broadcast(e, R)
  PROVE  /\ wire' \in [Relays -> Seq(Events)]
         /\ \A r \in Relays : IF r \in R \cap up /\ Subscribed
                              THEN Grown(wire[r], wire'[r], {e})
                              ELSE wire'[r] = wire[r]
  <1>1. ASSUME NEW r \in Relays PROVE wire[r] \in Seq(Events)
    BY DEF TypeOK, Events
  <1>2. ASSUME NEW r \in Relays
        PROVE  IF r \in R \cap up /\ Subscribed THEN Grown(wire[r], wire'[r], {e})
                                               ELSE wire'[r] = wire[r]
    <2>1. wire'[r] = IF r \in R \cap up /\ Subscribed THEN Append(wire[r], e) ELSE wire[r]
      BY DEF Broadcast
    <2>2. Grown(wire[r], Append(wire[r], e), {e})
      BY <1>1, Growth
    <2> QED
      BY <2>1, <2>2
  <1>3. wire' \in [Relays -> Seq(Events)]
    BY <1>1, <1>2 DEF Broadcast, Grown
  <1> QED
    BY <1>2, <1>3

\* What is reported is new to the stream, and in it once.
LEMMA Reported ==
  ASSUME TypeOK, Flow, NEW S, S \subseteq Events, IsFiniteSet(S), Report(S)
  PROVE  /\ seen' = seen \cup S
         /\ Grown(queue, queue', IF StreamTaken THEN S \ seen ELSE {})
         /\ \A i, j \in DOMAIN queue' : queue'[i] = queue'[j] => i = j
  <1>1. seen' = seen \cup S /\ queue \in Seq(Events)
    BY DEF Report, TypeOK, Events
  <1>2. CASE ~ StreamTaken
    <2>1. queue' = queue
      BY <1>2 DEF Report
    <2> QED
      BY <1>1, <1>2, <2>1, Growth DEF Flow
  <1>3. CASE StreamTaken
    <2>1. PICK news \in SetToSeqs(S \ seen) : queue' = queue \o news
      BY <1>3 DEF Report
    <2>2. IsFiniteSet(S \ seen)
      BY FS_Subset
    <2>3. /\ news \in Seq(S \ seen) /\ ToSet(news) = S \ seen
          /\ \A i, j \in DOMAIN news : news[i] = news[j] => i = j
      BY <2>2, SetInOrder
    <2>4. news \in Seq(Events)
      BY <2>3
    <2>5. Grown(queue, queue', S \ seen)
      BY <1>1, <2>1, <2>3, <2>4, Growth
    <2>6. ASSUME NEW i \in DOMAIN queue', NEW j \in DOMAIN queue', queue'[i] = queue'[j]
          PROVE  i = j
      <3> DEFINE m == Len(queue)
                 n == Len(news)
      <3>1. /\ m \in Nat /\ n \in Nat /\ DOMAIN queue = 1..m /\ DOMAIN news = 1..n
            /\ DOMAIN queue' = 1..(m + n)
        BY <1>1, <2>1, <2>4
      <3>2. /\ \A k \in 1..m : queue'[k] = queue[k]
            /\ \A k \in 1..n : queue'[m + k] = news[k]
        BY <1>1, <2>1, <2>4, ConcatSequences
      <3> HIDE DEF m, n
      <3>3. \A k \in 1..(m + n) : k \in 1..m \/ (k - m \in 1..n /\ m + (k - m) = k)
        BY <3>1
      <3>4. \A k \in 1..m : queue'[k] \in seen
        BY <3>1, <3>2 DEF Flow, ToSet
      <3>5. \A k \in 1..(m + n) : k - m \in 1..n /\ m + (k - m) = k =>
              queue'[k] = news[k - m] /\ queue'[k] \notin seen
        BY <2>3, <3>1, <3>2
      <3>6. CASE i \in 1..m /\ j \in 1..m
        BY <2>6, <3>1, <3>2, <3>6 DEF Flow
      <3>7. CASE i - m \in 1..n /\ m + (i - m) = i /\ j - m \in 1..n /\ m + (j - m) = j
        <4>1. i - m = j - m
          BY <2>3, <2>6, <3>1, <3>5, <3>7
        <4> QED
          BY <3>7, <4>1
      <3> QED
        BY <2>6, <3>1, <3>3, <3>4, <3>5, <3>6, <3>7
    <2> QED
      BY <1>1, <1>3, <2>5, <2>6
  <1> QED
    BY <1>2, <1>3

\* Taking the first event off a sequence moves the others up by one.
LEMMA Popped ==
  ASSUME NEW p \in Seq(Events), p # << >>
  PROVE  /\ Tail(p) \in Seq(Events) /\ Head(p) \in Events
         /\ 1 \in DOMAIN p /\ p[1] = Head(p)
         /\ ToSet(p) = ToSet(Tail(p)) \cup {Head(p)}
         /\ \A i \in DOMAIN Tail(p) :
              i \in Nat \ {0} /\ i + 1 \in DOMAIN p /\ Tail(p)[i] = p[i + 1]
         /\ (\A i, j \in DOMAIN p : p[i] = p[j] => i = j) =>
              /\ Head(p) \notin ToSet(Tail(p))
              /\ \A i, j \in DOMAIN Tail(p) : Tail(p)[i] = Tail(p)[j] => i = j
  <1> DEFINE q == Tail(p)
  <1>1. /\ q \in Seq(Events) /\ Head(p) \in Events
        /\ ToSet(p) = ToSet(q) \cup {Head(p)}
        /\ Len(p) \in Nat \ {0} /\ Len(q) = Len(p) - 1
    BY TailOfSequence
  <1>2. /\ DOMAIN p = 1..Len(p) /\ DOMAIN q = 1..(Len(p) - 1)
        /\ p[1] = Head(p)
        /\ \A i \in 1..(Len(p) - 1) : q[i] = p[i + 1]
    BY <1>1
  <1> HIDE DEF q
  <1>3. 1 \in DOMAIN p
    BY <1>1, <1>2
  <1>4. \A i \in DOMAIN q : i \in Nat \ {0} /\ i + 1 \in DOMAIN p /\ q[i] = p[i + 1]
    BY <1>1, <1>2
  <1>5. ASSUME \A i, j \in DOMAIN p : p[i] = p[j] => i = j
        PROVE  /\ Head(p) \notin ToSet(q)
               /\ \A i, j \in DOMAIN q : q[i] = q[j] => i = j
    <2>1. ASSUME NEW i \in DOMAIN q, q[i] = Head(p) PROVE FALSE
      <3>1. i + 1 = 1 /\ i \in Nat \ {0}
        BY <1>2, <1>3, <1>4, <1>5, <2>1
      <3> QED
        BY <3>1
    <2>2. ASSUME NEW i \in DOMAIN q, NEW j \in DOMAIN q, q[i] = q[j] PROVE i = j
      <3>1. i + 1 = j + 1 /\ i \in Nat /\ j \in Nat
        BY <1>4, <1>5, <2>2
      <3> QED
        BY <3>1
    <2> QED
      BY <2>1, <2>2 DEF ToSet
  <1> QED
    BY <1>1, <1>2, <1>3, <1>4, <1>5 DEF q

\* A stream that keeps too much is not empty.
LEMMA Overfull ==
  ASSUME NEW p \in Seq(Events), Len(p) > Capacity
  PROVE  p # << >>
  <1>1. Len(<< >>) = 0
    OBVIOUS
  <1> QED
    BY <1>1, CapacityAssumption

\* A fetch reads what the connected relays hold.
LEMMA Fetched ==
  ASSUME TypeOK, Flow, Fetch
  PROVE  /\ Fetchable \subseteq Durable \cap published
         /\ fetched' \in Seq(Durable) /\ ToSet(fetched') = Fetchable
         /\ seen' = seen \cup Fetchable /\ lost' = lost \ Fetchable
         /\ Grown(queue, queue', IF StreamTaken THEN Fetchable \ seen ELSE {})
         /\ \A i, j \in DOMAIN queue' : queue'[i] = queue'[j] => i = j
  <1>1. Fetchable \subseteq Durable \cap published
    BY DEF Fetchable, TypeOK, Flow
  <1>2. IsFiniteSet(Fetchable) /\ Fetchable \subseteq Events
    BY <1>1, EventsAssumption, FS_Subset DEF Events
  <1>3. fetched' \in SetToSeqs(Fetchable)
    BY DEF Fetch, FetchedLists
  <1>4. fetched' \in Seq(Fetchable) /\ ToSet(fetched') = Fetchable
    BY <1>2, <1>3, SetInOrder
  <1>5. fetched' \in Seq(Durable)
    BY <1>1, <1>4
  <1>6. Report(Fetchable) /\ lost' = lost \ Fetchable
    BY DEF Fetch
  <1> QED
    BY <1>1, <1>2, <1>4, <1>5, <1>6, Reported

-----------------------------------------------------------------------------
(* The registries.                                                         *)

Grantings == {VerifiedGrant(e) : e \in GrantEvents} \cup {None}

\* Applying an event keeps the registries' types, lets no grant become older,
\* and leaves a trusted grant, or a newer one, in force.
LEMMA Applied ==
  ASSUME TypeOK, NEW e \in Durable
  PROVE  LET state == ApplyEvent(Current, e)
         IN  /\ state.grants \in [Targets -> Grantings]
             /\ state.subs \in [Authors -> {Wanted(f) : f \in Wishes} \cup {None}]
             /\ \A t \in Targets : grants[t] # None =>
                  /\ state.grants[t] # None
                  /\ state.grants[t].created_at >= grants[t].created_at
             /\ e \in GrantEvents => AsNewAs(state.grants[Target(e)], e)
  <1> DEFINE state == ApplyEvent(Current, e)
  <1>0. /\ grants \in [Targets -> Grantings]
        /\ subs \in [Authors -> {Wanted(f) : f \in Wishes} \cup {None}]
    BY DEF TypeOK, Grantings
  <1>1. \A f \in GrantEvents : /\ Target(f) \in Targets /\ VerifiedGrant(f) # None
                               /\ VerifiedGrant(f).created_at = f.created_at
                               /\ f.created_at \in Nat
    BY EventsAssumption DEF GrantEvents, Trusted, VerifiedGrant
  <1>2. \A t \in Targets : grants[t] # None => grants[t].created_at \in Nat
    BY <1>0, <1>1 DEF Grantings
  <1>3. /\ state.grants = IF e.kind = GRANT_KIND THEN ApplyGrant(grants, e) ELSE grants
        /\ state.subs = IF e.kind = GRANT_KIND THEN subs ELSE ApplySubscription(subs, grants, e)
    BY DEF ApplyEvent, Current
  <1> HIDE DEF state
  <1>4. CASE e \in GrantEvents /\ ~ Superseded(grants, e)
    <2>1. /\ state.grants = [grants EXCEPT ![Target(e)] = VerifiedGrant(e)]
          /\ state.subs = subs /\ Target(e) \in Targets
      BY <1>1, <1>3, <1>4 DEF GrantEvents, Trusted, ApplyGrant
    <2>2. /\ state.grants[Target(e)] = VerifiedGrant(e)
          /\ \A t \in Targets : t # Target(e) => state.grants[t] = grants[t]
          /\ state.grants \in [Targets -> Grantings]
      BY <1>0, <1>4, <2>1 DEF Grantings
    <2>3. grants[Target(e)] # None => e.created_at >= grants[Target(e)].created_at
      BY <1>1, <1>2, <1>4, <2>1 DEF Superseded
    <2>4. \A t \in Targets : grants[t] # None =>
            state.grants[t] # None /\ state.grants[t].created_at >= grants[t].created_at
      BY <1>1, <1>2, <1>4, <2>2, <2>3
    <2>5. AsNewAs(state.grants[Target(e)], e)
      BY <1>1, <1>4, <2>2 DEF AsNewAs
    <2> QED
      BY <1>0, <2>1, <2>2, <2>4, <2>5 DEF state
  <1>5. CASE e \in GrantEvents /\ Superseded(grants, e)
    <2>1. state.grants = grants /\ state.subs = subs /\ Target(e) \in Targets
      BY <1>1, <1>3, <1>5 DEF GrantEvents, Trusted, ApplyGrant
    <2>2. AsNewAs(grants[Target(e)], e)
      BY <1>1, <1>2, <1>5, <2>1 DEF Superseded, AsNewAs
    <2> QED
      BY <1>0, <1>2, <2>1, <2>2 DEF state
  <1>6. CASE e \notin GrantEvents
    <2>1. state.grants = grants
      BY <1>3, <1>6 DEF GrantEvents, ApplyGrant
    <2>2. state.subs \in [Authors -> {Wanted(f) : f \in Wishes} \cup {None}]
      <3>1. CASE state.subs = subs
        BY <1>0, <3>1
      <3>2. CASE state.subs # subs
        <4>1. /\ SubscriptionAccepted(subs, grants, e)
              /\ state.subs = [subs EXCEPT ![e.pubkey] =
                                 IF e.content.types = {} THEN None ELSE Wanted(e)]
          BY <1>3, <3>2 DEF ApplySubscription
        <4>2. e.content.types # {} => e \in Wishes
          BY <4>1 DEF SubscriptionAccepted, Wishes
        <4> QED
          BY <1>0, <4>1, <4>2
      <3> QED
        BY <3>1, <3>2
    <2> QED
      BY <1>0, <1>2, <1>6, <2>1, <2>2 DEF state
  <1> QED
    BY <1>4, <1>5, <1>6

-----------------------------------------------------------------------------
(* What every step keeps: types, and where events can be.                  *)

\* The registries are a record of two, and applying an event keeps them one.
LEMMA BothRegistries ==
  ASSUME NEW e
  PROVE  LET state == ApplyEvent(Current, e)
         IN  state = [grants |-> state.grants, subs |-> state.subs]
  <1>1. CASE e.kind = GRANT_KIND
    <2>1. ApplyEvent(Current, e) = [grants |-> ApplyGrant(grants, e), subs |-> subs]
      BY <1>1 DEF ApplyEvent, Current
    <2> QED
      BY <2>1
  <1>2. CASE e.kind # GRANT_KIND
    <2>1. ApplyEvent(Current, e) =
            [grants |-> grants, subs |-> ApplySubscription(subs, grants, e)]
      BY <1>2 DEF ApplyEvent, Current
    <2> QED
      BY <2>1
  <1> QED
    BY <1>1, <1>2

\* Relays and connections.
LEMMA NetworkKeepsBase ==
  ASSUME BaseInv, Network
  PROVE  BaseInv'
  <1> USE DEF BaseInv
  <1>1. ASSUME NEW e \in Durable, NEW R \in (SUBSET Relays) \ {{}}, Publish(e, R)
        PROVE  BaseInv'
    <2>1. /\ e \notin published /\ published' = published \cup {e}
          /\ stored' = [r \in Relays |-> IF r \in R THEN Store(stored[r], e) ELSE stored[r]]
          /\ UNCHANGED <<up, drops, seen, queue, lost, grants, subs, mirror, pc, fetched, connected,
                         serving, crashes, before, answered, unreplied>>
      BY <1>1 DEF Publish, sdk, registries, loop
    <2>2. /\ wire' \in [Relays -> Seq(Events)]
          /\ \A r \in Relays : IF r \in R \cap up /\ Subscribed
                               THEN Grown(wire[r], wire'[r], {e})
                               ELSE wire'[r] = wire[r]
      BY <1>1, PassedOn DEF Publish, Events
    <2>3. /\ stored' \in [Relays -> SUBSET Durable]
          /\ \A r \in Relays : stored'[r] \subseteq stored[r] \cup {e}
          /\ \A r \in Relays \ R : stored'[r] = stored[r]
      <3>1. \A r \in Relays : stored[r] \subseteq Durable
        BY DEF TypeOK
      <3> QED
        BY <2>1, <3>1 DEF Store
    <2>4. \A r \in Relays : ToSet(wire'[r]) \subseteq ToSet(wire[r]) \cup {e}
      BY <2>2 DEF Grown
    <2>5. TypeOK'
      BY <2>1, <2>2, <2>3 DEF TypeOK, Events
    <2>6. Flow'
      <3>1. ~ Subscribed => wire' = wire
        BY <2>2 DEF TypeOK
      <3>2. \A r \in Relays \ up : wire'[r] = wire[r]
        BY <2>2
      <3> QED
        BY <2>1, <2>3, <2>4, <3>1, <3>2 DEF Flow, Subscribed, StreamTaken, Refreshing
    <2>7. OnceOnly'
      <3>1. e \notin answered \cup unreplied
        BY <2>1 DEF TypeOK
      <3> QED
        BY <2>1, <2>4, <3>1 DEF OnceOnly
    <2>8. SeenOrSent'
      <3>1. ASSUME NEW r \in up, Subscribed PROVE stored'[r] \subseteq seen' \cup ToSet(wire'[r])
        <4>1. r \in Relays /\ stored[r] \subseteq seen \cup ToSet(wire[r])
          BY <3>1 DEF TypeOK, SeenOrSent
        <4> QED
          BY <2>1, <2>2, <2>3, <3>1, <4>1 DEF Grown
      <3> QED
        BY <2>1, <3>1 DEF SeenOrSent, Subscribed
    <2>9. Mirrored'
      BY <2>1 DEF Mirrored, Refreshing, Current
    <2> QED
      BY <2>5, <2>6, <2>7, <2>8, <2>9
  <1>2. ASSUME NEW q \in Requests, NEW R \in (SUBSET Relays) \ {{}}, Request(q, R)
        PROVE  BaseInv'
    <2>1. /\ q \notin published /\ published' = published \cup {q}
          /\ before' = [before EXCEPT ![q] = published \cap Durable]
          /\ UNCHANGED <<stored, up, drops, seen, queue, lost, grants, subs, mirror, pc, fetched,
                         connected, serving, crashes, answered, unreplied>>
      BY <1>2 DEF Request, sdk, registries, loop
    <2>2. /\ wire' \in [Relays -> Seq(Events)]
          /\ \A r \in Relays : IF r \in R \cap up /\ Subscribed
                               THEN Grown(wire[r], wire'[r], {q})
                               ELSE wire'[r] = wire[r]
      BY <1>2, PassedOn DEF Request, Events
    <2>3. \A r \in Relays : ToSet(wire[r]) \subseteq ToSet(wire'[r])
                            /\ ToSet(wire'[r]) \subseteq ToSet(wire[r]) \cup {q}
      BY <2>2 DEF Grown
    <2>4. TypeOK'
      <3>1. before' \in [Requests -> SUBSET published']
        BY <2>1 DEF TypeOK
      <3> QED
        BY <2>1, <2>2, <3>1 DEF TypeOK, Events
    <2>5. Flow'
      <3>1. ~ Subscribed => wire' = wire
        BY <2>2 DEF TypeOK
      <3>2. \A r \in Relays \ up : wire'[r] = wire[r]
        BY <2>2
      <3> QED
        BY <2>1, <2>3, <3>1, <3>2 DEF Flow, Subscribed, StreamTaken, Refreshing
    <2>6. OnceOnly'
      <3>1. q \notin answered \cup unreplied
        BY <2>1 DEF TypeOK
      <3> QED
        BY <2>1, <2>3, <3>1 DEF OnceOnly
    <2>7. SeenOrSent'
      <3>1. \A r \in up : r \in Relays
        BY DEF TypeOK
      <3> QED
        BY <2>1, <2>3, <3>1 DEF SeenOrSent, Subscribed
    <2>8. Mirrored'
      BY <2>1 DEF Mirrored, Refreshing, Current
    <2> QED
      BY <2>4, <2>5, <2>6, <2>7, <2>8
  <1>3. ASSUME NEW r \in Relays, Drop(r) PROVE BaseInv'
    <2>1. /\ up' = up \ {r} /\ wire' = [wire EXCEPT ![r] = << >>]
          /\ UNCHANGED <<stored, seen, queue, lost, grants, subs, mirror, pc, fetched,
                         connected, serving, published, before, answered, unreplied>>
      BY <1>3 DEF Drop, sdk, registries, loop, history
    <2>2. /\ wire' \in [Relays -> Seq(Events)]
          /\ wire'[r] = << >> /\ \A s \in Relays \ {r} : wire'[s] = wire[s]
      BY <2>1, EmptySequence DEF TypeOK, Events
    <2>3. \A s \in Relays : ToSet(wire'[s]) \subseteq ToSet(wire[s])
      BY <2>2, EmptySequence
    <2>4. TypeOK'
      BY <2>1, <2>2 DEF TypeOK, Events
    <2>5. Flow'
      <3>1. wire = Unsent => wire' = Unsent
        BY <2>1 DEF Unsent
      <3> QED
        BY <2>1, <2>2, <2>3, <3>1 DEF Flow, StreamTaken, Refreshing
    <2>6. OnceOnly'
      BY <2>1, <2>3 DEF OnceOnly
    <2>7. SeenOrSent'
      BY <2>1, <2>2 DEF SeenOrSent, Subscribed, TypeOK
    <2>8. Mirrored'
      BY <2>1 DEF Mirrored, Refreshing, Current
    <2> QED
      BY <2>4, <2>5, <2>6, <2>7, <2>8
  <1>4. ASSUME NEW r \in Relays, Reconnect(r) PROVE BaseInv'
    <2>1. /\ up' = up \cup {r} /\ r \notin up
          /\ IF Subscribed THEN SendStored({r}) ELSE UNCHANGED wire
          /\ UNCHANGED <<stored, seen, queue, lost, grants, subs, mirror, pc, fetched,
                         connected, serving, published, before, answered, unreplied>>
      BY <1>4 DEF Reconnect, sdk, registries, loop, history
    <2>2. /\ wire' \in [Relays -> Seq(Events)]
          /\ Subscribed => Grown(wire[r], wire'[r], stored[r] \ seen)
          /\ ~ Subscribed => wire' = wire
          /\ \A s \in Relays \ {r} : wire'[s] = wire[s]
      <3>1. CASE Subscribed
        BY <2>1, <3>1, StoredSent
      <3>2. CASE ~ Subscribed
        BY <2>1, <3>2 DEF TypeOK, Events
      <3> QED
        BY <3>1, <3>2
    <2>3. \A s \in Relays : ToSet(wire'[s]) \subseteq ToSet(wire[s]) \cup (stored[s] \ seen)
      BY <2>2 DEF Grown
    <2>4. TypeOK'
      BY <2>1, <2>2 DEF TypeOK, Events
    <2>5. Flow'
      BY <2>1, <2>2, <2>3 DEF Flow, StreamTaken, Refreshing, Subscribed
    <2>6. OnceOnly'
      <3>1. \A s \in Relays : stored[s] \cap (answered \cup unreplied) = {}
        BY EventsAssumption DEF TypeOK
      <3> QED
        BY <2>1, <2>3, <3>1 DEF OnceOnly
    <2>7. SeenOrSent'
      BY <2>1, <2>2 DEF SeenOrSent, Subscribed, TypeOK, Grown
    <2>8. Mirrored'
      BY <2>1 DEF Mirrored, Refreshing, Current
    <2> QED
      BY <2>4, <2>5, <2>6, <2>7, <2>8
  <1>5. ASSUME NEW r \in Relays, Receive(r) PROVE BaseInv'
    <2> DEFINE e == Head(wire[r])
    <2>1. /\ r \in up /\ wire[r] # << >> /\ Report({e})
          /\ wire' = [wire EXCEPT ![r] = Tail(wire[r])]
          /\ UNCHANGED <<stored, up, lost, grants, subs, mirror, pc, fetched,
                         connected, serving, published, before, answered, unreplied>>
      BY <1>5 DEF Receive, registries, loop, history
    <2>2. wire[r] \in Seq(Events)
      BY DEF TypeOK, Events
    <2>3. /\ Tail(wire[r]) \in Seq(Events) /\ e \in Events
          /\ ToSet(wire[r]) = ToSet(Tail(wire[r])) \cup {e}
      BY <2>1, <2>2, Popped
    <2>4. /\ wire' \in [Relays -> Seq(Events)] /\ wire'[r] = Tail(wire[r])
          /\ \A s \in Relays \ {r} : wire'[s] = wire[s]
      BY <2>1, <2>3 DEF TypeOK, Events
    <2>5. IsFiniteSet({e}) /\ {e} \subseteq Events
      BY <2>3, FS_Singleton
    <2>6. /\ seen' = seen \cup {e}
          /\ Grown(queue, queue', IF StreamTaken THEN {e} \ seen ELSE {})
          /\ \A i, j \in DOMAIN queue' : queue'[i] = queue'[j] => i = j
      BY <2>1, <2>5, Reported
    <2>7. /\ queue' \in Seq(Events) /\ ToSet(queue') \subseteq ToSet(queue) \cup ({e} \ seen)
          /\ ~ StreamTaken => ToSet(queue') = ToSet(queue)
      BY <2>6 DEF Grown
    <2> HIDE DEF e
    <2>8. \A s \in Relays : ToSet(wire'[s]) \subseteq ToSet(wire[s])
      BY <2>3, <2>4
    <2>9. TypeOK'
      <3>1. e \in published
        BY <2>3 DEF Flow
      <3> QED
        BY <2>1, <2>4, <2>6, <2>7, <3>1 DEF TypeOK, Events
    <2>10. Flow'
      <3>1. Subscribed
        BY <2>1, <2>2 DEF Flow, Subscribed, Unsent
      <3>2. ~ StreamTaken => queue' = queue
        BY <2>1 DEF Report
      <3> QED
        BY <2>1, <2>4, <2>6, <2>7, <2>8, <3>1, <3>2
        DEF Flow, StreamTaken, Refreshing, Subscribed
    <2>11. OnceOnly'
      BY <2>1, <2>3, <2>6, <2>7, <2>8 DEF OnceOnly
    <2>12. SeenOrSent'
      BY <2>1, <2>3, <2>4, <2>6 DEF SeenOrSent, Subscribed, TypeOK
    <2>13. Mirrored'
      BY <2>1 DEF Mirrored, Refreshing, Current
    <2> QED
      BY <2>9, <2>10, <2>11, <2>12, <2>13
  <1> QED
    BY <1>1, <1>2, <1>3, <1>4, <1>5 DEF Network

\* Starting, refreshing and polling.
LEMMA RefreshKeepsBase ==
  ASSUME BaseInv,
         \/ Subscribe \/ StartupFetch \/ ApplyFetched \/ Mirror \/ EnterLoop
         \/ TickReturned \/ Reread \/ TickLost
  PROVE  BaseInv'
  <1> USE DEF BaseInv
  <1>1. ASSUME Subscribe \/ TickReturned PROVE BaseInv'
    <2>1. /\ SendStored(up) /\ serving = None
          /\ \/ pc = "down" /\ pc' = "subscribed" /\ connected' = connected
             \/ pc = "loop" /\ pc' = "returned" /\ connected' = up
          /\ UNCHANGED <<stored, up, seen, queue, lost, grants, subs, mirror, fetched,
                         serving, published, before, answered, unreplied>>
      BY <1>1 DEF Subscribe, TickReturned, Waiting, sdk, registries, history, TypeOK
    <2>2. /\ wire' \in [Relays -> Seq(Events)]
          /\ \A r \in up : Grown(wire[r], wire'[r], stored[r] \ seen)
          /\ \A r \in Relays \ up : wire'[r] = wire[r]
      BY <2>1, StoredSent DEF TypeOK
    <2>3. \A r \in Relays : ToSet(wire'[r]) \subseteq ToSet(wire[r]) \cup (stored[r] \ seen)
      BY <2>2 DEF Grown
    <2>4. TypeOK'
      BY <2>1, <2>2 DEF TypeOK, Events
    <2>5. Flow'
      BY <2>1, <2>2, <2>3 DEF Flow, StreamTaken, Refreshing
    <2>6. OnceOnly'
      <3>1. \A s \in Relays : stored[s] \cap (answered \cup unreplied) = {}
        BY EventsAssumption DEF TypeOK
      <3> QED
        BY <2>1, <2>3, <3>1 DEF OnceOnly
    <2>7. SeenOrSent'
      <3>1. \A r \in up : stored[r] \subseteq seen \cup ToSet(wire'[r])
        BY <2>2 DEF Grown
      <3> QED
        BY <2>1, <3>1 DEF SeenOrSent
    <2>8. Mirrored'
      BY <2>1 DEF Mirrored, Refreshing, Current
    <2> QED
      BY <2>4, <2>5, <2>6, <2>7, <2>8
  <1>2. ASSUME StartupFetch \/ Reread PROVE BaseInv'
    <2>1. /\ \/ pc = "subscribed" /\ pc' = "refreshing"
             \/ pc = "returned" /\ pc' = "rereading"
          /\ Fetch \/ FetchFails
          /\ UNCHANGED <<stored, up, wire, grants, subs, mirror, connected,
                         serving, published, before, answered, unreplied>>
      BY <1>2 DEF StartupFetch, Reread, network, registries, history
    <2>2. /\ fetched' \in Seq(Durable) /\ queue' \in Seq(Events)
          /\ \A i, j \in DOMAIN queue' : queue'[i] = queue'[j] => i = j
          /\ seen \subseteq seen' /\ seen' \subseteq seen \cup (Durable \cap published)
          /\ lost' \subseteq lost
          /\ ToSet(queue') \subseteq seen'
          /\ ToSet(queue') \subseteq ToSet(queue) \cup (Durable \ seen)
          /\ ~ StreamTaken => queue' = queue
      <3>1. CASE Fetch
        BY <3>1, Fetched DEF Grown, Flow, Fetch, Report
      <3>2. CASE FetchFails
        BY <3>2, EmptySequence DEF FetchFails, sdk, Flow, TypeOK, Events
      <3> QED
        BY <2>1, <3>1, <3>2
    <2>3. serving = None
      BY <2>1 DEF TypeOK
    <2>4. TypeOK'
      BY <2>1, <2>2 DEF TypeOK, Events
    <2>5. Flow'
      BY <2>1, <2>2 DEF Flow, StreamTaken, Refreshing
    <2>6. OnceOnly'
      <3>1. Durable \cap (answered \cup unreplied) = {}
        BY EventsAssumption DEF TypeOK
      <3> QED
        BY <2>1, <2>2, <2>3, <3>1 DEF OnceOnly
    <2>7. SeenOrSent'
      BY <2>1, <2>2 DEF SeenOrSent, Subscribed
    <2>8. Mirrored'
      BY <2>1 DEF Mirrored, Refreshing
    <2> QED
      BY <2>4, <2>5, <2>6, <2>7, <2>8
  <1>3. ASSUME ApplyFetched PROVE BaseInv'
    <2> DEFINE state == ApplyEvent(Current, Head(fetched))
    <2>1. /\ Refreshing /\ fetched # << >> /\ fetched' = Tail(fetched)
          /\ grants' = state.grants /\ subs' = state.subs
          /\ UNCHANGED <<stored, up, wire, seen, queue, lost, mirror, pc, connected,
                         serving, published, before, answered, unreplied>>
      BY <1>3 DEF ApplyFetched, network, sdk, history
    <2>2. fetched' \in Seq(Durable) /\ Head(fetched) \in Durable
      BY <2>1, TailOfSequence DEF TypeOK
    <2>3. /\ grants' \in [Targets -> {VerifiedGrant(f) : f \in GrantEvents} \cup {None}]
          /\ subs' \in [Authors -> {Wanted(f) : f \in Wishes} \cup {None}]
      BY <2>1, <2>2, Applied DEF Grantings
    <2> HIDE DEF state
    <2>4. TypeOK'
      BY <2>1, <2>2, <2>3 DEF TypeOK
    <2>5. Flow'
      BY <2>1 DEF Flow, StreamTaken, Refreshing
    <2>6. OnceOnly' /\ SeenOrSent' /\ Mirrored'
      BY <2>1 DEF OnceOnly, SeenOrSent, Subscribed, Mirrored, Refreshing
    <2> QED
      BY <2>4, <2>5, <2>6
  <1>4. ASSUME Mirror \/ EnterLoop \/ TickLost PROVE BaseInv'
    <2>1. /\ \/ pc = "refreshing" /\ pc' = "refreshed" /\ connected' = connected
             \/ pc = "rereading" /\ pc' = "loop" /\ connected' = connected
             \/ pc = "refreshed" /\ pc' = "loop" /\ connected' = up
             \/ pc = "loop" /\ pc' = "loop" /\ connected' = up
          /\ fetched = << >> /\ mirror' = Current
          /\ UNCHANGED <<stored, up, wire, seen, queue, lost, fetched, grants, subs,
                         serving, published, before, answered, unreplied>>
      <3>1. CASE Mirror
        BY <3>1 DEF Mirror, Become, Refreshing, Current, network, sdk, history
      <3>2. CASE EnterLoop
        BY <3>2 DEF EnterLoop, Flow, Mirrored, Refreshing, network, sdk, registries, history
      <3>3. CASE TickLost
        BY <3>3 DEF TickLost, Waiting, Flow, Mirrored, Refreshing, network, sdk, registries,
                    history
      <3> QED
        BY <1>4, <3>1, <3>2, <3>3
    <2>2. TypeOK'
      BY <2>1 DEF TypeOK
    <2>3. Flow'
      BY <2>1 DEF Flow, StreamTaken, Refreshing
    <2>4. OnceOnly' /\ SeenOrSent' /\ Mirrored'
      BY <2>1 DEF OnceOnly, SeenOrSent, Subscribed, Mirrored, Refreshing, Current
    <2> QED
      BY <2>2, <2>3, <2>4
  <1> QED
    BY <1>1, <1>2, <1>3, <1>4

\* The loop, its handlers, and the end of the process.
LEMMA LoopKeepsBase ==
  ASSUME BaseInv, Lag \/ OnRegistryEvent \/ OnRequest \/ HandlerReturns \/ Crash
  PROVE  BaseInv'
  <1> USE DEF BaseInv
  <1>0. queue \in Seq(Events)
    BY DEF TypeOK, Events
  <1>1. ASSUME OnRegistryEvent PROVE BaseInv'
    <2> DEFINE state == ApplyEvent(Current, Head(queue))
    <2>1. /\ pc = "loop" /\ queue # << >> /\ queue' = Tail(queue) /\ Head(queue) \in Durable
          /\ grants' = state.grants /\ subs' = state.subs /\ mirror' = state
          /\ UNCHANGED <<stored, up, wire, seen, lost, pc, fetched, connected,
                         serving, published, before, answered, unreplied>>
      BY <1>1 DEF OnRegistryEvent, Reads, Waiting, Become, network, loop, history
    <2>2. /\ queue' \in Seq(Events) /\ ToSet(queue') \subseteq ToSet(queue)
          /\ \A i, j \in DOMAIN queue' : queue'[i] = queue'[j] => i = j
      BY <1>0, <2>1, Popped DEF Flow
    <2>3. /\ grants' \in [Targets -> {VerifiedGrant(f) : f \in GrantEvents} \cup {None}]
          /\ subs' \in [Authors -> {Wanted(f) : f \in Wishes} \cup {None}]
      BY <2>1, Applied DEF Grantings
    <2>4. mirror' = Current'
      BY <2>1, BothRegistries DEF Current
    <2> HIDE DEF state
    <2>5. TypeOK'
      BY <2>1, <2>2, <2>3 DEF TypeOK, Events
    <2>6. Flow'
      BY <2>1, <2>2 DEF Flow, StreamTaken, Refreshing
    <2>7. OnceOnly' /\ SeenOrSent' /\ Mirrored'
      BY <2>1, <2>2, <2>4 DEF OnceOnly, SeenOrSent, Subscribed, Mirrored
    <2> QED
      BY <2>5, <2>6, <2>7
  <1>2. ASSUME OnRequest PROVE BaseInv'
    <2> DEFINE q == Head(queue)
    <2>1. /\ pc = "loop" /\ serving = None
          /\ queue # << >> /\ queue' = Tail(queue) /\ q \in Requests
          /\ \/ serving' = q /\ answered' = answered /\ unreplied' = unreplied
             \/ serving' = serving /\ Reply(q)
          /\ UNCHANGED <<stored, up, wire, seen, lost, grants, subs, mirror, pc, fetched,
                         connected, published, before>>
      BY <1>2 DEF OnRequest, Reads, Waiting, network, registries
    <2>2. /\ queue' \in Seq(Events) /\ ToSet(queue) = ToSet(queue') \cup {q}
          /\ \A i, j \in DOMAIN queue' : queue'[i] = queue'[j] => i = j
          /\ q \notin ToSet(queue')
      BY <1>0, <2>1, Popped DEF Flow
    <2> HIDE DEF q
    <2>3. q \in seen /\ q \notin answered \cup unreplied /\ q # None /\ q \in published
      BY <2>1, <2>2, EventsAssumption DEF Flow, OnceOnly, TypeOK
    <2>4. TypeOK'
      BY <2>1, <2>2, <2>3 DEF TypeOK, Events, Reply
    <2>5. Flow'
      BY <2>1, <2>2 DEF Flow, StreamTaken, Refreshing
    <2>6. OnceOnly'
      BY <2>1, <2>2, <2>3 DEF OnceOnly, Reply
    <2>7. SeenOrSent' /\ Mirrored'
      BY <2>1 DEF SeenOrSent, Subscribed, Mirrored, Refreshing, Current
    <2> QED
      BY <2>4, <2>5, <2>6, <2>7
  <1>3. ASSUME HandlerReturns PROVE BaseInv'
    <2>1. /\ serving # None /\ serving' = None /\ Reply(serving)
          /\ UNCHANGED <<stored, up, wire, seen, queue, lost, grants, subs, mirror, pc, fetched,
                         connected, published, before>>
      BY <1>3 DEF HandlerReturns, network, sdk, registries
    <2>2. serving \in Requests /\ serving \in seen /\ serving \notin ToSet(queue)
      BY <2>1 DEF TypeOK, OnceOnly
    <2>3. TypeOK'
      BY <2>1, <2>2 DEF TypeOK, Reply
    <2>4. Flow'
      BY <2>1 DEF Flow, StreamTaken, Refreshing
    <2>5. OnceOnly'
      BY <2>1, <2>2 DEF OnceOnly, Reply
    <2>6. SeenOrSent' /\ Mirrored'
      BY <2>1 DEF SeenOrSent, Subscribed, Mirrored, Refreshing, Current
    <2> QED
      BY <2>3, <2>4, <2>5, <2>6
  <1>4. ASSUME Crash PROVE BaseInv'
    <2>1. /\ pc' = "down" /\ fetched' = << >> /\ wire' = Unsent
          /\ seen' = {} /\ queue' = << >> /\ lost' = {}
          /\ grants' = NoGrants /\ subs' = NoSubscriptions
          /\ mirror' = [grants |-> NoGrants, subs |-> NoSubscriptions]
          /\ connected' = {} /\ serving' = None
          /\ UNCHANGED <<stored, up, published, before, answered, unreplied>>
      BY <1>4 DEF Crash, Become, history
    <2>2. TypeOK'
      BY <2>1, EmptySequence DEF TypeOK, Unsent, NoGrants, NoSubscriptions
    <2>3. Flow'
      BY <2>1, EmptySequence DEF Flow, Unsent, StreamTaken, Refreshing
    <2>4. OnceOnly' /\ SeenOrSent' /\ Mirrored'
      BY <2>1, EmptySequence
      DEF OnceOnly, Unsent, SeenOrSent, Subscribed, Mirrored, Current
    <2> QED
      BY <2>2, <2>3, <2>4
  <1>5. ASSUME Lag PROVE BaseInv'
    <2>1. /\ pc = "loop" /\ Len(queue) > Capacity
          /\ queue' = Tail(queue) /\ lost' = lost \cup {Head(queue)}
          /\ UNCHANGED <<stored, up, wire, seen, grants, subs, mirror, pc, fetched,
                         connected, serving, published, before, answered, unreplied>>
      BY <1>5 DEF Lag, Waiting, network, registries, loop, history
    <2>2. queue # << >>
      BY <1>0, <2>1, Overfull
    <2>3. /\ queue' \in Seq(Events) /\ ToSet(queue) = ToSet(queue') \cup {Head(queue)}
          /\ \A i, j \in DOMAIN queue' : queue'[i] = queue'[j] => i = j
      BY <1>0, <2>1, <2>2, Popped DEF Flow
    <2>4. TypeOK'
      BY <2>1, <2>3 DEF TypeOK, Flow, Events
    <2>5. Flow'
      BY <2>1, <2>3 DEF Flow, StreamTaken, Refreshing
    <2>6. OnceOnly'
      BY <2>1, <2>3 DEF OnceOnly
    <2>7. SeenOrSent' /\ Mirrored'
      BY <2>1 DEF SeenOrSent, Subscribed, Mirrored, Refreshing, Current
    <2> QED
      BY <2>4, <2>5, <2>6, <2>7
  <1> QED
    BY <1>1, <1>2, <1>3, <1>4, <1>5

\* Initially all is empty, and every step keeps the invariant.
LEMMA BaseInvariant ==
  Spec => []BaseInv
  <1>1. Init => BaseInv
    <2> SUFFICES ASSUME Init PROVE BaseInv
      OBVIOUS
    <2>1. TypeOK
      BY EmptySequence DEF Init, TypeOK, Unsent, NoGrants, NoSubscriptions
    <2>2. Flow
      BY EmptySequence DEF Init, Flow, Unsent, StreamTaken, Refreshing
    <2>3. OnceOnly /\ SeenOrSent /\ Mirrored
      BY EmptySequence
      DEF Init, OnceOnly, Unsent, SeenOrSent, Subscribed, Mirrored, Current
    <2> QED
      BY <2>1, <2>2, <2>3 DEF BaseInv
  <1>2. BaseInv /\ [Next]_vars => BaseInv'
    <2>1. BaseInv /\ Next => BaseInv'
      BY NetworkKeepsBase, RefreshKeepsBase, LoopKeepsBase DEF Next, Steps
    <2>2. BaseInv /\ UNCHANGED vars => BaseInv'
      BY DEF BaseInv, vars, network, sdk, registries, loop, history, TypeOK, Flow, OnceOnly,
             SeenOrSent, Mirrored, StreamTaken, Refreshing, Subscribed, Current
    <2> QED
      BY <2>1, <2>2
  <1> QED
    BY <1>1, <1>2, PTL DEF Spec

\* Type correctness of the service.  In particular a request that comes through
\* several relays, or again after a connection was lost, is handled once, and
\* not after it was answered, however the steps interleave and whatever fails.
THEOREM TypeCorrect ==
  Spec => []TypeOK
  <1>1. BaseInv => TypeOK
    BY DEF BaseInv
  <1> QED
    BY <1>1, BaseInvariant, PTL

-----------------------------------------------------------------------------
(* Catching up with the relays.                                            *)

\* Being as new as is reflexive and transitive.
LEMMA Newness ==
  ASSUME TypeOK
  PROVE  /\ \A e \in GrantEvents : Target(e) \in Targets /\ Renews(e, e)
         /\ \A e, f, g \in GrantEvents : Renews(g, f) /\ Renews(f, e) => Renews(g, e)
         /\ \A e, f \in GrantEvents : Renews(f, e) /\ Covered(f) => Covered(e)
         /\ \A e, f \in GrantEvents : Renews(f, e) /\ Settled(f) => Settled(e)
         /\ \A e, f \in GrantEvents : Renews(f, e) /\ Supplied(f) => Supplied(e)
  <1>1. \A e \in GrantEvents : /\ Target(e) \in Targets /\ e.created_at \in Nat
                               /\ VerifiedGrant(e).created_at = e.created_at
    BY EventsAssumption DEF GrantEvents, Trusted, VerifiedGrant
  <1>2. \A e \in GrantEvents : Renews(e, e)
    BY <1>1 DEF Renews
  <1>3. \A e, f, g \in GrantEvents : Renews(g, f) /\ Renews(f, e) => Renews(g, e)
    BY <1>1 DEF Renews
  <1>4. ASSUME NEW e \in GrantEvents, NEW f \in GrantEvents, Renews(f, e), Covered(f)
        PROVE  Covered(e)
    <2>1. /\ Target(f) = Target(e) /\ f.created_at >= e.created_at
          /\ grants[Target(e)] # None /\ grants[Target(e)].created_at >= f.created_at
      BY <1>4 DEF Renews, Covered, AsNewAs
    <2>2. grants[Target(e)].created_at \in Nat
      <3>1. grants[Target(e)] \in {VerifiedGrant(g) : g \in GrantEvents} \cup {None}
        BY <1>1 DEF TypeOK
      <3> QED
        BY <1>1, <2>1, <3>1
    <2>3. grants[Target(e)].created_at >= e.created_at
      BY <1>1, <2>1, <2>2
    <2> QED
      BY <2>1, <2>3 DEF Covered, AsNewAs
  <1>5. ASSUME NEW e \in GrantEvents, NEW f \in GrantEvents, Renews(f, e), Settled(f)
        PROVE  Settled(e)
    <2>1. CASE Covered(f)
      BY <1>4, <1>5, <2>1 DEF Settled
    <2>2. CASE ~ Covered(f)
      <3>1. PICK g \in lost : Renews(g, f)
        BY <1>5, <2>2 DEF Settled, Missed
      <3>2. g \in GrantEvents
        BY <3>1 DEF Renews
      <3> QED
        BY <1>3, <1>5, <3>1, <3>2 DEF Settled, Missed
    <2> QED
      BY <2>1, <2>2
  <1>6. ASSUME NEW e \in GrantEvents, NEW f \in GrantEvents, Renews(f, e), Supplied(f)
        PROVE  Supplied(e)
    <2>1. CASE Settled(f)
      BY <1>5, <1>6, <2>1 DEF Supplied
    <2>2. CASE ~ Settled(f)
      <3>1. PICK g \in ToSet(queue) \cup ToSet(fetched) : Renews(g, f)
        BY <1>6, <2>2 DEF Supplied
      <3>2. g \in GrantEvents
        BY <3>1 DEF Renews
      <3> QED
        BY <1>3, <1>6, <3>1, <3>2 DEF Supplied
    <2> QED
      BY <2>1, <2>2
  <1> QED
    BY <1>1, <1>2, <1>3, <1>4, <1>5, <1>6

\* Applying an event leaves in force what was, and what the event renews.
LEMMA ApplyCovers ==
  ASSUME TypeOK, TypeOK', NEW x \in Durable, grants' = ApplyEvent(Current, x).grants
  PROVE  \A e \in GrantEvents : Covered(e) \/ Renews(x, e) => Covered(e)'
  <1>1. /\ \A t \in Targets : grants[t] # None =>
             grants'[t] # None /\ grants'[t].created_at >= grants[t].created_at
        /\ x \in GrantEvents => AsNewAs(grants'[Target(x)], x)
    BY Applied
  <1>2. \A f \in GrantEvents : /\ Target(f) \in Targets /\ f.created_at \in Nat
                               /\ VerifiedGrant(f).created_at = f.created_at
    BY EventsAssumption DEF GrantEvents, Trusted, VerifiedGrant
  <1> SUFFICES ASSUME NEW e \in GrantEvents, Covered(e) \/ Renews(x, e)
               PROVE  AsNewAs(grants'[Target(e)], e)
    BY DEF Covered
  <1>3. grants'[Target(e)] # None => grants'[Target(e)].created_at \in Nat
    <2>1. grants'[Target(e)] \in {VerifiedGrant(g) : g \in GrantEvents} \cup {None}
      BY <1>2 DEF TypeOK
    <2> QED
      BY <1>2, <2>1
  <1>4. grants[Target(e)] # None => grants[Target(e)].created_at \in Nat
    <2>1. grants[Target(e)] \in {VerifiedGrant(g) : g \in GrantEvents} \cup {None}
      BY <1>2 DEF TypeOK
    <2> QED
      BY <1>2, <2>1
  <1>5. CASE Covered(e)
    BY <1>1, <1>2, <1>3, <1>4, <1>5 DEF Covered, AsNewAs
  <1>6. CASE Renews(x, e)
    BY <1>1, <1>2, <1>3, <1>6 DEF Renews, AsNewAs
  <1> QED
    BY <1>5, <1>6

\* While the process lives, what is in force stays so, what was skipped stays
\* so until it is fetched, and what will be in force will be, or is skipped.
LEMMA SupplyStays ==
  ASSUME BaseInv, BaseInv', Next, pc' # "down"
  PROVE  \A e \in GrantEvents :
           /\ Settled(e) => Settled(e)' \/ \E f \in ToSet(fetched') : Renews(f, e)
           /\ Supplied(e) => Supplied(e)'
  <1> USE DEF BaseInv
  <1> DEFINE Kept ==
        \A e \in GrantEvents :
          /\ Settled(e) => Settled(e)' \/ \E f \in ToSet(fetched') : Renews(f, e)
          /\ Supplied(e) => Supplied(e)'
  <1>0. queue \in Seq(Events) /\ fetched \in Seq(Durable)
    BY DEF TypeOK, Events
  <1>1. ASSUME grants' = grants, ToSet(queue) \subseteq ToSet(queue') \cup lost',
               ToSet(fetched) \subseteq ToSet(fetched'),
               lost \subseteq lost' \cup ToSet(fetched')
        PROVE  Kept
    BY <1>1 DEF Supplied, Settled, Missed, Covered, Renews
  <1>2. ASSUME NEW x \in Durable, grants' = ApplyEvent(Current, x).grants, lost' = lost,
               ToSet(queue) \cup ToSet(fetched)
                 \subseteq ToSet(queue') \cup ToSet(fetched') \cup {x}
        PROVE  Kept
    <2>1. \A e \in GrantEvents : Covered(e) \/ Renews(x, e) => Covered(e)'
      BY <1>2, ApplyCovers
    <2> QED
      BY <1>2, <2>1 DEF Supplied, Settled, Missed, Renews
  <1>3. CASE \/ \E e \in Durable, R \in (SUBSET Relays) \ {{}} : Publish(e, R)
             \/ \E q \in Requests, R \in (SUBSET Relays) \ {{}} : Request(q, R)
             \/ \E r \in Relays : Drop(r) \/ Reconnect(r)
             \/ Subscribe \/ Mirror \/ EnterLoop \/ HandlerReturns \/ TickReturned \/ TickLost
    <2>1. UNCHANGED <<grants, queue, lost, fetched>>
      BY <1>3 DEF Publish, Request, Drop, Reconnect, Subscribe, Mirror, Become, Current,
                  EnterLoop, HandlerReturns, TickReturned, TickLost, sdk, registries, loop
    <2> QED
      BY <1>1, <2>1
  <1>4. ASSUME NEW r \in Relays, Receive(r) PROVE Kept
    <2>1. /\ UNCHANGED <<grants, fetched, lost>>
          /\ Report({Head(wire[r])}) /\ wire[r] # << >>
      BY <1>4 DEF Receive, registries, loop
    <2>2. wire[r] \in Seq(Events)
      BY DEF TypeOK, Events
    <2>3. Head(wire[r]) \in Events
      BY <2>1, <2>2, Popped
    <2>4. ToSet(queue) \subseteq ToSet(queue')
      BY <2>1, <2>3, Reported, FS_Singleton DEF Grown
    <2> QED
      BY <1>1, <2>1, <2>4
  <1>5. CASE StartupFetch \/ Reread
    <2>1. grants' = grants /\ (Fetch \/ FetchFails) /\ ~ Refreshing
      BY <1>5 DEF StartupFetch, Reread, registries, Refreshing
    <2>2. fetched = << >>
      BY <2>1 DEF Flow
    <2>3. ToSet(fetched) = {}
      BY <2>2, EmptySequence
    <2>4. /\ ToSet(queue) \subseteq ToSet(queue')
          /\ lost \subseteq lost' \cup ToSet(fetched')
      BY <2>1, Fetched DEF FetchFails, sdk, Grown
    <2> QED
      BY <1>1, <2>1, <2>3, <2>4
  <1>6. CASE ApplyFetched
    <2>1. /\ fetched # << >> /\ fetched' = Tail(fetched) /\ UNCHANGED <<queue, lost>>
          /\ grants' = ApplyEvent(Current, Head(fetched)).grants
      BY <1>6 DEF ApplyFetched, sdk
    <2>2. Head(fetched) \in Durable /\ ToSet(fetched) = ToSet(fetched') \cup {Head(fetched)}
      BY <1>0, <2>1, TailOfSequence
    <2> QED
      BY <1>2, <2>1, <2>2
  <1>7. CASE OnRegistryEvent
    <2>1. /\ queue # << >> /\ queue' = Tail(queue) /\ UNCHANGED <<fetched, lost>>
          /\ Head(queue) \in Durable /\ grants' = ApplyEvent(Current, Head(queue)).grants
      BY <1>7 DEF OnRegistryEvent, Reads, Become, loop
    <2>2. ToSet(queue) = ToSet(queue') \cup {Head(queue)}
      BY <1>0, <2>1, Popped
    <2> QED
      BY <1>2, <2>1, <2>2
  <1>8. CASE OnRequest
    <2>1. /\ queue # << >> /\ queue' = Tail(queue) /\ UNCHANGED <<fetched, lost>>
          /\ Head(queue) \in Requests /\ grants' = grants
      BY <1>8 DEF OnRequest, Reads, registries
    <2>2. ToSet(queue) = ToSet(queue') \cup {Head(queue)}
      BY <1>0, <2>1, Popped
    <2>3. Head(queue) \notin GrantEvents
      BY <2>1, EventsAssumption DEF GrantEvents
    <2> QED
      BY <2>1, <2>2, <2>3 DEF Supplied, Settled, Missed, Covered, Renews
  <1>9. CASE Lag
    <2>1. /\ Len(queue) > Capacity /\ queue' = Tail(queue) /\ lost' = lost \cup {Head(queue)}
          /\ UNCHANGED <<grants, fetched>>
      BY <1>9 DEF Lag, registries, loop
    <2>2. ToSet(queue) = ToSet(queue') \cup {Head(queue)}
      BY <1>0, <2>1, Overfull, Popped
    <2> QED
      BY <1>1, <2>1, <2>2
  <1>10. ~ Crash
    BY DEF Crash
  <1> QED
    BY <1>3, <1>4, <1>5, <1>6, <1>7, <1>8, <1>9, <1>10 DEF Next, Network, Steps

\* A step of a service whose startup is undisturbed keeps SyncInv.
LEMMA SyncStep ==
  ASSUME StartupFaults = {}, BaseInv, BaseInv', SyncInv, Next
  PROVE  SyncInv'
  <1> USE DEF BaseInv
  <1> DEFINE Kept == \A e \in GrantEvents : Supplied(e) => Supplied(e)'
  <1>0. pc' # "down" => Kept
    BY SupplyStays
  <1> HIDE DEF Kept
  <1>1. CASE \/ \E e \in Durable, R \in (SUBSET Relays) \ {{}} : Publish(e, R)
             \/ \E r \in Relays : Drop(r) \/ Reconnect(r)
    <2>1. ~ Starting /\ pc' = pc /\ seen' = seen
      BY <1>1 DEF Publish, Drop, Reconnect, sdk, loop
    <2>2. StreamTaken => \A e \in seen \cap GrantEvents : Supplied(e)'
      BY <1>0, <2>1 DEF SyncInv, StreamTaken, Kept
    <2> QED
      BY <2>1, <2>2 DEF SyncInv, Starting, StreamTaken
  <1>2. ASSUME NEW q \in Requests, NEW R \in (SUBSET Relays) \ {{}}, Request(q, R)
        PROVE  SyncInv'
    <2>1. UNCHANGED <<pc, stored, up, seen, fetched>>
      BY <1>2 DEF Request, sdk, loop
    <2>2. \A r \in Relays : ToSet(wire'[r]) \subseteq ToSet(wire[r]) \cup {q}
      BY <1>2, PassedOn DEF Request, Events, Grown
    <2>3. q \notin Durable
      BY EventsAssumption
    <2>4. Starting' => /\ up' # {} /\ seen' \cap Durable \subseteq Fetchable'
                       /\ \A r \in Relays : ToSet(wire'[r]) \cap Durable \subseteq Fetchable'
      BY <2>1, <2>2, <2>3 DEF SyncInv, Starting, Fetchable
    <2>5. pc' \in {"refreshing", "refreshed"} =>
            \A e \in Fetchable' \cap GrantEvents : Supplied(e)'
      BY <1>0, <2>1 DEF SyncInv, Fetchable, Kept
    <2>6. StreamTaken' => \A e \in seen' \cap GrantEvents : Supplied(e)'
      BY <1>0, <2>1 DEF SyncInv, StreamTaken, Kept
    <2> QED
      BY <2>4, <2>5, <2>6 DEF SyncInv
  <1>3. ASSUME NEW r \in Relays, Receive(r) PROVE SyncInv'
    <2> DEFINE e == Head(wire[r])
    <2>1. /\ UNCHANGED <<pc, stored, up, fetched>>
          /\ wire[r] # << >> /\ wire' = [wire EXCEPT ![r] = Tail(wire[r])] /\ Report({e})
      BY <1>3 DEF Receive, loop
    <2>2. wire[r] \in Seq(Events) /\ wire \in [Relays -> Seq(Events)]
      BY DEF TypeOK, Events
    <2>3. e \in Events /\ ToSet(wire[r]) = ToSet(Tail(wire[r])) \cup {e}
      BY <2>1, <2>2, Popped
    <2>4. \A s \in Relays : ToSet(wire'[s]) \subseteq ToSet(wire[s])
      BY <2>1, <2>2, <2>3
    <2>5. /\ seen' = seen \cup {e}
          /\ Grown(queue, queue', IF StreamTaken THEN {e} \ seen ELSE {})
      BY <2>1, <2>3, Reported, FS_Singleton
    <2> HIDE DEF e
    <2>6. Starting' => /\ up' # {} /\ seen' \cap Durable \subseteq Fetchable'
                       /\ \A s \in Relays : ToSet(wire'[s]) \cap Durable \subseteq Fetchable'
      BY <2>1, <2>3, <2>4, <2>5 DEF SyncInv, Starting, Fetchable
    <2>7. pc' \in {"refreshing", "refreshed"} =>
            \A f \in Fetchable' \cap GrantEvents : Supplied(f)'
      BY <1>0, <2>1 DEF SyncInv, Fetchable, Kept
    <2>8. StreamTaken' => \A f \in seen' \cap GrantEvents : Supplied(f)'
      <3> SUFFICES ASSUME StreamTaken, NEW f \in seen' \cap GrantEvents PROVE Supplied(f)'
        BY <2>1 DEF StreamTaken
      <3>1. CASE f \in seen
        BY <1>0, <2>1, <3>1 DEF SyncInv, StreamTaken, Kept
      <3>2. CASE f \notin seen
        <4>1. f \in ToSet(queue')
          BY <2>5, <3>2 DEF Grown
        <4>2. Renews(f, f)
          BY Newness
        <4> QED
          BY <4>1, <4>2 DEF Supplied
      <3> QED
        BY <3>1, <3>2
    <2> QED
      BY <2>6, <2>7, <2>8 DEF SyncInv
  <1>4. CASE Subscribe
    <2>1. /\ pc = "down" /\ pc' = "subscribed" /\ up # {} /\ SendStored(up)
          /\ UNCHANGED <<stored, up, seen>>
      BY <1>4 DEF Subscribe, sdk
    <2>2. seen = {} /\ wire = Unsent
      BY <2>1 DEF Flow
    <2>3. /\ \A r \in up : Grown(wire[r], wire'[r], stored[r] \ seen)
          /\ \A r \in Relays \ up : wire'[r] = wire[r]
      BY <2>1, StoredSent DEF TypeOK
    <2>4. \A r \in Relays : ToSet(wire[r]) = {}
      BY <2>2, EmptySequence DEF Unsent
    <2>5. \A r \in Relays : ToSet(wire'[r]) \subseteq Fetchable'
      BY <2>1, <2>3, <2>4 DEF Grown, Fetchable
    <2> QED
      BY <2>1, <2>2, <2>5 DEF SyncInv, StreamTaken
  <1>5. CASE StartupFetch
    <2>1. /\ pc = "subscribed" /\ pc' = "refreshing" /\ UNCHANGED <<stored, up, wire>>
          /\ Fetch \/ up = {}
      BY <1>5 DEF StartupFetch, network
    <2>2. up # {} /\ Fetch
      BY <2>1 DEF SyncInv, Starting
    <2>3. ToSet(fetched') = Fetchable /\ seen' = seen \cup Fetchable
      BY <2>2, Fetched
    <2>4. /\ up' # {} /\ seen' \cap Durable \subseteq Fetchable'
          /\ \A r \in Relays : ToSet(wire'[r]) \cap Durable \subseteq Fetchable'
      BY <2>1, <2>2, <2>3 DEF SyncInv, Starting, Fetchable
    <2>5. \A e \in Fetchable' \cap GrantEvents : Supplied(e)'
      <3> SUFFICES ASSUME NEW e \in Fetchable \cap GrantEvents PROVE Supplied(e)'
        BY <2>1 DEF Fetchable
      <3>1. Renews(e, e) /\ e \in ToSet(fetched')
        BY <2>3, Newness
      <3> QED
        BY <3>1 DEF Supplied
    <2> QED
      BY <2>1, <2>4, <2>5 DEF SyncInv, StreamTaken
  <1>6. CASE \/ ApplyFetched \/ Mirror \/ Lag \/ OnRegistryEvent \/ OnRequest
             \/ HandlerReturns \/ TickLost
    <2>1. /\ UNCHANGED <<stored, up, wire, seen>>
          /\ \/ pc' = pc
             \/ pc = "refreshing" /\ pc' = "refreshed"
             \/ pc = "rereading" /\ pc' = "loop"
      BY <1>6 DEF ApplyFetched, Mirror, Lag, OnRegistryEvent, OnRequest, HandlerReturns, TickLost,
                  Refreshing, network, sdk, loop
    <2>2. Starting' => /\ up' # {} /\ seen' \cap Durable \subseteq Fetchable'
                       /\ \A r \in Relays : ToSet(wire'[r]) \cap Durable \subseteq Fetchable'
      BY <2>1 DEF SyncInv, Starting, Fetchable
    <2>3. pc' \in {"refreshing", "refreshed"} =>
            \A e \in Fetchable' \cap GrantEvents : Supplied(e)'
      BY <1>0, <2>1 DEF SyncInv, Fetchable, Kept
    <2>4. StreamTaken' => \A e \in seen' \cap GrantEvents : Supplied(e)'
      BY <1>0, <2>1 DEF SyncInv, StreamTaken, Kept
    <2> QED
      BY <2>2, <2>3, <2>4 DEF SyncInv
  <1>7. CASE EnterLoop
    <2>1. pc = "refreshed" /\ pc' = "loop" /\ UNCHANGED <<stored, up, seen>>
      BY <1>7 DEF EnterLoop, network, sdk
    <2>2. \A e \in seen \cap GrantEvents : Supplied(e)
      BY <2>1 DEF SyncInv, Starting, GrantEvents
    <2>3. \A e \in seen' \cap GrantEvents : Supplied(e)'
      BY <1>0, <2>1, <2>2 DEF Kept
    <2> QED
      BY <2>1, <2>3 DEF SyncInv, Starting
  <1>8. CASE TickReturned
    <2>1. pc = "loop" /\ pc' = "returned" /\ seen' = seen
      BY <1>8 DEF TickReturned, Waiting, sdk
    <2>2. \A e \in seen' \cap GrantEvents : Supplied(e)'
      BY <1>0, <2>1 DEF SyncInv, StreamTaken, Kept
    <2> QED
      BY <2>1, <2>2 DEF SyncInv, Starting
  <1>9. CASE Reread
    <2>1. pc = "returned" /\ pc' = "rereading" /\ (Fetch \/ FetchFails)
      BY <1>9 DEF Reread
    <2>2. \A e \in seen \cap GrantEvents : Supplied(e)'
      BY <1>0, <2>1 DEF SyncInv, StreamTaken, Kept
    <2>3. \A e \in seen' \cap GrantEvents : Supplied(e)'
      <3>1. CASE Fetch
        <4> SUFFICES ASSUME NEW e \in Fetchable \cap GrantEvents PROVE Supplied(e)'
          BY <2>2, <3>1, Fetched
        <4>1. Renews(e, e) /\ e \in ToSet(fetched')
          BY <3>1, Fetched, Newness
        <4> QED
          BY <4>1 DEF Supplied
      <3>2. CASE FetchFails
        BY <2>2, <3>2 DEF FetchFails, sdk
      <3> QED
        BY <2>1, <3>1, <3>2
    <2> QED
      BY <2>1, <2>3 DEF SyncInv, Starting
  <1>10. CASE Crash
    <2>1. pc' = "down"
      BY <1>10 DEF Crash
    <2> QED
      BY <2>1 DEF SyncInv, Starting, StreamTaken
  <1> QED
    BY <1>1, <1>2, <1>3, <1>4, <1>5, <1>6, <1>7, <1>8, <1>9, <1>10 DEF Next, Network, Steps

\* The invariant of an undisturbed startup, at every time.
LEMMA SyncInvariant ==
  ASSUME StartupFaults = {}
  PROVE  Spec => [](BaseInv /\ SyncInv)
  <1>1. Init => SyncInv
    BY DEF Init, SyncInv, Starting, StreamTaken
  <1>2. BaseInv /\ BaseInv' /\ SyncInv /\ [Next]_vars => SyncInv'
    <2>1. BaseInv /\ BaseInv' /\ SyncInv /\ Next => SyncInv'
      BY SyncStep
    <2>2. SyncInv /\ UNCHANGED vars => SyncInv'
      BY DEF vars, network, sdk, registries, loop, history, SyncInv, Starting, StreamTaken,
             Fetchable, Supplied, Settled, Missed, Covered
    <2> QED
      BY <2>1, <2>2
  <1> QED
    BY <1>1, <1>2, BaseInvariant, PTL DEF Spec

\* Connections may be lost and come back at any time in the loop, re-reads may
\* fail, the process may end: once every relay is back and nothing is under
\* way, the service and its notifiers have every grant a relay stores, or a
\* newer one, but for what the loop skipped because the stream, of whatever
\* capacity, had not kept it, and no re-read has brought since.  A startup in
\* which a fetch fails or an event comes between the fetch and the stream does
\* not have this (the run service_startup).
THEOREM AlwaysInSync ==
  ASSUME StartupFaults = {}
  PROVE  Spec => []InSync
  <1>1. BaseInv /\ SyncInv => InSync
    <2> SUFFICES ASSUME BaseInv, SyncInv, Quiet
                 PROVE  /\ mirror = Current
                        /\ \A r \in Relays : \A e \in stored[r] \cap GrantEvents : Settled(e)
      BY DEF InSync, Settled, Covered
    <2>1. /\ pc = "loop" /\ queue = << >> /\ up = Relays /\ wire = Unsent
          /\ fetched = << >> /\ mirror = Current
      BY DEF Quiet, Waiting, BaseInv, Flow, Mirrored, Refreshing
    <2>2. ASSUME NEW r \in Relays, NEW e \in stored[r] \cap GrantEvents PROVE Settled(e)
      <3>1. ToSet(wire[r]) = {} /\ ToSet(queue) = {} /\ ToSet(fetched) = {}
        BY <2>1, EmptySequence DEF Unsent
      <3>2. e \in seen
        BY <2>1, <2>2, <3>1 DEF BaseInv, SeenOrSent, Subscribed
      <3>3. Supplied(e)
        BY <2>1, <2>2, <3>2 DEF SyncInv, StreamTaken
      <3> QED
        BY <3>1, <3>3 DEF Supplied
    <2> QED
      BY <2>1, <2>2
  <1> QED
    BY <1>1, SyncInvariant, PTL

-----------------------------------------------------------------------------
(* One relay: requests and grants stay in order.                           *)

\* A relay replaces an event only by one that renews it.
LEMMA Replaced ==
  ASSUME NEW S \in SUBSET Durable, NEW e \in Durable
  PROVE  /\ e \in GrantEvents => \E f \in Store(S, e) : Renews(f, e)
         /\ \A f \in S \cap GrantEvents : \E g \in Store(S, e) : Renews(g, f)
  <1>1. \A f \in Durable : f.created_at \in Nat /\ f.p_tagged
    BY EventsAssumption
  <1>2. \A f, g \in Durable : SameAddress(f, g) /\ f \in GrantEvents =>
          g \in GrantEvents /\ Target(g) = Target(f)
    BY <1>1 DEF SameAddress, GrantEvents, Trusted, Target
  <1>3. \A f, g \in Durable : SameAddress(f, g) => SameAddress(g, f)
    BY DEF SameAddress
  <1>4. CASE \E f \in S : SameAddress(e, f) /\ f.created_at > e.created_at
    <2>1. PICK f \in S : SameAddress(e, f) /\ f.created_at > e.created_at
      BY <1>4
    <2>2. Store(S, e) = S
      BY <1>4 DEF Store
    <2>3. e \in GrantEvents => Renews(f, e)
      BY <1>1, <1>2, <2>1 DEF Renews
    <2>4. \A g \in S \cap GrantEvents : Renews(g, g)
      BY <1>1 DEF Renews
    <2> QED
      BY <2>1, <2>2, <2>3, <2>4
  <1>5. CASE ~ \E f \in S : SameAddress(e, f) /\ f.created_at > e.created_at
    <2>1. Store(S, e) = {f \in S : ~ SameAddress(e, f)} \cup {e}
      BY <1>5 DEF Store
    <2>2. \A g \in S \cap GrantEvents : SameAddress(e, g) => Renews(e, g)
      BY <1>1, <1>2, <1>3, <1>5 DEF Renews
    <2>3. \A g \in (S \cup {e}) \cap GrantEvents : Renews(g, g)
      BY <1>1 DEF Renews
    <2> QED
      BY <2>1, <2>2, <2>3
  <1> QED
    BY <1>4, <1>5

\* What comes before a position stays before it when the sequence grows.
LEMMA AheadWhenGrown ==
  ASSUME NEW p \in Seq(Events), NEW q, NEW S, Grown(p, q, S),
         NEW i \in DOMAIN p, NEW e, Precedes(p, i, e)
  PROVE  Precedes(q, i, e)
  <1>1. PICK j \in 1 .. (i - 1) : Renews(p[j], e)
    BY DEF Precedes
  <1>2. j \in DOMAIN p
    OBVIOUS
  <1>3. q[j] = p[j]
    BY <1>2 DEF Grown
  <1> QED
    BY <1>1, <1>3 DEF Precedes

\* When the head is taken off, all but the head stays before what it was before.
LEMMA AheadWhenPopped ==
  ASSUME NEW p \in Seq(Events), p # << >>,
         NEW i \in DOMAIN Tail(p), NEW e, Precedes(p, i + 1, e)
  PROVE  Renews(Head(p), e) \/ Precedes(Tail(p), i, e)
  <1> DEFINE q == Tail(p)
  <1>1. PICK j \in 1 .. i : Renews(p[j], e)
    <2>1. i \in Nat /\ (i + 1) - 1 = i
      BY Popped
    <2> QED
      BY <2>1 DEF Precedes
  <1>2. /\ q \in Seq(Events) /\ Len(p) \in Nat \ {0} /\ Len(q) = Len(p) - 1
        /\ p[1] = Head(p)
    BY TailOfSequence
  <1>3. DOMAIN q = 1 .. (Len(p) - 1) /\ \A k \in 1 .. (Len(p) - 1) : q[k] = p[k + 1]
    BY <1>2
  <1>4. i \in DOMAIN q
    OBVIOUS
  <1> HIDE DEF q
  <1>5. CASE j = 1
    BY <1>1, <1>2, <1>5
  <1>6. CASE j # 1
    <2>1. j - 1 \in 1 .. (i - 1) /\ j - 1 \in 1 .. (Len(p) - 1) /\ (j - 1) + 1 = j
      BY <1>2, <1>3, <1>4, <1>6
    <2>2. q[j - 1] = p[j]
      BY <1>3, <2>1
    <2> QED
      BY <1>1, <2>1, <2>2 DEF Precedes, q
  <1> QED
    BY <1>5, <1>6

\* Once the first fetch is made, what was seen is in force or will be.
LEMMA SeenSupplied ==
  ASSUME SyncInv, TypeOK, pc \notin {"down", "subscribed"}
  PROVE  \A e \in seen \cap GrantEvents : Supplied(e)
  BY DEF SyncInv, TypeOK, Starting, StreamTaken, GrantEvents

\* Durable events that come onto the wire, or none, change nothing for the
\* requests that are on it.
LEMMA WireGrows ==
  ASSUME TypeOK, NEW r \in Relays, WireAhead(r), NEW S, Grown(wire[r], wire'[r], S),
         S \cap Requests = {}, before' = before,
         pc' \notin {"down", "subscribed"} =>
           /\ pc \notin {"down", "subscribed"}
           /\ \A e \in GrantEvents : Supplied(e) => Supplied(e)'
  PROVE  WireAhead(r)'
  <1> SUFFICES ASSUME pc' \notin {"down", "subscribed"},
                      NEW i \in DOMAIN wire'[r], wire'[r][i] \in Requests,
                      NEW e \in before[wire'[r][i]] \cap GrantEvents
               PROVE  Supplied(e)' \/ Precedes(wire'[r], i, e)
    BY DEF WireAhead, Precedes, Renews
  <1>1. i \in DOMAIN wire[r] /\ wire'[r][i] = wire[r][i]
    BY DEF Grown
  <1>2. wire[r] \in Seq(Events)
    BY DEF TypeOK, Events
  <1>3. Supplied(e) \/ Precedes(wire[r], i, e)
    BY <1>1 DEF WireAhead
  <1> QED
    BY <1>1, <1>2, <1>3, AheadWhenGrown

\* The same for the stream.
LEMMA StreamGrows ==
  ASSUME TypeOK, StreamAhead, NEW S, Grown(queue, queue', S),
         S \cap Requests = {}, before' = before,
         \A e \in GrantEvents :
           Settled(e) \/ (\E f \in ToSet(fetched) : Renews(f, e)) =>
             Settled(e)' \/ \E f \in ToSet(fetched') : Renews(f, e)
  PROVE  StreamAhead'
  <1> SUFFICES ASSUME NEW i \in DOMAIN queue', queue'[i] \in Requests,
                      NEW e \in before[queue'[i]] \cap GrantEvents
               PROVE  \/ Settled(e)' \/ Precedes(queue', i, e)
                      \/ \E f \in ToSet(fetched') : Renews(f, e)
    BY DEF StreamAhead, Precedes, Renews
  <1>1. i \in DOMAIN queue /\ queue'[i] = queue[i]
    BY DEF Grown
  <1>2. queue \in Seq(Events)
    BY DEF TypeOK, Events
  <1>3. \/ Settled(e) \/ Precedes(queue, i, e)
        \/ \E f \in ToSet(fetched) : Renews(f, e)
    BY <1>1 DEF StreamAhead
  <1> QED
    BY <1>1, <1>2, <1>3, AheadWhenGrown

\* What the network does, with one relay.
LEMMA NetworkKeepsOrder ==
  ASSUME NEW r, Relays = {r}, StartupFaults = {}, BaseInv, BaseInv', SyncInv, SyncInv',
         AheadInv(r), Network
  PROVE  AheadInv(r)'
  <1> USE DEF BaseInv, AheadInv
  <1>0. /\ r \in Relays /\ wire[r] \in Seq(Events) /\ queue \in Seq(Events)
        /\ Grown(queue, queue, {})
    BY Growth DEF TypeOK, Events
  <1>1. pc' # "down" =>
          \A e \in GrantEvents :
            /\ Settled(e) => Settled(e)' \/ \E f \in ToSet(fetched') : Renews(f, e)
            /\ Supplied(e) => Supplied(e)'
    BY SupplyStays DEF Next
  <1>2. ASSUME NEW e \in Durable, NEW R \in (SUBSET Relays) \ {{}}, Publish(e, R)
        PROVE  AheadInv(r)'
    <2>1. /\ published' = published \cup {e} /\ stored'[r] = Store(stored[r], e)
          /\ UNCHANGED <<grants, queue, lost, fetched, pc, serving, before>>
      <3>1. r \in R
        BY <1>0
      <3> QED
        BY <1>0, <1>2, <3>1 DEF Publish, sdk, registries, loop
    <2>2. \E S : Grown(wire[r], wire'[r], S) /\ S \cap Requests = {}
      <3>1. IF r \in R \cap up /\ Subscribed THEN Grown(wire[r], wire'[r], {e})
                                            ELSE wire'[r] = wire[r]
        BY <1>0, <1>2, PassedOn DEF Publish, Events
      <3>2. Grown(wire[r], wire[r], {})
        BY <1>0, Growth
      <3> QED
        BY <3>1, <3>2, EventsAssumption
    <2>3. HoldsNewest(r)'
      <3> SUFFICES ASSUME NEW g \in published' \cap GrantEvents
                   PROVE  \E h \in stored'[r] : Renews(h, g)
        BY DEF HoldsNewest, Renews
      <3>1. stored[r] \in SUBSET Durable
        BY <1>0 DEF TypeOK
      <3>2. CASE g = e
        BY <2>1, <3>1, <3>2, Replaced
      <3>3. CASE g \in published
        <4>1. PICK f \in stored[r] : Renews(f, g)
          BY <3>3 DEF HoldsNewest
        <4>2. f \in GrantEvents
          BY <4>1 DEF Renews
        <4>3. PICK h \in Store(stored[r], e) : Renews(h, f)
          BY <3>1, <4>2, Replaced
        <4>4. h \in GrantEvents
          BY <4>3 DEF Renews
        <4> QED
          BY <2>1, <4>1, <4>2, <4>3, <4>4, Newness
      <3> QED
        BY <2>1, <3>2, <3>3
    <2>4. WireAhead(r)'
      BY <1>0, <1>1, <2>1, <2>2, WireGrows
    <2>5. StreamAhead' /\ ServedSettled'
      BY <2>1 DEF StreamAhead, ServedSettled, Settled, Missed, Covered, Precedes
    <2> QED
      BY <2>3, <2>4, <2>5
  <1>3. ASSUME NEW q \in Requests, NEW R \in (SUBSET Relays) \ {{}}, Request(q, R)
        PROVE  AheadInv(r)'
    <2>1. /\ q \notin published /\ published' = published \cup {q}
          /\ before' = [before EXCEPT ![q] = published \cap Durable]
          /\ UNCHANGED <<stored, up, seen, grants, queue, lost, fetched, pc, serving>>
      BY <1>3 DEF Request, sdk, registries, loop
    <2>2. /\ IF r \in R \cap up /\ Subscribed THEN Grown(wire[r], wire'[r], {q})
                                             ELSE wire'[r] = wire[r]
          /\ wire'[r] \in Seq(Events)
      BY <1>0, <1>3, PassedOn DEF Request, Events
    <2>3. /\ q \notin ToSet(wire[r]) /\ q \notin ToSet(queue) /\ q # serving
          /\ q \notin GrantEvents
      BY <1>0, <2>1, EventsAssumption DEF Flow, OnceOnly, TypeOK, GrantEvents
    <2>4. /\ before'[q] = published \cap Durable
          /\ \A x \in Requests : x # q => before'[x] = before[x]
      BY <2>1 DEF TypeOK
    <2>5. HoldsNewest(r)'
      BY <2>1, <2>3 DEF HoldsNewest
    <2>6. WireAhead(r)'
      <3> SUFFICES ASSUME pc \notin {"down", "subscribed"},
                          NEW i \in DOMAIN wire'[r], wire'[r][i] \in Requests,
                          NEW e \in before'[wire'[r][i]] \cap GrantEvents
                   PROVE  Supplied(e) \/ Precedes(wire'[r], i, e)
        BY <2>1 DEF WireAhead, Precedes, Supplied, Settled, Missed, Covered
      <3>1. CASE i \in DOMAIN wire[r]
        <4>1. \E S : Grown(wire[r], wire'[r], S)
          BY <1>0, <2>2, Growth
        <4>2. wire'[r][i] = wire[r][i]
          BY <3>1, <4>1 DEF Grown
        <4>3. wire[r][i] # q
          BY <2>3, <3>1 DEF ToSet
        <4>4. Supplied(e) \/ Precedes(wire[r], i, e)
          BY <2>4, <3>1, <4>2, <4>3 DEF WireAhead
        <4> QED
          BY <1>0, <3>1, <4>1, <4>4, AheadWhenGrown
      <3>2. CASE i \notin DOMAIN wire[r]
        <4>1. r \in up /\ Subscribed /\ Grown(wire[r], wire'[r], {q})
          BY <2>2, <3>2
        <4>2. wire'[r][i] = q /\ \A j \in DOMAIN wire[r] : j < i /\ wire'[r][j] = wire[r][j]
          BY <3>2, <4>1 DEF Grown
        <4>3. e \in published \cap GrantEvents
          BY <2>4, <4>2
        <4>4. PICK f \in stored[r] : Renews(f, e)
          BY <4>3 DEF HoldsNewest
        <4>5. f \in GrantEvents
          BY <4>4 DEF Renews
        <4>6. CASE f \in seen
          BY <4>3, <4>4, <4>5, <4>6, SeenSupplied, Newness
        <4>7. CASE f \in ToSet(wire[r])
          <5>1. PICK j \in DOMAIN wire[r] : wire[r][j] = f
            BY <4>7 DEF ToSet
          <5>2. j \in 1 .. (i - 1)
            BY <1>0, <2>2, <4>2
          <5> QED
            BY <4>2, <4>4, <5>1, <5>2 DEF Precedes
        <4> QED
          BY <4>1, <4>6, <4>7 DEF SeenOrSent
      <3> QED
        BY <3>1, <3>2
    <2>7. StreamAhead'
      <3>1. \A i \in DOMAIN queue : queue[i] # q
        BY <2>3 DEF ToSet
      <3> QED
        BY <2>1, <2>4, <3>1 DEF StreamAhead, Settled, Missed, Covered, Precedes
    <2>8. ServedSettled'
      BY <2>1, <2>3, <2>4 DEF ServedSettled, Settled, Missed, Covered, TypeOK
    <2> QED
      BY <2>5, <2>6, <2>7, <2>8
  <1>4. ASSUME Drop(r) \/ Reconnect(r) PROVE AheadInv(r)'
    <2>1. UNCHANGED <<stored, grants, queue, lost, fetched, pc, serving, published, before>>
      BY <1>4 DEF Drop, Reconnect, sdk, registries, loop, history
    <2>2. HoldsNewest(r)' /\ StreamAhead' /\ ServedSettled'
      BY <2>1 DEF HoldsNewest, StreamAhead, ServedSettled, Settled, Missed, Covered, Precedes
    <2>3. WireAhead(r)'
      <3>1. CASE Drop(r)
        <4>1. wire'[r] = << >>
          BY <1>0, <3>1 DEF Drop, TypeOK
        <4> QED
          BY <4>1 DEF WireAhead
      <3>2. CASE Reconnect(r)
        <4>1. \E S : Grown(wire[r], wire'[r], S) /\ S \subseteq Durable
          <5>1. CASE Subscribed
            <6>1. SendStored({r}) /\ {r} \in SUBSET Relays
              BY <1>0, <3>2, <5>1 DEF Reconnect
            <6>2. Grown(wire[r], wire'[r], stored[r] \ seen)
              BY <6>1, StoredSent
            <6>3. stored[r] \ seen \subseteq Durable
              BY <1>0 DEF TypeOK
            <6> QED
              BY <6>2, <6>3
          <5>2. CASE ~ Subscribed
            BY <1>0, <3>2, <5>2, Growth DEF Reconnect
          <5> QED
            BY <5>1, <5>2
        <4>2. \E S : Grown(wire[r], wire'[r], S) /\ S \cap Requests = {}
          BY <4>1, EventsAssumption
        <4> QED
          BY <1>0, <1>1, <2>1, <4>2, WireGrows
      <3> QED
        BY <1>4, <3>1, <3>2
    <2> QED
      BY <2>2, <2>3
  <1>5. ASSUME Receive(r) PROVE AheadInv(r)'
    <2>0. PICK x : x = Head(wire[r])
      OBVIOUS
    <2>1. /\ wire[r] # << >> /\ wire'[r] = Tail(wire[r]) /\ Report({x})
          /\ UNCHANGED <<stored, grants, lost, fetched, pc, serving, published, before>>
      BY <1>0, <1>5, <2>0 DEF Receive, registries, loop, history, TypeOK
    <2>2. /\ x \in Events /\ 1 \in DOMAIN wire[r] /\ x = wire[r][1]
          /\ \A i \in DOMAIN wire'[r] :
               i \in Nat \ {0} /\ i + 1 \in DOMAIN wire[r] /\ wire'[r][i] = wire[r][i + 1]
      BY <1>0, <2>0, <2>1, Popped
    <2>3. /\ seen' = seen \cup {x}
          /\ Grown(queue, queue', IF StreamTaken THEN {x} \ seen ELSE {})
      BY <2>1, <2>2, Reported, FS_Singleton
    <2>4. HoldsNewest(r)' /\ ServedSettled'
      BY <2>1 DEF HoldsNewest, ServedSettled, Settled, Missed, Covered
    <2>5. WireAhead(r)'
      <3> SUFFICES ASSUME pc \notin {"down", "subscribed"},
                          NEW i \in DOMAIN wire'[r], wire'[r][i] \in Requests,
                          NEW e \in before[wire'[r][i]] \cap GrantEvents
                   PROVE  Supplied(e)' \/ Precedes(wire'[r], i, e)
        BY <2>1 DEF WireAhead, Precedes, Renews
      <3>1. Supplied(e) \/ Precedes(wire[r], i + 1, e)
        BY <2>2 DEF WireAhead
      <3>2. CASE Supplied(e)
        BY <1>1, <2>1, <3>2
      <3>3. CASE Renews(x, e)
        <4>1. x \in seen' /\ x \in GrantEvents
          BY <2>3, <3>3 DEF Renews
        <4>2. Supplied(x)'
          BY <2>1, <4>1 DEF SyncInv, TypeOK, Starting, StreamTaken, GrantEvents
        <4>3. CASE Settled(x)
          <5>1. Settled(e)
            BY <3>3, <4>1, <4>3, Newness
          <5> QED
            BY <2>1, <5>1 DEF Supplied, Settled, Missed, Covered
        <4>4. CASE ~ Settled(x)
          <5>1. PICK f \in ToSet(queue') \cup ToSet(fetched') : Renews(f, x)
            BY <2>1, <4>2, <4>4 DEF Supplied, Settled, Missed, Covered
          <5>2. Renews(f, e)
            BY <3>3, <4>1, <5>1, Newness DEF Renews
          <5> QED
            BY <5>2 DEF Supplied
        <4> QED
          BY <4>3, <4>4
      <3>4. CASE Precedes(wire[r], i + 1, e) /\ ~ Renews(x, e)
        BY <1>0, <2>0, <2>1, <3>4, AheadWhenPopped
      <3> QED
        BY <3>1, <3>2, <3>3, <3>4
    <2>6. StreamAhead'
      <3> SUFFICES ASSUME NEW i \in DOMAIN queue', queue'[i] \in Requests,
                          NEW e \in before[queue'[i]] \cap GrantEvents
                   PROVE  \/ Settled(e) \/ Precedes(queue', i, e)
                          \/ \E f \in ToSet(fetched) : Renews(f, e)
        BY <2>1 DEF StreamAhead, Precedes, Renews, Settled, Missed, Covered
      <3>1. CASE i \in DOMAIN queue
        <4>1. queue'[i] = queue[i]
          BY <2>3, <3>1 DEF Grown
        <4>2. \/ Settled(e) \/ Precedes(queue, i, e)
              \/ \E f \in ToSet(fetched) : Renews(f, e)
          BY <3>1, <4>1 DEF StreamAhead
        <4> QED
          BY <1>0, <2>3, <3>1, <4>2, AheadWhenGrown
      <3>2. CASE i \notin DOMAIN queue
        <4>1. /\ StreamTaken /\ queue'[i] = x /\ queue' \in Seq(Events)
              /\ \A j \in DOMAIN queue : j < i /\ queue'[j] = queue[j]
          BY <2>3, <3>2 DEF Grown
        <4>2. Supplied(e) \/ Precedes(wire[r], 1, e)
          BY <2>2, <4>1 DEF WireAhead, StreamTaken
        <4>3. ~ Precedes(wire[r], 1, e)
          BY DEF Precedes
        <4>4. ASSUME NEW f \in ToSet(queue), Renews(f, e) PROVE Precedes(queue', i, e)
          <5>1. PICK j \in DOMAIN queue : queue[j] = f
            BY <4>4 DEF ToSet
          <5>2. j \in 1 .. (i - 1)
            BY <1>0, <4>1
          <5> QED
            BY <4>1, <4>4, <5>1, <5>2 DEF Precedes
        <4> QED
          BY <4>2, <4>3, <4>4 DEF Supplied
      <3> QED
        BY <3>1, <3>2
    <2> QED
      BY <2>4, <2>5, <2>6
  <1> QED
    BY <1>2, <1>3, <1>4, <1>5 DEF Network

\* What the service does, with one relay.
LEMMA ServiceKeepsOrder ==
  ASSUME NEW r, Relays = {r}, StartupFaults = {}, BaseInv, BaseInv', SyncInv,
         AheadInv(r), Steps \/ Crash
  PROVE  AheadInv(r)'
  <1> USE DEF BaseInv, AheadInv
  <1>0. /\ r \in Relays /\ wire[r] \in Seq(Events) /\ queue \in Seq(Events)
        /\ Grown(queue, queue, {}) /\ Grown(wire[r], wire[r], {})
    BY Growth DEF TypeOK, Events
  <1>1. pc' # "down" =>
          \A e \in GrantEvents :
            /\ Settled(e) => Settled(e)' \/ \E f \in ToSet(fetched') : Renews(f, e)
            /\ Supplied(e) => Supplied(e)'
    BY SupplyStays DEF Next
  <1>2. HoldsNewest(r)'
    <2>1. UNCHANGED <<stored, published>>
      BY DEF Steps, Crash, Subscribe, StartupFetch, ApplyFetched, Mirror, EnterLoop,
             Lag, OnRegistryEvent, OnRequest, HandlerReturns, TickReturned, Reread, TickLost,
             network, history
    <2> QED
      BY <2>1 DEF HoldsNewest
  <1>3. CASE Subscribe \/ TickReturned
    <2>1. /\ pc' \in {"subscribed", "returned"} /\ SendStored(up)
          /\ pc' = "returned" => pc = "loop"
          /\ UNCHANGED <<grants, queue, lost, fetched, serving, before>>
      BY <1>3 DEF Subscribe, TickReturned, Waiting, sdk, registries, history
    <2>2. \E S : Grown(wire[r], wire'[r], S) /\ S \cap Requests = {}
      <3>1. \E S : Grown(wire[r], wire'[r], S) /\ S \subseteq Durable
        <4>1. CASE r \in up
          <5>1. Grown(wire[r], wire'[r], stored[r] \ seen)
            BY <2>1, <4>1, StoredSent DEF TypeOK
          <5>2. stored[r] \ seen \subseteq Durable
            BY <1>0 DEF TypeOK
          <5> QED
            BY <5>1, <5>2
        <4>2. CASE r \notin up
          BY <1>0, <2>1, <4>2, StoredSent DEF TypeOK
        <4> QED
          BY <4>1, <4>2
      <3> QED
        BY <3>1, EventsAssumption
    <2>3. WireAhead(r)'
      BY <1>0, <1>1, <2>1, <2>2, WireGrows
    <2>4. StreamAhead' /\ ServedSettled'
      BY <2>1 DEF StreamAhead, ServedSettled, Settled, Missed, Covered, Precedes
    <2> QED
      BY <1>2, <2>3, <2>4
  <1>4. CASE StartupFetch
    <2>1. /\ pc = "subscribed" /\ pc' = "refreshing"
          /\ Fetch \/ up = {}
          /\ UNCHANGED <<stored, up, wire, serving, published, before>>
      BY <1>4 DEF StartupFetch, network, history
    <2>2. up = {r} /\ Fetch
      BY <2>1 DEF SyncInv, Starting, TypeOK
    <2>3. ToSet(fetched') = stored[r]
      <3>1. ToSet(fetched') = Fetchable
        BY <2>2, Fetched
      <3>2. Fetchable = stored[r]
        BY <2>2 DEF Fetchable
      <3> QED
        BY <3>1, <3>2
    <2>4. WireAhead(r)'
      <3> SUFFICES ASSUME NEW q \in Requests, NEW e \in before[q] \cap GrantEvents
                   PROVE  Supplied(e)'
        BY <2>1 DEF WireAhead
      <3>1. e \in published
        BY DEF TypeOK
      <3>2. PICK f \in stored[r] : Renews(f, e)
        BY <3>1 DEF HoldsNewest
      <3> QED
        BY <2>3, <3>2 DEF Supplied
    <2>5. queue' = << >> /\ serving' = None
      BY <2>1 DEF Flow, StreamTaken, TypeOK
    <2>6. StreamAhead' /\ ServedSettled'
      BY <2>5 DEF StreamAhead, ServedSettled
    <2> QED
      BY <1>2, <2>4, <2>6
  <1>5. CASE Reread
    <2>1. /\ pc = "returned" /\ pc' = "rereading" /\ (Fetch \/ FetchFails)
          /\ UNCHANGED <<wire, grants, serving, before>>
      BY <1>5 DEF Reread, network, registries, history
    <2>2. \E S : Grown(queue, queue', S) /\ S \cap Requests = {}
      <3>1. CASE Fetch
        <4>1. Grown(queue, queue', Fetchable \ seen) /\ Fetchable \subseteq Durable
          BY <2>1, <3>1, Fetched DEF StreamTaken
        <4>2. (Fetchable \ seen) \cap Requests = {}
          BY <4>1, EventsAssumption
        <4> QED
          BY <4>1, <4>2
      <3>2. CASE FetchFails
        BY <1>0, <3>2 DEF FetchFails, sdk
      <3> QED
        BY <2>1, <3>1, <3>2
    <2>3. ToSet(fetched) = {}
      BY <2>1, EmptySequence DEF Flow, Refreshing
    <2>4. WireAhead(r)'
      BY <1>0, <1>1, <2>1, WireGrows
    <2>5. StreamAhead'
      BY <1>1, <2>1, <2>2, <2>3, StreamGrows
    <2>6. ServedSettled'
      BY <2>1 DEF ServedSettled, TypeOK
    <2> QED
      BY <1>2, <2>4, <2>5, <2>6
  <1>6. CASE ApplyFetched
    <2>0. PICK x : x = Head(fetched)
      OBVIOUS
    <2>1. /\ Refreshing /\ fetched # << >> /\ fetched' = Tail(fetched)
          /\ grants' = ApplyEvent(Current, x).grants
          /\ UNCHANGED <<wire, queue, lost, pc, serving, before>>
      BY <1>6, <2>0 DEF ApplyFetched, network, sdk, history
    <2>2. x \in Durable /\ ToSet(fetched) = ToSet(fetched') \cup {x}
      BY <2>0, <2>1, TailOfSequence DEF TypeOK
    <2>3. \A e \in GrantEvents : Covered(e) \/ Renews(x, e) => Covered(e)'
      BY <2>1, <2>2, ApplyCovers
    <2>4. \A e \in GrantEvents : Settled(e) \/ Renews(x, e) => Settled(e)'
      BY <2>1, <2>3 DEF Settled, Missed, Renews
    <2>5. WireAhead(r)'
      BY <1>0, <1>1, <2>1, WireGrows DEF Refreshing
    <2>6. StreamAhead'
      <3>1. \A e \in GrantEvents :
              Settled(e) \/ (\E f \in ToSet(fetched) : Renews(f, e)) =>
                Settled(e)' \/ \E f \in ToSet(fetched') : Renews(f, e)
        BY <2>2, <2>4
      <3>2. Grown(queue, queue', {})
        BY <1>0, <2>1
      <3> QED
        BY <2>1, <3>1, <3>2, StreamGrows
    <2>7. ServedSettled'
      BY <2>1 DEF ServedSettled, TypeOK, Refreshing
    <2> QED
      BY <1>2, <2>5, <2>6, <2>7
  <1>7. CASE Mirror \/ EnterLoop \/ HandlerReturns \/ TickLost
    <2>1. /\ serving' \in {serving, None}
          /\ pc' = pc \/ pc \in {"refreshing", "refreshed", "rereading"}
          /\ UNCHANGED <<wire, grants, queue, lost, fetched, before>>
      BY <1>7 DEF Mirror, Become, Current, EnterLoop, HandlerReturns, TickLost, Refreshing,
                  network, sdk, registries, history
    <2>2. WireAhead(r)'
      BY <2>1 DEF WireAhead, Supplied, Settled, Missed, Covered, Precedes
    <2>3. StreamAhead' /\ ServedSettled'
      BY <2>1 DEF StreamAhead, ServedSettled, Settled, Missed, Covered, Precedes
    <2> QED
      BY <1>2, <2>2, <2>3
  <1>8. CASE OnRegistryEvent \/ OnRequest
    <2>0. PICK x : x = Head(queue)
      OBVIOUS
    <2>1. /\ Waiting /\ queue # << >> /\ queue' = Tail(queue)
          /\ \/ x \in Durable /\ serving' = serving /\ grants' = ApplyEvent(Current, x).grants
             \/ x \in Requests /\ serving' \in {serving, x} /\ grants' = grants
          /\ UNCHANGED <<wire, lost, fetched, pc, before>>
      BY <1>8, <2>0 DEF OnRegistryEvent, OnRequest, Reads, Become, network, registries, loop,
                        history
    <2>2. /\ 1 \in DOMAIN queue /\ x = queue[1]
          /\ \A i \in DOMAIN queue' :
               i \in Nat \ {0} /\ i + 1 \in DOMAIN queue /\ queue'[i] = queue[i + 1]
      BY <1>0, <2>0, <2>1, Popped
    <2>3. \A e \in GrantEvents : Settled(e) \/ Renews(x, e) => Settled(e)'
      <3>1. CASE x \in Durable /\ grants' = ApplyEvent(Current, x).grants
        BY <2>1, <3>1, ApplyCovers DEF Settled, Missed, Renews
      <3>2. CASE x \in Requests /\ grants' = grants
        BY <2>1, <3>2, EventsAssumption DEF Renews, GrantEvents, Settled, Missed, Covered
      <3> QED
        BY <2>1, <3>1, <3>2
    <2>4. WireAhead(r)'
      BY <1>0, <1>1, <2>1, WireGrows DEF Waiting
    <2>5. StreamAhead'
      <3> SUFFICES ASSUME NEW i \in DOMAIN queue', queue'[i] \in Requests,
                          NEW e \in before[queue'[i]] \cap GrantEvents
                   PROVE  \/ Settled(e)' \/ Precedes(queue', i, e)
                          \/ \E f \in ToSet(fetched) : Renews(f, e)
        BY <2>1 DEF StreamAhead, Precedes, Renews
      <3>1. \/ Settled(e) \/ Precedes(queue, i + 1, e)
            \/ \E f \in ToSet(fetched) : Renews(f, e)
        BY <2>2 DEF StreamAhead
      <3>2. Precedes(queue, i + 1, e) => Renews(x, e) \/ Precedes(queue', i, e)
        BY <1>0, <2>0, <2>1, AheadWhenPopped
      <3> QED
        BY <2>3, <3>1, <3>2
    <2>6. ServedSettled'
      <3>1. CASE serving' = serving
        BY <2>1, <3>1 DEF ServedSettled, Waiting
      <3>2. CASE serving' = x /\ x \in Requests
        <4>1. ToSet(fetched) = {}
          BY <2>1, EmptySequence DEF Flow, Refreshing, Waiting
        <4>2. \A e : ~ Precedes(queue, 1, e)
          BY DEF Precedes
        <4>3. \A e \in before[x] \cap GrantEvents : Settled(e)
          BY <2>2, <3>2, <4>1, <4>2 DEF StreamAhead
        <4> QED
          BY <2>1, <2>3, <3>2, <4>3 DEF ServedSettled
      <3> QED
        BY <2>1, <3>1, <3>2
    <2> QED
      BY <1>2, <2>4, <2>5, <2>6
  <1>9. CASE Lag
    <2>0. PICK x : x = Head(queue)
      OBVIOUS
    <2>1. /\ Waiting /\ Len(queue) > Capacity
          /\ queue' = Tail(queue) /\ lost' = lost \cup {x}
          /\ UNCHANGED <<wire, grants, fetched, pc, serving, before>>
      BY <1>9, <2>0 DEF Lag, network, registries, loop, history
    <2>2. /\ queue # << >>
          /\ \A i \in DOMAIN queue' :
               i \in Nat \ {0} /\ i + 1 \in DOMAIN queue /\ queue'[i] = queue[i + 1]
      BY <1>0, <2>1, Overfull, Popped
    <2>3. \A e \in GrantEvents : Settled(e) \/ Renews(x, e) => Settled(e)'
      BY <2>1 DEF Settled, Missed, Covered, Renews
    <2>4. WireAhead(r)'
      BY <1>0, <1>1, <2>1, WireGrows DEF Waiting
    <2>5. StreamAhead'
      <3> SUFFICES ASSUME NEW i \in DOMAIN queue', queue'[i] \in Requests,
                          NEW e \in before[queue'[i]] \cap GrantEvents
                   PROVE  \/ Settled(e)' \/ Precedes(queue', i, e)
                          \/ \E f \in ToSet(fetched) : Renews(f, e)
        BY <2>1 DEF StreamAhead, Precedes, Renews
      <3>1. \/ Settled(e) \/ Precedes(queue, i + 1, e)
            \/ \E f \in ToSet(fetched) : Renews(f, e)
        BY <2>2 DEF StreamAhead
      <3>2. Precedes(queue, i + 1, e) => Renews(x, e) \/ Precedes(queue', i, e)
        BY <1>0, <2>0, <2>1, <2>2, AheadWhenPopped
      <3> QED
        BY <2>3, <3>1, <3>2
    <2>6. ServedSettled'
      BY <2>1 DEF ServedSettled, Waiting
    <2> QED
      BY <1>2, <2>4, <2>5, <2>6
  <1>10. CASE Crash
    <2>1. pc' = "down" /\ queue' = << >> /\ serving' = None
      BY <1>10 DEF Crash
    <2>2. WireAhead(r)' /\ StreamAhead' /\ ServedSettled'
      BY <2>1 DEF WireAhead, StreamAhead, ServedSettled
    <2> QED
      BY <1>2, <2>2
  <1> QED
    BY <1>3, <1>4, <1>5, <1>6, <1>7, <1>8, <1>9, <1>10 DEF Steps

\* With one relay, whatever an owner published before a request was sent is in
\* force when the request is let through: over lost connections, failed
\* re-reads, restarts and grants that arrive while the handler of another
\* request holds up the loop, unless so many arrive that the stream does not
\* keep it.  Two relays order their events each by itself
\* (the run service_relays checks what is left then), and a disturbed startup
\* may lose an event.
THEOREM NeverStaleAllow ==
  ASSUME NEW r, Relays = {r}, StartupFaults = {}
  PROVE  Spec => []NoStaleAllow
  <1>1. Init => AheadInv(r)
    <2> SUFFICES ASSUME Init PROVE AheadInv(r)
      OBVIOUS
    <2>1. published = {} /\ pc = "down" /\ queue = << >> /\ serving = None
      BY DEF Init
    <2> QED
      BY <2>1 DEF AheadInv, HoldsNewest, WireAhead, StreamAhead, ServedSettled
  <1>2. BaseInv /\ BaseInv' /\ SyncInv /\ SyncInv' /\ AheadInv(r) /\ [Next]_vars => AheadInv(r)'
    <2>1. BaseInv /\ BaseInv' /\ SyncInv /\ SyncInv' /\ AheadInv(r) /\ Next => AheadInv(r)'
      BY NetworkKeepsOrder, ServiceKeepsOrder DEF Next
    <2>2. AheadInv(r) /\ UNCHANGED vars => AheadInv(r)'
      BY DEF vars, network, sdk, registries, loop, history, AheadInv, HoldsNewest, WireAhead,
             StreamAhead, ServedSettled, Supplied, Settled, Missed, Covered, Precedes
    <2> QED
      BY <2>1, <2>2
  <1>3. AheadInv(r) => NoStaleAllow
    BY DEF AheadInv, ServedSettled, NoStaleAllow, Settled, Covered
  <1> QED
    BY <1>1, <1>2, <1>3, SyncInvariant, PTL DEF Spec
=============================================================================
