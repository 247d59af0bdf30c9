-------------------------- MODULE GrantStoreProofs --------------------------
(***************************************************************************)
(* Proofs about grant.rs for every set of events, owners and controllers,  *)
(* and every order and repetition of deliveries.                           *)
(***************************************************************************)
EXTENDS GrantStore, TLAPS

\* What a delivery stores, and that it touches one target only.
LEMMA ApplyStores ==
  ASSUME TypeOK, NEW e \in Events
  PROVE  /\ ~ Trusted(e) => ApplyGrant(grants, e) = grants
         /\ Trusted(e) =>
              /\ Target(e) \in Targets
              /\ ApplyGrant(grants, e)
                   = IF Superseded(grants, e) THEN grants
                     ELSE [grants EXCEPT ![Target(e)] = VerifiedGrant(e)]
              /\ VerifiedGrant(e) \in VerifiedGrants
  BY EventsAssumption DEF ApplyGrant, Trusted, VerifiedGrants

\* A stored grant keeps the event's time.
LEMMA GrantTime ==
  ASSUME NEW e
  PROVE  VerifiedGrant(e).created_at = e.created_at
  BY DEF VerifiedGrant

\* A delivery stores nothing but the grant of a trusted event.
LEMMA TypeStep == TypeOK /\ [Next]_vars => TypeOK'
  <1> SUFFICES ASSUME TypeOK, [Next]_vars PROVE TypeOK'
    OBVIOUS
  <1>1. ASSUME NEW e \in Events, Deliver(e)
        PROVE  TypeOK'
    BY <1>1, ApplyStores DEF Deliver, TypeOK
  <1>2. CASE UNCHANGED vars
    BY <1>2 DEF vars, TypeOK
  <1> QED
    BY <1>1, <1>2 DEF Next

\* The registry only ever holds grants that passed every check of apply.
THEOREM TypeCorrect == Spec => []TypeOK
  <1>1. Init => TypeOK
    BY DEF Init, NoGrants, TypeOK
  <1> QED
    BY <1>1, TypeStep, PTL DEF Spec

-----------------------------------------------------------------------------
(* NewestInForce is inductive together with the types.                     *)

\* A delivery leaves a newest arrived grant in force for its target, and
\* all others as they are.
LEMMA NewestStep ==
  TypeOK /\ NewestInForce /\ [Next]_vars => NewestInForce'
  <1> SUFFICES ASSUME TypeOK, NewestInForce, [Next]_vars PROVE NewestInForce'
    OBVIOUS
  <1>1. ASSUME NEW e \in Events, Deliver(e)
        PROVE  NewestInForce'
    <2> SUFFICES ASSUME NEW t \in Targets
                 PROVE  IF Arrived(t)' = {}
                        THEN grants'[t] = None
                        ELSE \E h \in Arrived(t)' :
                               /\ grants'[t] = VerifiedGrant(h)
                               /\ \A f \in Arrived(t)' : f.created_at <= h.created_at
      BY DEF NewestInForce
    <2>1. /\ grants' = ApplyGrant(grants, e)
          /\ delivered' = delivered \cup {e}
      BY <1>1 DEF Deliver
    <2>2. CASE ~ (Trusted(e) /\ Target(e) = t)
      <3>1. Arrived(t)' = Arrived(t)
        BY <2>1, <2>2 DEF Arrived
      <3>2. grants'[t] = grants[t]
        BY <2>1, <2>2, ApplyStores DEF TypeOK
      <3> QED
        BY <3>1, <3>2 DEF NewestInForce
    <2>3. CASE Trusted(e) /\ Target(e) = t
      <3>1. Arrived(t)' = Arrived(t) \cup {e}
        BY <2>1, <2>3 DEF Arrived
      <3>2. \A f \in Arrived(t)' : f.created_at \in Nat
        BY <3>1, EventsAssumption DEF Arrived, TypeOK
      <3>3. CASE Arrived(t) = {}
        <4>1. grants[t] = None
          BY <3>3 DEF NewestInForce
        <4>2. grants'[t] = VerifiedGrant(e)
          BY <2>1, <2>3, <4>1, ApplyStores DEF Superseded, TypeOK
        <4>3. \A f \in Arrived(t)' : f.created_at <= e.created_at
          BY <3>1, <3>2, <3>3
        <4> QED
          BY <3>1, <4>2, <4>3
      <3>4. CASE Arrived(t) # {}
        <4>1. PICK h \in Arrived(t) :
                /\ grants[t] = VerifiedGrant(h)
                /\ \A f \in Arrived(t) : f.created_at <= h.created_at
          BY <3>4 DEF NewestInForce
        <4>2. grants[t] # None /\ grants[t].created_at = h.created_at
          BY <4>1, GrantTime, EventsAssumption DEF Arrived, TypeOK
        <4>3. h \in Arrived(t)' /\ e \in Arrived(t)'
          BY <3>1
        <4>4. CASE e.created_at < h.created_at
          <5>1. grants'[t] = VerifiedGrant(h)
            BY <2>1, <2>3, <4>1, <4>2, <4>4, ApplyStores DEF Superseded
          <5>2. \A f \in Arrived(t)' : f.created_at <= h.created_at
            BY <3>1, <3>2, <4>1, <4>3, <4>4
          <5> QED
            BY <4>3, <5>1, <5>2
        <4>5. CASE ~ (e.created_at < h.created_at)
          <5>1. grants'[t] = VerifiedGrant(e)
            BY <2>1, <2>3, <4>2, <4>5, ApplyStores DEF Superseded, TypeOK
          <5>2. \A f \in Arrived(t)' : f.created_at <= e.created_at
            BY <3>1, <3>2, <4>1, <4>3, <4>5
          <5> QED
            BY <4>3, <5>1, <5>2
        <4> QED
          BY <4>4, <4>5
      <3> QED
        BY <3>3, <3>4
    <2> QED
      BY <2>2, <2>3
  <1>2. CASE UNCHANGED vars
    BY <1>2 DEF vars, NewestInForce, Arrived
  <1> QED
    BY <1>1, <1>2 DEF Next

\* In every order and repetition of deliveries, the grant in force for each
\* target is a newest trusted one among those that arrived.
THEOREM NewestAlwaysInForce == Spec => []NewestInForce
  <1>1. Init => TypeOK /\ NewestInForce
    BY DEF Init, NoGrants, TypeOK, NewestInForce, Arrived
  <1> QED
    BY <1>1, TypeStep, NewestStep, PTL DEF Spec

-----------------------------------------------------------------------------
(* Revocation.                                                             *)

\* An empty map permits no name.
LEMMA EmptyMapDenies ==
  ASSUME NEW name
  PROVE  Lookup(EmptyMap, name).denied = "RESTRICTED"
  <1>1. DOMAIN EmptyMap = {}
    BY DEF EmptyMap
  <1> QED
    BY <1>1 DEF Lookup, Denied

\* A profile that is empty, or that is not valid, permits nothing.
LEMMA RevokedDenies ==
  ASSUME NEW p, ProfileEmpty(p) \/ ~ ProfileValid(p), NEW name
  PROVE  /\ AllowsWallet(p, name).denied # None
         /\ AllowsControl(p, name).denied # None
         /\ ~ AllowsNotification(p, name)
  <1>1. \A map : ~ ProfileValid(p) => Guarded(p, map, name).denied # None
    BY NoneAssumption DEF Guarded, Denied
  <1>2. ProfileEmpty(p) => /\ p.methods = EmptyMap
                           /\ p.control = EmptyMap
                           /\ p.notifications = EmptyMap
    BY DEF ProfileEmpty
  <1>3. ProfileValid(p) => Guarded(p, EmptyMap, name).denied # None
    BY EmptyMapDenies, NoneAssumption DEF Guarded
  <1> QED
    BY <1>1, <1>2, <1>3 DEF AllowsWallet, AllowsControl, AllowsNotification

\* A revoked controller stays without permissions until a grant at least as
\* new arrives: no older grant and no OTHERS grant gives them back.
THEOREM RevocationAlwaysHolds == Spec => []RevocationHolds
  <1>1. TypeOK /\ NewestInForce => RevocationHolds
    <2> SUFFICES ASSUME TypeOK, NewestInForce,
                        NEW e \in delivered,
                        Trusted(e), Target(e) # OTHERS, Revokes(e),
                        \A f \in Arrived(Target(e)) :
                          f.created_at >= e.created_at => Revokes(f)
                 PROVE  LET g == Resolve(grants, Target(e))
                        IN  /\ g # None
                            /\ \A name \in Names :
                                 /\ AllowsWallet(g.profile, name).denied # None
                                 /\ AllowsControl(g.profile, name).denied # None
                                 /\ ~ AllowsNotification(g.profile, name)
      BY DEF RevocationHolds
    <2> DEFINE c == Target(e)
    <2>1. c \in Controllers /\ c \in Targets /\ e \in Arrived(c)
      BY EventsAssumption DEF Trusted, Targets, TypeOK, Arrived
    <2>2. PICK h \in Arrived(c) :
            /\ grants[c] = VerifiedGrant(h)
            /\ \A f \in Arrived(c) : f.created_at <= h.created_at
      BY <2>1 DEF NewestInForce
    <2>3. h.created_at >= e.created_at
      <3>1. e.created_at <= h.created_at
        BY <2>1, <2>2
      <3>2. e.created_at \in Nat /\ h.created_at \in Nat
        BY EventsAssumption DEF Arrived, TypeOK
      <3> QED BY <3>1, <3>2
    <2>4. Revokes(h) /\ grants[c] # None
      BY <2>2, <2>3, EventsAssumption DEF Arrived, TypeOK
    <2>5. Resolve(grants, c) = VerifiedGrant(h)
      BY <2>1, <2>2, <2>4 DEF Resolve
    <2>6. \/ ProfileEmpty(VerifiedGrant(h).profile)
          \/ ~ ProfileValid(VerifiedGrant(h).profile)
      BY <2>4 DEF Revokes
    <2> HIDE DEF c
    <2>7. VerifiedGrant(h) # None
      BY <2>2, <2>4
    <2> QED
      BY <2>5, <2>6, <2>7, RevokedDenies DEF c
  <1> QED
    BY <1>1, TypeCorrect, NewestAlwaysInForce, PTL

-----------------------------------------------------------------------------
(* Refinement.                                                             *)

\* Every behaviour of the registry is one of a newest-wins register.
THEOREM RefinesRegister == Spec => ImplementsRegister
  <1>1. Init => Register!Init
    BY DEF Init, NoGrants, Register!Init
  <1>2. TypeOK /\ [Next]_vars => [Register!Next]_grants
    <2> SUFFICES ASSUME TypeOK, [Next]_vars, grants' # grants
                 PROVE  Register!Next
      OBVIOUS
    <2>1. PICK e \in Events : grants' = ApplyGrant(grants, e)
      BY DEF Next, Deliver, vars
    <2>2. /\ Trusted(e) /\ ~ Superseded(grants, e)
          /\ Target(e) \in Targets /\ VerifiedGrant(e) \in VerifiedGrants
          /\ grants' = [grants EXCEPT ![Target(e)] = VerifiedGrant(e)]
      BY <2>1, ApplyStores
    <2>3. ASSUME grants[Target(e)] # None
          PROVE  VerifiedGrant(e).created_at >= grants[Target(e)].created_at
      <3>1. PICK f \in Events : grants[Target(e)] = VerifiedGrant(f)
        BY <2>2, <2>3 DEF TypeOK, VerifiedGrants
      <3>2. f.created_at \in Nat /\ e.created_at \in Nat
        BY EventsAssumption
      <3>3. ~ (e.created_at < grants[Target(e)].created_at)
        BY <2>2, <2>3 DEF Superseded
      <3> QED BY <3>1, <3>2, <3>3, GrantTime
    <2>4. Register!Put(Target(e), VerifiedGrant(e))
      BY <2>2, <2>3 DEF Register!Put
    <2> QED
      BY <2>2, <2>4 DEF Register!Next
  <1> QED
    BY <1>1, <1>2, TypeCorrect, PTL DEF Spec, ImplementsRegister, Register!Spec
=============================================================================
