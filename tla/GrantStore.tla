----------------------------- MODULE GrantStore -----------------------------
(***************************************************************************)
(* The grants a node service has applied, while relays deliver grant       *)
(* events in any order and any number of times.                            *)
(***************************************************************************)
EXTENDS Grants

CONSTANTS Events,    \* the kind-30198 events (and others) that exist
          Names      \* the method and notification names callers may use

ASSUME EventsAssumption ==
  \A e \in Events :
    /\ e.created_at \in Nat
    /\ Target(e) \in Targets \cup {None}
    /\ VerifiedGrant(e) # None

VARIABLES grants,
          delivered  \* history: the events apply has been called with

vars == <<grants, delivered>>

Init ==
  /\ grants = NoGrants
  /\ delivered = {}

Deliver(e) ==
  /\ grants' = ApplyGrant(grants, e)
  /\ delivered' = delivered \cup {e}

Next == \E e \in Events : Deliver(e)

Spec == Init /\ [][Next]_vars

-----------------------------------------------------------------------------
(* Properties.                                                             *)

VerifiedGrants == {VerifiedGrant(e) : e \in {f \in Events : Trusted(f)}}

\* The state is of the declared types.
TypeOK ==
  /\ grants \in [Targets -> VerifiedGrants \cup {None}]
  /\ delivered \subseteq Events

\* The trusted events for target t that have arrived.
Arrived(t) == {e \in delivered : Trusted(e) /\ Target(e) = t}

\* Whatever the order and repetition of deliveries, the grant in force for a
\* target is a newest one among the trusted events that arrived for it, and
\* there is none exactly when none arrived (Grants::apply).
NewestInForce ==
  \A t \in Targets :
    IF Arrived(t) = {}
    THEN grants[t] = None
    ELSE \E e \in Arrived(t) :
           /\ grants[t] = VerifiedGrant(e)
           /\ \A f \in Arrived(t) : f.created_at <= e.created_at

\* An event that revokes: no permissions, an unusable rule, or no profile.
Revokes(e) ==
  LET p == VerifiedGrant(e).profile IN ProfileEmpty(p) \/ ~ ProfileValid(p)

\* Once a revocation of a controller has arrived and no grant of the same
\* age or newer has, the controller may call nothing and receive nothing, whatever
\* older grants arrive later and whatever OTHERS allows (apply, resolve,
\* guard and lookup together).
RevocationHolds ==
  \A e \in delivered :
    LET c == Target(e)
    IN  ( /\ Trusted(e) /\ c # OTHERS /\ Revokes(e)
          /\ \A f \in Arrived(c) : f.created_at >= e.created_at => Revokes(f) )
        => LET g == Resolve(grants, c)
           IN  /\ g # None
               /\ \A name \in Names :
                    /\ AllowsWallet(g.profile, name).denied # None
                    /\ AllowsControl(g.profile, name).denied # None
                    /\ ~ AllowsNotification(g.profile, name)

\* The registry implements a newest-wins register: no delivery makes a grant
\* disappear or replaces it by an older one.
Register == INSTANCE NewestWins
              WITH Address <- Targets, Entry <- VerifiedGrants,
                   Empty <- None, entries <- grants
ImplementsRegister == Register!Spec
=============================================================================
