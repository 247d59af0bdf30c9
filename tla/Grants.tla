------------------------------- MODULE Grants -------------------------------
(***************************************************************************)
(* Access grants, kind 30198 (grant.rs): the checks that make a grant      *)
(* event trustworthy, what applying one does to the registry, and which    *)
(* grant applies to a caller.  The operators take the registry as an       *)
(* argument; GrantStore, Pipeline and Service hold it in a variable.       *)
(*                                                                         *)
(* A registry maps every target to the grant in force for it, or None.  A  *)
(* target is a controller's name (by_controller) or OTHERS (others).       *)
(* A Rejected result other than Unparseable leaves the registry as it was, *)
(* so the model keeps no separate name for each.                           *)
(***************************************************************************)
EXTENDS Profile

CONSTANTS Node,          \* the node service's own key
          Owners,        \* the keys whose grants it accepts
          Controllers,   \* the names a d tag may give after the colon
          Unparseable    \* a content that is not a UsageProfile

ASSUME OthersIsReserved == OTHERS \notin Controllers /\ None \notin Controllers

GRANT_KIND == "grant"

Targets == Controllers \cup {OTHERS}

NoGrants == [t \in Targets |-> None]

\* The controller the d tag "<node>:<controller>" names, if it is addressed
\* to this node.  A d tag that is absent or has no colon is None.
Target(e) ==
  IF e.d # None /\ e.d.node = Node /\ e.d.controller # ""
  THEN e.d.controller
  ELSE None

Trusted(e) ==
  /\ e.kind = GRANT_KIND
  /\ e.pubkey \in Owners
  /\ e.p_tagged
  /\ Target(e) # None

\* Mutant of Superseded: the comparison the wrong way round.
SupersededByOlder(grants, e) ==
  /\ grants[Target(e)] # None
  /\ e.created_at > grants[Target(e)].created_at

Superseded(grants, e) ==
  /\ grants[Target(e)] # None
  /\ e.created_at < grants[Target(e)].created_at

\* A content that does not parse is stored as the empty profile: it denies,
\* and does not leave an older grant standing.
VerifiedGrant(e) ==
  [profile    |-> IF e.content = Unparseable THEN EmptyProfile ELSE e.content,
   created_at |-> e.created_at,
   owner      |-> e.pubkey]

\* Mutant of ApplyGrant: a content that does not parse is ignored.
ApplyParsedGrant(grants, e) ==
  IF Trusted(e) /\ ~ Superseded(grants, e) /\ e.content # Unparseable
  THEN [grants EXCEPT ![Target(e)] = VerifiedGrant(e)]
  ELSE grants

\* Mutant of ApplyGrant: an empty profile removes the controller's grant.
ApplyRemovingEmpty(grants, e) ==
  IF Trusted(e) /\ ~ Superseded(grants, e)
  THEN [grants EXCEPT ![Target(e)] =
          IF ProfileEmpty(VerifiedGrant(e).profile)
          THEN None ELSE VerifiedGrant(e)]
  ELSE grants

\* Mutant of ApplyGrant: any author's grant is stored.
ApplyUnchecked(grants, e) ==
  IF Target(e) # None /\ ~ Superseded(grants, e)
  THEN [grants EXCEPT ![Target(e)] = VerifiedGrant(e)]
  ELSE grants

ApplyGrant(grants, e) ==
  IF Trusted(e) /\ ~ Superseded(grants, e)
  THEN [grants EXCEPT ![Target(e)] = VerifiedGrant(e)]
  ELSE grants

\* The grant that applies to a caller, None for Denied::Unauthorized.
Resolve(grants, caller) ==
  IF caller \in Controllers /\ grants[caller] # None
  THEN grants[caller]
  ELSE grants[OTHERS]
=============================================================================
