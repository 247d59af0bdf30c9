------------------------------ MODULE Profile ------------------------------
(***************************************************************************)
(* The permissions a grant carries (profile.rs).                           *)
(*                                                                         *)
(* Each of the three maps is a function from the names it lists to the     *)
(* rate rule of that entry, None standing for an entry without a rate.  An *)
(* absent map and an empty one are both the empty function: lookup,        *)
(* is_valid and is_empty do not tell them apart.                           *)
(***************************************************************************)
EXTENDS Limit

CONSTANT None      \* Option::None

ASSUME NoneAssumption == None \notin {"UNAUTHORIZED", "RESTRICTED"}

\* The reserved key: the rule for names without an entry of their own, and
\* the grant for controllers without a grant of their own.
OTHERS == "OTHERS"

EmptyMap == << >>

\* UsageProfile::default()
EmptyProfile ==
  [methods |-> EmptyMap, control |-> EmptyMap, notifications |-> EmptyMap,
   quota |-> None]

RuleOK(rate) == rate = None \/ IsValid(rate)
MapOK(map) == \A name \in DOMAIN map : RuleOK(map[name])

\* UsageProfile::is_valid, which guard() requires before any lookup.
ProfileValid(p) ==
  /\ MapOK(p.methods)
  /\ MapOK(p.control)
  /\ MapOK(p.notifications)
  /\ RuleOK(p.quota)

\* UsageProfile::is_empty
ProfileEmpty(p) == {p.methods, p.control, p.notifications} = {EmptyMap}

Allowed(rate) == [denied |-> None, rate |-> rate]
Denied(why)   == [denied |-> why, rate |-> None]

Lookup(map, name) ==
  LET key == IF name \in DOMAIN map THEN name ELSE OTHERS
  IN  IF key \in DOMAIN map THEN Allowed(map[key]) ELSE Denied("RESTRICTED")

Guarded(p, map, name) ==
  IF ProfileValid(p) THEN Lookup(map, name) ELSE Denied("UNAUTHORIZED")

AllowsWallet(p, method)      == Guarded(p, p.methods, method)
AllowsControl(p, method)     == Guarded(p, p.control, method)
AllowsNotification(p, ntype) == Guarded(p, p.notifications, ntype).denied = None
=============================================================================
