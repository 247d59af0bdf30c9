----------------------------- MODULE MCRegistry -----------------------------
(* Instances of Registry for TLC: c1 has grants of its own, c2 only ever   *)
(* comes under OTHERS.                                                     *)
EXTENDS Registry, TLC

CONSTANTS owner, node, otherNode, c1, c2

Tells(ntypes) ==
  [EmptyProfile EXCEPT !.notifications = [n \in ntypes |-> None]]

Grant(c, t, content) ==
  [kind |-> GRANT_KIND, pubkey |-> owner, p_tagged |-> TRUE,
   d |-> [node |-> node, controller |-> c], created_at |-> t,
   content |-> content]

Wants(c, t, ntypes) ==
  [kind |-> SUBSCRIPTION_KIND, pubkey |-> c, p_tagged |-> TRUE,
   d |-> node, created_at |-> t, content |-> [types |-> ntypes]]

MCGrants ==
  { Grant(c1, 1, Tells({"paid", "channel"})), Grant(c1, 2, Tells({"paid"})),
    Grant(c1, 3, Unparseable),
    Grant(OTHERS, 1, Tells({OTHERS})), Grant(OTHERS, 2, Tells({})) }

MCSubscriptions ==
  { Wants(c1, 1, {"paid", "channel"}), Wants(c1, 2, {"channel"}),
    Wants(c2, 1, {"paid"}), Wants(c2, 2, {"channel"}),
    [Wants(c1, 3, {}) EXCEPT !.content = Unreadable],
    [Wants(c1, 3, {"paid"}) EXCEPT !.d = otherNode],
    [Wants(c1, 3, {"paid"}) EXCEPT !.p_tagged = FALSE] }

Unsubscribes == { Wants(c1, 2, {}), Wants(c2, 3, {}) }

AllEvents == MCGrants \cup MCSubscriptions \cup Unsubscribes
=============================================================================
