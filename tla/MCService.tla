----------------------------- MODULE MCService -----------------------------
(* Instances of Service for TLC: c1 is granted the method, then revoked by *)
(* name; later everyone is granted it through OTHERS.                      *)
EXTENDS Service

CONSTANTS owner, node, c1, r1, r2

Pays == [EmptyProfile EXCEPT !.control = [m \in {"pay"} |-> None]]

Grant(c, t, content) ==
  [kind |-> GRANT_KIND, pubkey |-> owner, p_tagged |-> TRUE,
   d |-> [node |-> node, controller |-> c], created_at |-> t,
   content |-> content]

Wants(c, t) ==
  [kind |-> SUBSCRIPTION_KIND, pubkey |-> c, p_tagged |-> TRUE,
   d |-> node, created_at |-> t, content |-> [types |-> {"paid"}]]

Payment == [kind |-> "request", pubkey |-> c1, method |-> "pay"]

Granted == Grant(c1, 1, Pays)
Revoked == Grant(c1, 2, EmptyProfile)
Renewed == Grant(c1, 3, Pays)
ForOthers == Grant(OTHERS, 3, Pays)

AllGrants == {Granted, Revoked, ForOthers}
RevokeAndOthers == {Revoked, ForOthers}
OthersSubscribe == {Revoked, ForOthers, Wants(c1, 4)}
RenewedUnderSubscription == {Granted, Wants(c1, 2), Renewed}

OneRequest == {Payment}
NoRequests == {}
=============================================================================
