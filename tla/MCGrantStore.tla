---------------------------- MODULE MCGrantStore ----------------------------
(* Instance of GrantStore for TLC: two owners, a stranger, two controllers *)
(* and OTHERS; timestamps that collide; every kind of unusable event.      *)
EXTENDS GrantStore, TLC

CONSTANTS o1, o2, stranger, c1, c2, node, otherNode

NoLimit == [amount |-> 0, per_secs |-> 1, max_capacity |-> 1]
Broken  == [amount |-> 0, per_secs |-> 0, max_capacity |-> 1]

Generous == [methods |-> (OTHERS :> None), control |-> ("pay" :> NoLimit),
             notifications |-> (OTHERS :> None), quota |-> None]
Invalid  == [Generous EXCEPT !.quota = Broken]

Grant(owner, c, t, content) ==
  [kind |-> GRANT_KIND, pubkey |-> owner, p_tagged |-> TRUE,
   d |-> [node |-> node, controller |-> c], created_at |-> t,
   content |-> content]

MCEvents ==
  { Grant(o1, c1, 1, Generous), Grant(o2, c1, 2, Generous),
    Grant(o1, c1, 3, Generous),
    Grant(o1, c1, 2, EmptyProfile), Grant(o1, c1, 2, Unparseable),
    Grant(o2, c1, 3, Invalid),
    Grant(o1, c2, 1, Generous), Grant(o1, c2, 2, EmptyProfile),
    Grant(o1, OTHERS, 1, Generous), Grant(o2, OTHERS, 2, EmptyProfile),
    Grant(stranger, c2, 3, Generous) }
  \cup
  { [Grant(o1, c2, 3, Generous) EXCEPT !.p_tagged = FALSE],
    [Grant(o1, c2, 3, Generous) EXCEPT !.kind = "other"],
    [Grant(o1, c2, 3, Generous) EXCEPT !.d = None],
    [Grant(o1, c2, 3, Generous) EXCEPT !.d.node = otherNode] }
=============================================================================
