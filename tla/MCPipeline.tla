----------------------------- MODULE MCPipeline -----------------------------
(* Instances of Pipeline for TLC.                                          *)
EXTENDS Pipeline, TLC

CONSTANTS owner, node, c1

Rule(amount, per_secs, cap) ==
  [amount |-> amount, per_secs |-> per_secs, max_capacity |-> cap]

Grant(c, t, content) ==
  [kind |-> GRANT_KIND, pubkey |-> owner, p_tagged |-> TRUE,
   d |-> [node |-> node, controller |-> c], created_at |-> t,
   content |-> content]

Spender(rate, quota) ==
  [methods |-> ("pay" :> rate), control |-> EmptyMap,
   notifications |-> EmptyMap, quota |-> quota]

MCServed == [wallet |-> {"pay", "info"}, control |-> {"pay"}]

MCQuotaCeiling == Rule(1, 1, 2)
MCRateCeiling  == Rule(1, 1, 1)

\* c1 spends under OTHERS, then under a quota of its own that is later
\* widened; it is revoked last.
MCGrants ==
  { Grant(c1, 1, Spender(Rule(1, 2, 1), Rule(0, 1, 1))),
    Grant(c1, 2, Spender(Rule(1, 1, 1), Rule(1, 1, 2))),
    Grant(c1, 3, EmptyProfile),
    Grant(OTHERS, 1, Spender(None, Rule(1, 2, 2))) }
=============================================================================
