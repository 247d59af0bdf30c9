----------------------------- MODULE NewestWins -----------------------------
(***************************************************************************)
(* What an addressable registry promises ("newest per (kind, pubkey, d)"): *)
(* an entry, once there, is only ever replaced by one that is not older.   *)
(***************************************************************************)
EXTENDS Integers

CONSTANTS Address,   \* what entries are kept by
          Entry,     \* records with a created_at
          Empty      \* no entry

VARIABLE entries

Init == entries = [a \in Address |-> Empty]

Put(a, e) ==
  /\ entries[a] # Empty => e.created_at >= entries[a].created_at
  /\ entries' = [entries EXCEPT ![a] = e]

Next == \E a \in Address, e \in Entry : Put(a, e)

Spec == Init /\ [][Next]_entries
=============================================================================
