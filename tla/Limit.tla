------------------------------- MODULE Limit -------------------------------
(***************************************************************************)
(* Rate limits and quotas (limit.rs): a refill rule, and the bucket it     *)
(* governs.  One token is one call for a method rate and one satoshi for a *)
(* quota.  The operators are pure: the state that holds a bucket belongs   *)
(* to the modules Bucket (one bucket alone) and Pipeline (Usage).          *)
(*                                                                         *)
(* Integers keep their width: a u64 is a number up to U64Max, and the u128 *)
(* the refill is computed in has twice the bits of a u64.                  *)
(***************************************************************************)
EXTENDS Integers

CONSTANT U64Max      \* u64::MAX

ASSUME U64Assumption == U64Max \in Nat \ {0}

U64 == 0 .. U64Max
U128Max == (U64Max + 1) * (U64Max + 1) - 1

RateLimitRule == [amount : U64, per_secs : U64, max_capacity : U64]

Buckets == [balance : U64, since : U64]

-----------------------------------------------------------------------------
(* Saturating u128 and u64 arithmetic.                                     *)

\* Mutant of SatMul: the product is kept in a u64.
SatMulInU64(x, y) == IF x * y > U64Max THEN U64Max ELSE x * y

SatMul(x, y) == IF x * y > U128Max THEN U128Max ELSE x * y
SatAdd(x, y) == IF x + y > U128Max THEN U128Max ELSE x + y
SatSub(x, y) == IF x < y THEN 0 ELSE x - y
Lesser(x, y) == IF x < y THEN x ELSE y

-----------------------------------------------------------------------------

IsValid(rule) == rule.per_secs > 0

Full(rule, now) == [balance |-> rule.max_capacity, since |-> now]

BalanceAt(b, now, rule) ==
  IF ~ IsValid(rule)
  THEN 0
  ELSE LET elapsed == SatSub(now, b.since)
           added   == SatMul(rule.amount, elapsed) \div rule.per_secs
       IN  Lesser(SatAdd(b.balance, added), rule.max_capacity)

CanWithdraw(b, cost, now, rule) == BalanceAt(b, now, rule) >= cost

\* Mutant of Withdraw: "since" stays behind, as in dln-node#4.
WithdrawKeepingSince(b, cost, now, rule) ==
  IF CanWithdraw(b, cost, now, rule)
  THEN [b EXCEPT !.balance = BalanceAt(b, now, rule) - cost]
  ELSE b

\* Mutant of Withdraw: off by one in the comparison with the cost.
WithdrawOneTooMany(b, cost, now, rule) ==
  IF CanWithdraw(b, cost - 1, now, rule)
  THEN [balance |-> BalanceAt(b, now, rule) - cost, since |-> now]
  ELSE b

\* Mutant of Withdraw: a fee is added after the comparison.
WithdrawPlusFee(b, cost, now, rule) ==
  IF CanWithdraw(b, cost, now, rule)
  THEN [balance |-> BalanceAt(b, now, rule) - (cost + 1), since |-> now]
  ELSE b

\* The bucket after withdraw(cost), whether or not the bucket covered it:
\* CanWithdraw is the boolean the call returns.
Withdraw(b, cost, now, rule) ==
  IF CanWithdraw(b, cost, now, rule)
  THEN [balance |-> BalanceAt(b, now, rule) - cost, since |-> now]
  ELSE b
=============================================================================
