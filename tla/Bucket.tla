------------------------------- MODULE Bucket -------------------------------
(***************************************************************************)
(* One live bucket (limit.rs) under one rule, used at instants read from a *)
(* clock: checked, withdrawn from, and watched over an arbitrary window.   *)
(*                                                                         *)
(* Timestamp::now() reads a wall clock, which runs forward and may be set  *)
(* back, also to before the instant the bucket was last withdrawn from.    *)
(***************************************************************************)
EXTENDS Limit

CONSTANTS MaxTime,     \* bound on the clock
          MaxAdvance,  \* bound on the seconds it runs forward in a window
          Rules        \* the rules a bucket may be under

ASSUME MaxTimeAssumption == MaxTime \in U64 /\ MaxAdvance \in Nat
ASSUME RulesAssumption == Rules \subseteq RateLimitRule

VARIABLES rule,      \* the rule in force; fixed for the bucket's life
          bucket,
          clock,
          advanced,  \* history: seconds the clock ran forward since the
                     \* observed window was opened, those run twice included
          spent,     \* history: tokens withdrawn since then
          promise    \* history: a cost that a check said yes to since the
                     \* last withdrawal, and when

vars == <<rule, bucket, clock, advanced, spent, promise>>

Promises == [cost : U64, at : 0 .. MaxTime]
NoPromise == [cost |-> 0, at |-> 0]

Init ==
  /\ rule \in Rules
  /\ clock = 0
  /\ bucket = Full(rule, clock)
  /\ advanced = 0
  /\ spent = 0
  /\ promise = NoPromise

\* The promise observed from now on, if the check says yes: this one, or
\* still the earlier one.
Promised(cost) ==
  promise' \in IF CanWithdraw(bucket, cost, clock, rule)
              THEN {promise, [cost |-> cost, at |-> clock]} ELSE {promise}

\* Mutant of Check: a check that moves "since" and drops what has accrued.
CheckThatLeaks(cost) ==
  /\ Promised(cost)
  /\ bucket' = [bucket EXCEPT !.since = clock]
  /\ UNCHANGED <<rule, clock, advanced, spent>>

Check(cost) ==
  /\ Promised(cost)
  /\ UNCHANGED <<rule, bucket, clock, advanced, spent>>

Take(cost) ==
  /\ bucket' = Withdraw(bucket, cost, clock, rule)
  /\ IF CanWithdraw(bucket, cost, clock, rule)
     THEN spent' = spent + cost /\ promise' = NoPromise
     ELSE UNCHANGED <<spent, promise>>
  /\ UNCHANGED <<rule, clock, advanced>>

OpenWindow ==
  /\ advanced' = 0
  /\ spent' = 0
  /\ UNCHANGED <<rule, bucket, clock, promise>>

Tick ==
  /\ clock < MaxTime /\ advanced < MaxAdvance
  /\ clock' = clock + 1
  /\ advanced' = advanced + 1
  /\ UNCHANGED <<rule, bucket, spent, promise>>

SetBack ==
  /\ \E earlier \in 0 .. (clock - 1) : clock' = earlier
  /\ UNCHANGED <<rule, bucket, advanced, spent, promise>>

Next ==
  \/ \E cost \in U64 : Check(cost) \/ Take(cost)
  \/ OpenWindow
  \/ Tick
  \/ SetBack

Spec == Init /\ [][Next]_vars

-----------------------------------------------------------------------------
(* Properties.                                                             *)

\* The state is of the declared types.
TypeOK ==
  /\ rule \in Rules
  /\ bucket \in Buckets
  /\ clock \in 0 .. MaxTime
  /\ advanced \in 0 .. MaxAdvance
  /\ spent \in Nat
  /\ promise \in Promises

\* Over every window, whenever it starts, no more is withdrawn than one full
\* bucket plus what the rule refills in the seconds the clock runs forward
\* meanwhile.  Crediting an interval twice (the comment at withdraw's last
\* assignment) breaks it; setting the clock back does not, it only makes the
\* seconds that are then run again count again.
WindowBound ==
  rule.per_secs * spent
    <= rule.per_secs * rule.max_capacity + rule.amount * advanced

\* A yes from can_withdraw stays good until the next withdrawal, at any
\* instant not before the one it was given at: checking takes nothing, time
\* only adds, and a clock that was set back has lost nothing once it is back.
PromiseKept ==
  promise.at <= clock => promise.cost <= BalanceAt(bucket, clock, rule)

\* The u128 arithmetic of balance_at never saturates and its result always
\* fits back into a u64: the balance is the one the documentation's formula
\* gives in unbounded arithmetic.
RefillIsExact ==
  IsValid(rule) =>
    LET added == (rule.amount * SatSub(clock, bucket.since)) \div rule.per_secs
    IN  BalanceAt(bucket, clock, rule)
          = Lesser(bucket.balance + added, rule.max_capacity)
=============================================================================
