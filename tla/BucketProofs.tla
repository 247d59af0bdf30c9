---------------------------- MODULE BucketProofs ----------------------------
(***************************************************************************)
(* Proofs about limit.rs for every rule, every width of u64 and every      *)
(* bound on the clock, which may be set back at any time: the arithmetic   *)
(* of balance_at is exact, a check's yes is kept, and no window sees more  *)
(* than one full bucket plus the refill of the seconds run in it.          *)
(***************************************************************************)
EXTENDS Bucket, CommonProofs

-----------------------------------------------------------------------------
(* The inductive invariant.  WindowBound alone is not inductive: it says   *)
(* nothing of what the bucket still holds and has yet to be credited.      *)
(* Once something was spent in the window, what was spent, what is left    *)
(* and the refill that is due are together covered by the ceiling and the  *)
(* seconds run.  The refill due shrinks when the clock is set back, the    *)
(* seconds run do not, which is why the bound counts the latter.           *)

Due == SatSub(clock, bucket.since)

Accounted ==
  \/ spent = 0
  \/ rule.per_secs * (spent + bucket.balance) + rule.amount * Due
       <= rule.per_secs * rule.max_capacity + rule.amount * advanced

\* A promise was good when it was given, and nothing was taken since.
PromiseGood == promise.cost <= BalanceAt(bucket, promise.at, rule)

IInv ==
  /\ TypeOK
  /\ bucket.balance <= rule.max_capacity
  /\ Accounted
  /\ PromiseGood

\* The numeric facts about the state that the steps below use.
LEMMA Numbers ==
  ASSUME TypeOK
  PROVE  /\ rule \in RateLimitRule
         /\ bucket \in Buckets
         /\ clock \in U64 /\ clock \in Nat /\ advanced \in Nat /\ spent \in Nat
         /\ MaxTime \in Nat /\ MaxAdvance \in Nat
         /\ rule.amount \in Nat /\ rule.per_secs \in Nat
         /\ rule.max_capacity \in Nat /\ rule.max_capacity \in U64
         /\ bucket.balance \in Nat /\ bucket.since \in Nat
         /\ promise.cost \in U64 /\ promise.at \in U64
         /\ promise.cost \in Nat /\ promise.at \in Nat
         /\ Due \in Nat
  <1>1. rule \in RateLimitRule /\ bucket \in Buckets
    BY RulesAssumption DEF TypeOK
  <1>2. promise.cost \in U64 /\ promise.at \in 0 .. MaxTime
    BY DEF TypeOK, Promises
  <1>3. clock \in Nat /\ bucket.since \in Nat
    BY <1>1, U64Assumption, MaxTimeAssumption DEF TypeOK, Buckets, U64
  <1> QED
    BY <1>1, <1>2, <1>3, U64Assumption, MaxTimeAssumption
       DEF TypeOK, RateLimitRule, Buckets, U64, Due, SatSub

\* The accounting bounds what is spent in the window.
LEMMA AccountedBounds ==
  ASSUME IInv
  PROVE  WindowBound
  <1> USE Numbers DEF IInv
  <1> DEFINE p == rule.per_secs
  <1> DEFINE cap == p * rule.max_capacity
  <1>1. /\ p * spent \in Nat /\ cap \in Nat /\ p * bucket.balance \in Nat
        /\ rule.amount * Due \in Nat /\ rule.amount * advanced \in Nat
    OBVIOUS
  <1>2. CASE spent = 0
    <2>1. p * spent = 0
      BY <1>2
    <2> QED
      BY <1>1, <2>1 DEF WindowBound
  <1>3. CASE spent # 0
    <2>1. p * (spent + bucket.balance) + rule.amount * Due <= cap + rule.amount * advanced
      BY <1>3 DEF Accounted
    <2>2. p * (spent + bucket.balance) = p * spent + p * bucket.balance
      OBVIOUS
    <2> QED
      BY <1>1, <2>1, <2>2 DEF WindowBound
  <1> QED
    BY <1>2, <1>3

\* A promise that was good is good at every instant that is not earlier.
LEMMA GoodIsKept ==
  ASSUME IInv
  PROVE  PromiseKept
  <1> SUFFICES ASSUME promise.at <= clock
               PROVE  promise.cost <= BalanceAt(bucket, clock, rule)
    BY DEF PromiseKept
  <1> USE Numbers DEF IInv
  <1>1. BalanceAt(bucket, promise.at, rule) <= BalanceAt(bucket, clock, rule)
    BY BalanceMono
  <1>2. /\ BalanceAt(bucket, promise.at, rule) \in U64
        /\ BalanceAt(bucket, clock, rule) \in U64
    BY BalanceType
  <1> QED
    BY <1>1, <1>2, U64Assumption DEF PromiseGood, U64

\* A promise of nothing is good.
LEMMA NoPromiseGood ==
  ASSUME TypeOK, promise = NoPromise
  PROVE  PromiseGood
  <1>1. BalanceAt(bucket, promise.at, rule) \in U64 /\ promise.cost = 0
    BY Numbers, BalanceType DEF NoPromise
  <1> QED BY <1>1, U64Assumption DEF PromiseGood, U64

\* A new bucket is full and nothing has been spent or promised.
LEMMA InitIInv == Init => IInv
  <1> SUFFICES ASSUME Init PROVE IInv
    OBVIOUS
  <1>1. rule \in RateLimitRule
    BY RulesAssumption DEF Init
  <1>2. 0 \in U64 /\ 0 \in 0 .. MaxTime /\ 0 \in 0 .. MaxAdvance
    BY U64Assumption, MaxTimeAssumption DEF U64
  <1>3. bucket = [balance |-> rule.max_capacity, since |-> 0]
    BY DEF Init, Full
  <1>4. bucket \in Buckets
    BY <1>1, <1>2, <1>3 DEF Buckets, RateLimitRule
  <1>5. TypeOK
    BY <1>2, <1>4 DEF Init, TypeOK, NoPromise, Promises
  <1>6. bucket.balance = rule.max_capacity
    BY <1>3
  <1>7. PromiseGood
    BY <1>5, NoPromiseGood DEF Init
  <1>8. rule.max_capacity \in Nat
    BY <1>5, Numbers
  <1> QED
    BY <1>5, <1>6, <1>7, <1>8 DEF IInv, Accounted, Init

\* A withdrawal keeps the accounting: what it takes was accounted for.
LEMMA TakeAccounted ==
  ASSUME IInv, NEW cost \in U64, Take(cost)
  PROVE  Accounted'
  <1> USE Numbers DEF IInv
  <1> DEFINE bal == BalanceAt(bucket, clock, rule)
  <1>1. CASE ~ CanWithdraw(bucket, cost, clock, rule)
    BY <1>1 DEF Take, Withdraw, Accounted, Due
  <1>2. CASE CanWithdraw(bucket, cost, clock, rule)
    <2>1. /\ bucket' = [balance |-> bal - cost, since |-> clock]
          /\ spent' = spent + cost
          /\ UNCHANGED <<rule, clock, advanced>>
      BY <1>2 DEF Take, Withdraw
    <2>2. /\ bucket'.since = clock /\ bucket'.balance = bal - cost
          /\ Due' = 0
      BY <2>1 DEF Due, SatSub
    <2>3. bal \in Nat /\ bal <= rule.max_capacity /\ cost \in Nat /\ cost <= bal
      BY <1>2, BalanceType, U64Assumption DEF CanWithdraw, U64
    <2> HIDE DEF bal
    <2>4. (spent + cost) + (bal - cost) = spent + bal
      BY <2>3
    <2>5. rule.per_secs * (spent + bal)
            <= rule.per_secs * rule.max_capacity + rule.amount * advanced
      <3> DEFINE p == rule.per_secs
      <3> DEFINE cap == p * rule.max_capacity
      <3>1. /\ p * (spent + bal) = p * spent + p * bal
            /\ p * spent \in Nat /\ p * bal \in Nat /\ cap \in Nat
            /\ p * bucket.balance \in Nat
            /\ rule.amount * advanced \in Nat /\ rule.amount * Due \in Nat
        BY <2>3
      <3>2. p * bal <= cap
        BY <2>3, MulMono
      <3>3. CASE spent = 0
        <4>1. p * spent = 0
          BY <3>3
        <4>2. p * (spent + bal) <= cap + rule.amount * advanced
          <5> HIDE DEF p, cap
          <5> QED BY <3>1, <3>2, <4>1
        <4> QED BY <4>2
      <3>4. CASE ~ IsValid(rule)
        <4>1. p = 0
          BY <3>4 DEF IsValid
        <4>2. p * (spent + bal) = 0
          BY <4>1, <2>3
        <4>3. p * (spent + bal) <= cap + rule.amount * advanced
          <5> HIDE DEF p, cap
          <5> QED BY <3>1, <4>2
        <4> QED BY <4>3
      <3>5. CASE spent # 0 /\ IsValid(rule)
        <4>1. p * bal <= p * bucket.balance + rule.amount * Due
          BY <3>5, RefillBound DEF bal, Due
        <4>2. p * (spent + bucket.balance) + rule.amount * Due
                <= cap + rule.amount * advanced
          BY <3>5 DEF Accounted
        <4>3. p * (spent + bucket.balance) = p * spent + p * bucket.balance
          OBVIOUS
        <4>4. p * (spent + bal) <= cap + rule.amount * advanced
          <5> HIDE DEF p, cap
          <5> QED BY <3>1, <4>1, <4>2, <4>3
        <4> QED BY <4>4
      <3> QED BY <3>3, <3>4, <3>5
    <2>6. rule.amount * Due' = 0 /\ rule.per_secs * (spent + bal) \in Nat
      BY <2>2, <2>3
    <2>7. rule.per_secs * (spent' + bucket'.balance) + rule.amount * Due'
            <= rule.per_secs * rule.max_capacity + rule.amount * advanced
      BY <2>1, <2>2, <2>4, <2>5, <2>6
    <2> QED
      BY <2>1, <2>7 DEF Accounted
  <1> QED
    BY <1>1, <1>2

\* The account follows the clock: a second that passes is a second run, and
\* a clock that is set back only makes less refill due.
LEMMA ClockAccounted ==
  ASSUME IInv, NEW gain \in Nat, UNCHANGED <<rule, bucket, spent>>,
         clock' \in Nat, clock' <= clock + gain, advanced' = advanced + gain
  PROVE  Accounted'
  <1> USE Numbers DEF IInv
  <1>1. CASE spent = 0
    BY <1>1 DEF Accounted
  <1>2. CASE spent # 0
    <2> DEFINE a == rule.amount
    <2> DEFINE old == rule.per_secs * (spent + bucket.balance)
    <2> DEFINE cap == rule.per_secs * rule.max_capacity
    <2>1. /\ Due' = SatSub(clock', bucket.since)
          /\ Due' \in Nat /\ Due' <= Due + gain
      BY SatSubStep DEF Due
    <2>2. old + a * Due <= cap + a * advanced
      BY <1>2 DEF Accounted
    <2>3. /\ a * Due' <= a * (Due + gain)
          /\ a * (Due + gain) = a * Due + a * gain
          /\ a * (advanced + gain) = a * advanced + a * gain
      BY <2>1, MulMono
    <2>4. /\ a * Due' \in Nat /\ a * Due \in Nat /\ a * gain \in Nat
          /\ a * advanced \in Nat /\ old \in Nat /\ cap \in Nat
      BY <2>1
    <2> HIDE DEF a, old, cap
    <2>5. old + a * Due' <= cap + a * (advanced + gain)
      BY <2>2, <2>3, <2>4
    <2> QED
      BY <2>5 DEF Accounted, a, old, cap
  <1> QED BY <1>1, <1>2

\* Every step keeps the invariant.
LEMMA NextIInv == IInv /\ [Next]_vars => IInv'
  <1> SUFFICES ASSUME IInv, [Next]_vars PROVE IInv'
    OBVIOUS
  <1> USE DEF IInv
  <1>1. ASSUME NEW cost \in U64, Check(cost)
        PROVE  IInv'
    <2>1. UNCHANGED <<rule, bucket, clock, advanced, spent>>
      BY <1>1 DEF Check
    <2>2. promise' \in Promises /\ PromiseGood'
      <3>1. CASE promise' = promise
        BY <2>1, <3>1 DEF TypeOK, PromiseGood
      <3>2. CASE /\ CanWithdraw(bucket, cost, clock, rule)
                 /\ promise' = [cost |-> cost, at |-> clock]
        <4>1. cost <= BalanceAt(bucket, clock, rule)
          <5>1. BalanceAt(bucket, clock, rule) \in U64
            BY Numbers, BalanceType
          <5> QED BY <3>2, <5>1, U64Assumption DEF CanWithdraw, U64
        <4>2. promise'.cost = cost /\ promise'.at = clock /\ promise' \in Promises
          BY <3>2 DEF Promises, TypeOK
        <4> QED BY <2>1, <4>1, <4>2 DEF PromiseGood
      <3> QED BY <1>1, <3>1, <3>2 DEF Check, Promised
    <2> QED BY <2>1, <2>2 DEF TypeOK, Accounted, Due
  <1>2. ASSUME NEW cost \in U64, Take(cost)
        PROVE  IInv'
    <2>1. Accounted'
      BY <1>2, TakeAccounted
    <2>2. UNCHANGED <<rule, clock, advanced>>
      BY <1>2 DEF Take
    <2>3. CASE ~ CanWithdraw(bucket, cost, clock, rule)
      <3>1. UNCHANGED <<bucket, spent, promise>>
        BY <1>2, <2>3 DEF Take, Withdraw
      <3> QED BY <2>1, <2>2, <3>1 DEF TypeOK, PromiseGood
    <2>4. CASE CanWithdraw(bucket, cost, clock, rule)
      <3> DEFINE bal == BalanceAt(bucket, clock, rule)
      <3>1. /\ bucket' = [balance |-> bal - cost, since |-> clock]
            /\ spent' = spent + cost /\ promise' = NoPromise
        BY <1>2, <2>4 DEF Take, Withdraw
      <3>2. bal \in U64 /\ bal <= rule.max_capacity
        BY Numbers, BalanceType
      <3>3. /\ bal - cost \in U64 /\ bal - cost <= rule.max_capacity
            /\ cost \in Nat
        BY <2>4, <3>2, Numbers, U64Assumption DEF CanWithdraw, U64
      <3> HIDE DEF bal
      <3>4. bucket' \in Buckets /\ bucket'.balance = bal - cost
        BY <3>1, <3>3, Numbers DEF Buckets
      <3>5. NoPromise \in Promises
        BY U64Assumption, MaxTimeAssumption DEF NoPromise, Promises, U64
      <3>6. TypeOK'
        BY <2>2, <3>1, <3>3, <3>4, <3>5, Numbers DEF TypeOK
      <3>7. PromiseGood'
        <4>1. 0 \in U64 /\ promise'.cost = 0 /\ promise'.at = 0
          BY <3>1, U64Assumption DEF NoPromise, U64
        <4>2. BalanceAt(bucket', 0, rule) \in U64
          BY <3>4, <4>1, Numbers, BalanceType
        <4> QED BY <2>2, <4>1, <4>2, U64Assumption DEF PromiseGood, U64
      <3> QED
        BY <2>1, <2>2, <3>3, <3>4, <3>6, <3>7
    <2> QED BY <2>3, <2>4
  <1>3. CASE OpenWindow
    <2>1. /\ advanced' = 0 /\ spent' = 0
          /\ UNCHANGED <<rule, bucket, clock, promise>>
      BY <1>3 DEF OpenWindow
    <2> QED BY <2>1, Numbers DEF TypeOK, PromiseGood, Accounted
  <1>4. CASE Tick
    <2>1. /\ clock' = clock + 1 /\ clock < MaxTime
          /\ advanced' = advanced + 1 /\ advanced < MaxAdvance
          /\ UNCHANGED <<rule, bucket, spent, promise>>
      BY <1>4 DEF Tick
    <2>2. clock' \in 0 .. MaxTime /\ advanced' \in 0 .. MaxAdvance
      BY <2>1, Numbers
    <2>3. Accounted'
      BY <2>1, <2>2, Numbers, ClockAccounted
    <2> QED BY <2>1, <2>2, <2>3 DEF TypeOK, PromiseGood
  <1>5. CASE SetBack
    <2>1. /\ clock' \in 0 .. (clock - 1)
          /\ UNCHANGED <<rule, bucket, advanced, spent, promise>>
      BY <1>5 DEF SetBack
    <2>2. clock' \in 0 .. MaxTime /\ clock' \in Nat /\ clock' <= clock + 0
      BY <2>1, Numbers DEF TypeOK
    <2>3. advanced' = advanced + 0
      BY <2>1, Numbers
    <2>4. Accounted'
      BY <2>1, <2>2, <2>3, ClockAccounted
    <2> QED BY <2>1, <2>2, <2>4 DEF TypeOK, PromiseGood
  <1>6. CASE UNCHANGED vars
    BY <1>6 DEF vars, TypeOK, Accounted, Due, PromiseGood
  <1> QED
    BY <1>1, <1>2, <1>3, <1>4, <1>5, <1>6 DEF Next

-----------------------------------------------------------------------------
(* The theorems.                                                           *)

\* A bucket's state is always of its type: in particular a withdrawal never
\* underflows the unsigned balance (withdraw compares before it subtracts).
THEOREM TypeCorrect == Spec => []TypeOK
  <1>1. IInv => TypeOK
    BY DEF IInv
  <1> QED
    BY <1>1, InitIInv, NextIInv, PTL DEF Spec

\* Whatever the rule, whenever the window starts and however often the clock
\* is set back, withdrawals within it never exceed one full bucket plus the
\* refill of the seconds the clock ran forward.
THEOREM WindowBounded == Spec => []WindowBound
  BY InitIInv, NextIInv, AccountedBounds, PTL DEF Spec

\* A cost that can_withdraw accepted can still be withdrawn at any instant
\* that is not earlier, as long as nothing else was withdrawn.
THEOREM PromisesKept == Spec => []PromiseKept
  BY InitIInv, NextIInv, GoodIsKept, PTL DEF Spec

\* balance_at is exact for every u64 width: its u128 intermediate never
\* saturates and its final cast never truncates.
THEOREM RefillExact == Spec => []RefillIsExact
  <1>1. IInv => RefillIsExact
    <2> SUFFICES ASSUME IInv, IsValid(rule) PROVE RefillIsExact
      BY DEF RefillIsExact
    <2> QED BY Numbers, Exact DEF IInv, RefillIsExact
  <1> QED
    BY <1>1, InitIInv, NextIInv, PTL DEF Spec
=============================================================================
