---------------------------- MODULE CommonProofs ----------------------------
(***************************************************************************)
(* Lemmas that the proofs about several components rest on: the arithmetic *)
(* of limit.rs, for every rule and every width of u64, and sequences of    *)
(* events, as streams, queues and wires hold them.                         *)
(***************************************************************************)
EXTENDS Limit, SequencesExt, FiniteSetTheorems, TLAPS


-----------------------------------------------------------------------------
(* Arithmetic.                                                             *)

\* Integer division rounds down.
LEMMA DivFacts ==
  ASSUME NEW x \in Nat, NEW y \in Nat \ {0}
  PROVE  /\ x \div y \in Nat
         /\ x \div y <= x
         /\ y * (x \div y) <= x
  BY SMT

\* Integer division by the same divisor preserves the order.
LEMMA DivMono ==
  ASSUME NEW x \in Nat, NEW z \in Nat, NEW y \in Nat \ {0}, x <= z
  PROVE  x \div y <= z \div y
  BY SMT

\* Multiplication by a natural number preserves the order.
LEMMA MulMono ==
  ASSUME NEW a \in Nat, NEW x \in Nat, NEW y \in Nat, x <= y
  PROVE  a * x \in Nat /\ a * y \in Nat /\ a * x <= a * y
  BY SMT

\* The product of two u64 plus a third fits into a u128.
LEMMA FitsU128 ==
  ASSUME NEW x \in U64, NEW y \in U64, NEW z \in U64
  PROVE  /\ x * y \in Nat
         /\ x * y <= U128Max
         /\ z + x * y <= U128Max
  <1>1. U64Max \in Nat /\ x \in Nat /\ y \in Nat /\ z \in Nat
    BY U64Assumption DEF U64
  <1>2. x <= U64Max /\ y <= U64Max /\ z <= U64Max
    BY <1>1 DEF U64
  <1>3. x * y \in Nat /\ x * y <= x * U64Max
    BY <1>1, <1>2, MulMono
  <1>4. x * U64Max <= U64Max * U64Max
    <2>1. U64Max * x <= U64Max * U64Max
      BY <1>1, <1>2, MulMono
    <2>2. U64Max * x = x * U64Max
      BY <1>1
    <2> QED BY <2>1, <2>2
  <1>5. U128Max = U64Max * U64Max + 2 * U64Max
    BY <1>1 DEF U128Max
  <1>6. U64Max * U64Max \in Nat /\ x * U64Max \in Nat
    BY <1>1
  <1> QED
    BY <1>1, <1>2, <1>3, <1>4, <1>5, <1>6

-----------------------------------------------------------------------------
(* What balance_at returns.                                                *)

\* balance_at computes the documented formula: nothing saturates.
LEMMA Exact ==
  ASSUME NEW r \in RateLimitRule, IsValid(r),
         NEW b \in Buckets, NEW now \in U64
  PROVE  LET added == (r.amount * SatSub(now, b.since)) \div r.per_secs
         IN  /\ SatSub(now, b.since) \in U64
             /\ r.amount * SatSub(now, b.since) \in Nat
             /\ added \in Nat
             /\ BalanceAt(b, now, r) = Lesser(b.balance + added, r.max_capacity)
  <1> DEFINE e == SatSub(now, b.since)
  <1> DEFINE added == (r.amount * e) \div r.per_secs
  <1>1. /\ r.amount \in U64 /\ r.max_capacity \in U64
        /\ b.balance \in U64 /\ b.since \in U64
    BY DEF RateLimitRule, Buckets
  <1>2. r.per_secs \in Nat \ {0}
    BY U64Assumption DEF RateLimitRule, IsValid, U64
  <1>3. e \in U64
    BY <1>1, U64Assumption DEF SatSub, U64
  <1>4. /\ r.amount * e \in Nat
        /\ r.amount * e <= U128Max
        /\ b.balance + r.amount * e <= U128Max
    BY <1>1, <1>3, FitsU128
  <1>5. SatMul(r.amount, e) = r.amount * e
    <2> HIDE DEF e
    <2>1. U128Max \in Int
      BY U64Assumption DEF U128Max
    <2> QED BY <1>4, <2>1 DEF SatMul
  <1>6. added \in Nat /\ added <= r.amount * e
    <2> HIDE DEF e
    <2> QED BY <1>2, <1>4, DivFacts
  <1>7. SatAdd(b.balance, added) = b.balance + added
    <2>1. b.balance \in Nat /\ U128Max \in Int
      BY <1>1, U64Assumption DEF U64, U128Max
    <2> HIDE DEF e, added
    <2> QED BY <2>1, <1>4, <1>6 DEF SatAdd
  <1>8. BalanceAt(b, now, r) = Lesser(b.balance + added, r.max_capacity)
    BY <1>5, <1>7 DEF BalanceAt
  <1> QED
    BY <1>3, <1>4, <1>6, <1>8

\* The balance is a u64 below the ceiling.
LEMMA BalanceType ==
  ASSUME NEW r \in RateLimitRule, NEW b \in Buckets, NEW now \in U64
  PROVE  /\ BalanceAt(b, now, r) \in U64
         /\ BalanceAt(b, now, r) <= r.max_capacity
  <1>1. r.max_capacity \in U64 /\ b.balance \in U64
    BY DEF RateLimitRule, Buckets
  <1>2. CASE ~ IsValid(r)
    BY <1>1, <1>2, U64Assumption DEF BalanceAt, U64
  <1>3. CASE IsValid(r)
    <2> DEFINE added == (r.amount * SatSub(now, b.since)) \div r.per_secs
    <2>1. /\ added \in Nat
          /\ BalanceAt(b, now, r) = Lesser(b.balance + added, r.max_capacity)
      BY <1>3, Exact
    <2> HIDE DEF added
    <2> QED BY <1>1, <2>1, U64Assumption DEF Lesser, U64
  <1> QED BY <1>2, <1>3

\* What a bucket holds does not exceed its balance plus the exact refill of
\* the seconds since, none if "since" lies ahead of the clock.
LEMMA RefillBound ==
  ASSUME NEW r \in RateLimitRule, IsValid(r),
         NEW b \in Buckets, NEW now \in U64
  PROVE  r.per_secs * BalanceAt(b, now, r)
           <= r.per_secs * b.balance + r.amount * SatSub(now, b.since)
  <1> DEFINE p == r.per_secs
  <1> DEFINE refill == r.amount * SatSub(now, b.since)
  <1> DEFINE added == refill \div p
  <1> DEFINE bal == BalanceAt(b, now, r)
  <1>1. /\ refill \in Nat /\ added \in Nat
        /\ bal = Lesser(b.balance + added, r.max_capacity)
    BY Exact
  <1>2. p \in Nat \ {0} /\ b.balance \in Nat /\ r.max_capacity \in Nat
    BY U64Assumption DEF RateLimitRule, IsValid, Buckets, U64
  <1>3. p * added <= refill
    <2> HIDE DEF refill, p
    <2> QED BY <1>1, <1>2, DivFacts
  <1> HIDE DEF refill, added, bal, p
  <1>4. bal \in Nat /\ bal <= b.balance + added
    BY <1>1, <1>2 DEF Lesser
  <1>5. p * bal <= p * (b.balance + added)
    BY <1>1, <1>2, <1>4, MulMono
  <1>6. p * (b.balance + added) = p * b.balance + p * added
    BY <1>1, <1>2
  <1>7. p * bal <= p * b.balance + refill
    BY <1>1, <1>2, <1>3, <1>4, <1>5, <1>6
  <1> QED
    BY <1>7 DEF refill, bal, p

\* Time only adds to a bucket.
LEMMA BalanceMono ==
  ASSUME NEW r \in RateLimitRule, NEW b \in Buckets,
         NEW now \in U64, NEW later \in U64, now <= later
  PROVE  BalanceAt(b, now, r) <= BalanceAt(b, later, r)
  <1>1. CASE ~ IsValid(r)
    BY <1>1 DEF BalanceAt
  <1>2. CASE IsValid(r)
    <2> DEFINE e1 == SatSub(now, b.since)
    <2> DEFINE e2 == SatSub(later, b.since)
    <2> DEFINE a1 == (r.amount * e1) \div r.per_secs
    <2> DEFINE a2 == (r.amount * e2) \div r.per_secs
    <2>1. /\ e1 \in U64 /\ r.amount * e1 \in Nat /\ a1 \in Nat
          /\ BalanceAt(b, now, r) = Lesser(b.balance + a1, r.max_capacity)
      BY <1>2, Exact
    <2>2. /\ e2 \in U64 /\ r.amount * e2 \in Nat /\ a2 \in Nat
          /\ BalanceAt(b, later, r) = Lesser(b.balance + a2, r.max_capacity)
      BY <1>2, Exact
    <2>3. /\ r.per_secs \in Nat \ {0} /\ r.amount \in Nat
          /\ b.balance \in Nat /\ r.max_capacity \in Nat
      BY <1>2, U64Assumption DEF RateLimitRule, IsValid, Buckets, U64
    <2>4. e1 \in Nat /\ e2 \in Nat /\ e1 <= e2
      BY <2>1, <2>2, U64Assumption DEF SatSub, Buckets, U64
    <2> HIDE DEF e1, e2
    <2>5. r.amount * e1 <= r.amount * e2
      BY <2>3, <2>4, MulMono
    <2>6. a1 <= a2
      BY <2>1, <2>2, <2>3, <2>5, DivMono
    <2> HIDE DEF a1, a2
    <2> QED
      BY <2>1, <2>2, <2>3, <2>6 DEF Lesser
  <1> QED BY <1>1, <1>2

\* A positive factor can be cancelled.
LEMMA MulCancel ==
  ASSUME NEW x \in Int, NEW y \in Int, NEW k \in Nat \ {0}, k * x <= k * y
  PROVE  x <= y
  <1> SUFFICES ASSUME y + 1 <= x PROVE FALSE
    OBVIOUS
  <1>1. x - (y + 1) \in Nat
    OBVIOUS
  <1>2. k * (x - (y + 1)) >= 0
    BY <1>1
  <1>3. k * (x - (y + 1)) = k * x - k * y - k
    OBVIOUS
  <1> QED BY <1>2, <1>3

\* How the seconds since an instant follow the clock: they grow by no more
\* than the clock advances, and a clock set back leaves fewer of them.
LEMMA SatSubStep ==
  ASSUME NEW since \in Nat, NEW now \in Nat, NEW later \in Nat, NEW gain \in Nat,
         later <= now + gain
  PROVE  /\ SatSub(now, since) \in Nat /\ SatSub(later, since) \in Nat
         /\ SatSub(later, since) <= SatSub(now, since) + gain
         /\ SatSub(now, now) = 0
  BY DEF SatSub

\* Under a rule that refills no faster than a tokens in p seconds, a bucket
\* does not gain more than those.
LEMMA CeilingRefill ==
  ASSUME NEW r \in RateLimitRule, IsValid(r),
         NEW b \in Buckets, NEW now \in U64,
         NEW p \in Nat, NEW a \in Nat, r.amount * p <= a * r.per_secs
  PROVE  p * BalanceAt(b, now, r) <= p * b.balance + a * SatSub(now, b.since)
  <1> DEFINE q == r.per_secs
  <1> DEFINE m == r.amount
  <1> DEFINE dt == SatSub(now, b.since)
  <1> DEFINE bal == BalanceAt(b, now, r)
  <1> DEFINE old == b.balance
  <1>1. /\ q \in Nat \ {0} /\ m \in Nat /\ dt \in Nat
        /\ old \in Nat /\ bal \in Nat
    BY BalanceType, U64Assumption
       DEF RateLimitRule, Buckets, IsValid, U64, SatSub
  <1>2. q * bal <= q * old + m * dt
    BY RefillBound
  <1>3. m * p <= a * q
    OBVIOUS
  <1> SUFFICES p * bal <= p * old + a * dt
    OBVIOUS
  <1> HIDE DEF q, m, dt, bal, old
  <1>4. p * (q * bal) <= p * (q * old + m * dt)
    <2>1. q * bal \in Nat /\ q * old + m * dt \in Nat
      BY <1>1
    <2> QED BY <1>2, <2>1, MulMono
  <1>5. dt * (m * p) <= dt * (a * q)
    <2>1. m * p \in Nat /\ a * q \in Nat
      BY <1>1
    <2> QED BY <1>1, <1>3, <2>1, MulMono
  <1>6. /\ p * (q * bal) = q * (p * bal)
        /\ p * (q * old + m * dt) = q * (p * old) + dt * (m * p)
        /\ q * (p * old + a * dt) = q * (p * old) + dt * (a * q)
    BY <1>1
  <1>7. q * (p * bal) <= q * (p * old + a * dt)
    <2> DEFINE x == q * (p * old)
    <2> DEFINE y == dt * (m * p)
    <2> DEFINE z == dt * (a * q)
    <2>1. x \in Int /\ y \in Int /\ z \in Int /\ q * (p * bal) \in Int
      BY <1>1
    <2>2. q * (p * bal) <= x + y /\ y <= z
      BY <1>4, <1>5, <1>6
    <2>3. q * (p * old + a * dt) = x + z
      BY <1>6
    <2> HIDE DEF x, y, z
    <2> QED BY <2>1, <2>2, <2>3
  <1>8. p * bal \in Int /\ p * old + a * dt \in Int
    BY <1>1
  <1> QED BY <1>1, <1>7, <1>8, MulCancel

-----------------------------------------------------------------------------
(* Sequences of events.                                                    *)

\* An empty sequence holds nothing.
LEMMA EmptySequence ==
  ASSUME NEW M
  PROVE  ToSet(<< >>) = {} /\ << >> \in Seq(M) /\ Len(<< >>) = 0
  <1>1. << >> \in Seq(M) /\ DOMAIN << >> = {}
    OBVIOUS
  <1>2. ToSet(<< >>) = {}
    BY <1>1 DEF ToSet
  <1> QED
    BY <1>1, <1>2

\* Appending adds one event.
LEMMA AppendToSequence ==
  ASSUME NEW M, NEW q \in Seq(M), NEW e \in M
  PROVE  /\ Append(q, e) \in Seq(M)
         /\ Len(Append(q, e)) = Len(q) + 1
         /\ ToSet(Append(q, e)) = ToSet(q) \cup {e}
  <1>1. Append(q, e) \in Seq(M) /\ Len(Append(q, e)) = Len(q) + 1
    OBVIOUS
  <1>2. ToSet(Append(q, e)) = ToSet(q) \cup {e}
    <2> DEFINE n == Len(q)
               r == Append(q, e)
    <2>1. /\ n \in Nat /\ DOMAIN q = 1..n /\ DOMAIN r = 1..(n + 1)
          /\ r[n + 1] = e /\ \A i \in 1..n : r[i] = q[i]
      OBVIOUS
    <2>2. \A i \in 1..(n + 1) : i \in 1..n \/ i = n + 1
      BY <2>1
    <2>3. n + 1 \in 1..(n + 1) /\ \A i \in 1..n : i \in 1..(n + 1)
      BY <2>1
    <2> HIDE DEF n, r
    <2>4. ToSet(r) = ToSet(q) \cup {e}
      BY <2>1, <2>2, <2>3 DEF ToSet
    <2> QED
      BY <2>4 DEF r
  <1> QED
    BY <1>1, <1>2

\* Reading takes the first event.
LEMMA TailOfSequence ==
  ASSUME NEW M, NEW q \in Seq(M), q # << >>
  PROVE  /\ Tail(q) \in Seq(M)
         /\ Head(q) \in M /\ Head(q) \in ToSet(q)
         /\ Len(q) \in Nat \ {0} /\ Len(Tail(q)) = Len(q) - 1
         /\ ToSet(q) = ToSet(Tail(q)) \cup {Head(q)}
  <1> DEFINE n == Len(q)
             r == Tail(q)
  <1>1. n \in Nat \ {0} /\ r \in Seq(M) /\ Len(r) = n - 1
    OBVIOUS
  <1>2. DOMAIN q = 1..n /\ DOMAIN r = 1..(n - 1) /\ Head(q) = q[1]
    OBVIOUS
  <1>3. \A i \in 1..(n - 1) : r[i] = q[i + 1]
    OBVIOUS
  <1>4. Head(q) \in M
    BY <1>1, <1>2
  <1> HIDE DEF n, r
  <1>5. /\ \A i \in 1..n : i = 1 \/ (i - 1 \in 1..(n - 1) /\ (i - 1) + 1 = i)
        /\ \A i \in 1..(n - 1) : i + 1 \in 1..n
        /\ 1 \in 1..n
    BY <1>1
  <1>6. ToSet(q) = ToSet(r) \cup {Head(q)}
    <2>1. ASSUME NEW x \in ToSet(q) PROVE x \in ToSet(r) \cup {Head(q)}
      <3>1. PICK i \in 1..n : x = q[i]
        BY <1>2 DEF ToSet
      <3>2. CASE i = 1
        BY <1>2, <3>1, <3>2
      <3>3. CASE i - 1 \in 1..(n - 1) /\ (i - 1) + 1 = i
        BY <1>2, <1>3, <3>1, <3>3 DEF ToSet
      <3> QED
        BY <1>5, <3>2, <3>3
    <2>2. ASSUME NEW x \in ToSet(r) PROVE x \in ToSet(q)
      BY <1>2, <1>3, <1>5 DEF ToSet
    <2>3. Head(q) \in ToSet(q)
      BY <1>2, <1>5 DEF ToSet
    <2> QED
      BY <2>1, <2>2, <2>3
  <1> QED
    BY <1>1, <1>4, <1>6 DEF n, r

\* A sequence of bounded length, into which an event is pushed.
Push(p, e, bound) == IF Len(p) = bound THEN Append(Tail(p), e) ELSE Append(p, e)

\* What pushing an event into a sequence of bounded length does: the event is
\* added, nothing is lost but the first one of a full sequence, and the bound is
\* kept.
LEMMA PushToSequence ==
  ASSUME NEW M, NEW bound \in Nat \ {0}, NEW p \in Seq(M), Len(p) <= bound, NEW e \in M
  PROVE  /\ Push(p, e, bound) \in Seq(M) /\ Len(Push(p, e, bound)) <= bound
         /\ e \in ToSet(Push(p, e, bound))
         /\ ToSet(Push(p, e, bound)) \subseteq ToSet(p) \cup {e}
         /\ \A x \in ToSet(p) :
              x \in ToSet(Push(p, e, bound)) \/ (Len(p) = bound /\ x = Head(p))
  <1> DEFINE q == Push(p, e, bound)
  <1>0. q = IF Len(p) = bound THEN Append(Tail(p), e) ELSE Append(p, e)
    BY DEF Push
  <1> HIDE DEF q
  <1>1. CASE Len(p) = bound
    <2>1. p # << >>
      BY <1>1
    <2>2. /\ Tail(p) \in Seq(M) /\ Len(Tail(p)) = bound - 1
          /\ ToSet(p) = ToSet(Tail(p)) \cup {Head(p)}
      BY <1>1, <2>1, TailOfSequence
    <2> DEFINE r == Tail(p)
    <2>3. r \in Seq(M) /\ Len(r) = bound - 1 /\ q = Append(r, e)
      BY <1>0, <1>1, <2>2
    <2> HIDE DEF r
    <2>4. q \in Seq(M) /\ Len(q) = Len(r) + 1 /\ ToSet(q) = ToSet(r) \cup {e}
      <3>1. /\ Append(r, e) \in Seq(M) /\ Len(Append(r, e)) = Len(r) + 1
            /\ ToSet(Append(r, e)) = ToSet(r) \cup {e}
        BY <2>3, AppendToSequence
      <3> QED
        BY <2>3, <3>1
    <2>5. Len(q) <= bound
      BY <2>3, <2>4
    <2> QED
      BY <1>1, <2>2, <2>4, <2>5 DEF r, q
  <1>2. CASE Len(p) # bound
    <2>1. q = Append(p, e)
      BY <1>0, <1>2
    <2>2. q \in Seq(M) /\ Len(q) = Len(p) + 1 /\ ToSet(q) = ToSet(p) \cup {e}
      BY <2>1, AppendToSequence
    <2>3. Len(p) \in Nat
      OBVIOUS
    <2>4. Len(q) <= bound
      BY <1>2, <2>2, <2>3
    <2> QED
      BY <2>2, <2>4 DEF q
  <1> QED
    BY <1>1, <1>2

\* One sequence after another.
LEMMA ConcatSequences ==
  ASSUME NEW M, NEW p \in Seq(M), NEW q \in Seq(M)
  PROVE  /\ p \o q \in Seq(M) /\ Len(p \o q) = Len(p) + Len(q)
         /\ \A i \in 1 .. Len(p) : (p \o q)[i] = p[i]
         /\ \A i \in 1 .. Len(q) : (p \o q)[Len(p) + i] = q[i]
         /\ ToSet(p \o q) = ToSet(p) \cup ToSet(q)
  <1> DEFINE m == Len(p)
             n == Len(q)
             r == p \o q
  <1>1. /\ m \in Nat /\ n \in Nat /\ r \in Seq(M) /\ Len(r) = m + n
        /\ DOMAIN p = 1..m /\ DOMAIN q = 1..n /\ DOMAIN r = 1..(m + n)
    OBVIOUS
  <1>2. /\ \A i \in 1..m : r[i] = p[i]
        /\ \A i \in 1..n : r[m + i] = q[i]
    OBVIOUS
  <1> HIDE DEF m, n, r
  <1>3. /\ \A i \in 1..(m + n) : i \in 1..m \/ (i - m \in 1..n /\ m + (i - m) = i)
        /\ \A i \in 1..m : i \in 1..(m + n)
        /\ \A i \in 1..n : m + i \in 1..(m + n)
    BY <1>1
  <1>4. ToSet(r) = ToSet(p) \cup ToSet(q)
    <2>1. ASSUME NEW i \in 1..(m + n) PROVE r[i] \in ToSet(p) \cup ToSet(q)
      <3>1. CASE i \in 1..m
        BY <1>1, <1>2, <3>1 DEF ToSet
      <3>2. CASE i - m \in 1..n /\ m + (i - m) = i
        <4>1. r[i] = q[i - m]
          BY <1>2, <3>2
        <4> QED
          BY <1>1, <3>2, <4>1 DEF ToSet
      <3> QED
        BY <1>3, <3>1, <3>2
    <2>2. ASSUME NEW i \in 1..m PROVE p[i] \in ToSet(r)
      BY <1>1, <1>2, <1>3 DEF ToSet
    <2>3. ASSUME NEW i \in 1..n PROVE q[i] \in ToSet(r)
      BY <1>1, <1>2, <1>3 DEF ToSet
    <2> QED
      BY <1>1, <2>1, <2>2, <2>3 DEF ToSet
  <1> QED
    BY <1>1, <1>2, <1>4 DEF m, n, r

\* A finite set put in some order is there as a whole, each element once.
LEMMA SetInOrder ==
  ASSUME NEW S, IsFiniteSet(S), NEW s \in SetToSeqs(S)
  PROVE  /\ s \in Seq(S) /\ ToSet(s) = S
         /\ \A i, j \in DOMAIN s : s[i] = s[j] => i = j
  <1> DEFINE n == Cardinality(S)
  <1>1. n \in Nat /\ IsFiniteSet(1..n) /\ Cardinality(1..n) = n
    <2>1. n \in Nat
      BY FS_CardinalityType
    <2>2. IsFiniteSet(1..n) /\ Cardinality(1..n) = IF 1 > n THEN 0 ELSE n - 1 + 1
      BY <2>1, FS_Interval
    <2> QED
      BY <2>1, <2>2
  <1>2. s \in [1..n -> S] /\ \A i, j \in 1..n : i # j => s[i] # s[j]
    BY DEF SetToSeqs
  <1> HIDE DEF n
  <1>3. s \in Injection(1..n, S)
    BY <1>2 DEF Injection, IsInjective
  <1>4. s \in Surjection(1..n, S)
    BY <1>1, <1>3, FS_Injection DEF n
  <1>5. ToSet(s) = S
    BY <1>2, <1>4 DEF Surjection, ToSet
  <1>6. s \in Seq(S) /\ DOMAIN s = 1..n
    BY <1>1, <1>2
  <1> QED
    BY <1>2, <1>5, <1>6
=============================================================================
