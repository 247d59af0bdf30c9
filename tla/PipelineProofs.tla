--------------------------- MODULE PipelineProofs ---------------------------
(***************************************************************************)
(* Proofs about the request pipeline (service/pipeline.rs, state.rs) for   *)
(* every set of callers, methods, costs and grants, every width of u64 and *)
(* every bound on time and restarts: the limits hold over any history of   *)
(* requests, replaced grants, failing and slow handlers, restarts and a    *)
(* clock that is set back, the commit is always covered, and nobody is     *)
(* billed for a failure.                                                   *)
(***************************************************************************)
EXTENDS Pipeline, CommonProofs

-----------------------------------------------------------------------------
(* Accounts.  The bounds say nothing of what the buckets still hold, and   *)
(* are not inductive.  An account relates the two: what was taken in all   *)
(* lives of the process, what is left in the live bucket and the refill    *)
(* due to it at an instant are together covered by one full bucket per     *)
(* life and the seconds run by then.  Without a live bucket, this life has *)
(* taken nothing.                                                          *)

Ceilings == [amount : Nat, per_secs : Nat, max_capacity : Nat]

Accounted(b, n, ceiling, lives, instant, run) ==
  LET cap == ceiling.per_secs * ceiling.max_capacity
  IN  IF b = None
      THEN ceiling.per_secs * n <= cap * lives + ceiling.amount * run
      ELSE ceiling.per_secs * (n + b.balance)
             + ceiling.amount * SatSub(instant, b.since)
             <= cap * (lives + 1) + ceiling.amount * run

\* The numbers of a ceiling, a bucket and a rule.
LEMMA CeilingNumbers ==
  ASSUME NEW ceiling \in Ceilings
  PROVE  /\ ceiling.amount \in Nat /\ ceiling.per_secs \in Nat
         /\ ceiling.max_capacity \in Nat
         /\ ceiling.per_secs * ceiling.max_capacity \in Nat
  BY DEF Ceilings

\* The numbers of a bucket.
LEMMA BucketNumbers ==
  ASSUME NEW b \in Buckets
  PROVE  /\ b.balance \in Nat /\ b.since \in Nat /\ b # None
         /\ b.balance \in U64 /\ b.since \in U64
  BY U64Assumption, BoundsAssumption DEF Buckets, U64

\* The numbers of a rule.
LEMMA RuleNumbers ==
  ASSUME NEW r \in RateLimitRule
  PROVE  /\ r.amount \in Nat /\ r.per_secs \in Nat /\ r.max_capacity \in Nat
         /\ r.max_capacity \in U64 /\ r # None
  BY U64Assumption, BoundsAssumption DEF RateLimitRule, U64

\* An account stays closed at an instant that is later by no more than the
\* seconds run in between; the clock may have been set back meanwhile.
LEMMA AccountLater ==
  ASSUME NEW ceiling \in Ceilings, NEW b \in Buckets \cup {None}, NEW n \in Nat,
         NEW lives \in Nat, NEW instant \in Nat, NEW later \in Nat,
         NEW run \in Nat, NEW more \in Nat,
         run <= more, later - instant <= more - run,
         Accounted(b, n, ceiling, lives, instant, run)
  PROVE  Accounted(b, n, ceiling, lives, later, more)
  <1> DEFINE a == ceiling.amount
  <1> DEFINE p == ceiling.per_secs
  <1> DEFINE cap == p * ceiling.max_capacity
  <1>1. /\ a \in Nat /\ p \in Nat /\ cap \in Nat
        /\ a * run \in Nat /\ a * more \in Nat /\ a * run <= a * more
    BY CeilingNumbers, MulMono
  <1>2. CASE b = None
    <2>1. p * n <= cap * lives + a * run
      BY <1>2 DEF Accounted
    <2>2. cap * lives \in Nat /\ p * n \in Nat
      BY <1>1
    <2>3. p * n <= cap * lives + a * more
      <3> HIDE DEF a, p, cap
      <3> QED BY <1>1, <2>1, <2>2
    <2> QED BY <1>2, <2>3 DEF Accounted
  <1>3. CASE b # None
    <2> DEFINE due  == SatSub(instant, b.since)
    <2> DEFINE due2 == SatSub(later, b.since)
    <2>1. b.since \in Nat /\ b.balance \in Nat
      BY <1>3, BucketNumbers
    <2>2. more - run \in Nat /\ later <= instant + (more - run)
      OBVIOUS
    <2>3. due \in Nat /\ due2 \in Nat /\ due2 <= due + (more - run)
      BY <2>1, <2>2, SatSubStep
    <2>4. p * (n + b.balance) + a * due <= cap * (lives + 1) + a * run
      BY <1>3 DEF Accounted
    <2>5. p * (n + b.balance) \in Nat /\ cap * (lives + 1) \in Nat
      BY <1>1, <2>1
    <2> HIDE DEF a, p, cap, due, due2
    <2>6. /\ a * due2 <= a * (due + (more - run))
          /\ a * (due + (more - run)) = a * due + a * more - a * run
          /\ a * due \in Nat /\ a * due2 \in Nat
      BY <1>1, <2>2, <2>3, MulMono
    <2>7. p * (n + b.balance) + a * due2 <= cap * (lives + 1) + a * more
      BY <1>1, <2>4, <2>5, <2>6
    <2> QED BY <1>3, <2>7 DEF Accounted, a, p, cap, due2
  <1> QED BY <1>2, <1>3

\* An account keeps what was taken within the ceiling.
LEMMA AccountBounds ==
  ASSUME NEW ceiling \in Ceilings, NEW b \in Buckets \cup {None}, NEW n \in Nat,
         NEW lives \in Nat, NEW instant \in Nat, NEW run \in Nat,
         Accounted(b, n, ceiling, lives, instant, run)
  PROVE  ceiling.per_secs * n
           <= ceiling.per_secs * ceiling.max_capacity * (lives + 1)
                + ceiling.amount * run
  <1> DEFINE p == ceiling.per_secs
  <1> DEFINE cap == p * ceiling.max_capacity
  <1> DEFINE a == ceiling.amount
  <1>1. /\ p \in Nat /\ cap \in Nat /\ p * n \in Nat /\ cap * lives \in Nat
        /\ cap * (lives + 1) = cap * lives + cap
        /\ a \in Nat /\ a * run \in Nat
    BY CeilingNumbers
  <1>2. CASE b = None
    <2>1. p * n <= cap * lives + a * run
      BY <1>2 DEF Accounted
    <2> HIDE DEF cap, p, a
    <2>2. p * n <= cap * (lives + 1) + a * run
      BY <1>1, <2>1
    <2> QED BY <2>2 DEF cap, p, a
  <1>3. CASE b # None
    <2> DEFINE due == SatSub(instant, b.since)
    <2>1. p * (n + b.balance) + a * due <= cap * (lives + 1) + a * run
      BY <1>3 DEF Accounted
    <2>2. b.since \in Nat /\ b.balance \in Nat /\ due \in Nat
      BY <1>3, BucketNumbers DEF SatSub
    <2>3. /\ p * (n + b.balance) = p * n + p * b.balance
          /\ p * b.balance \in Nat /\ a * due \in Nat
      BY <1>1, <2>2
    <2> HIDE DEF cap, p, a, due
    <2>4. p * n <= cap * (lives + 1) + a * run
      BY <1>1, <2>1, <2>3
    <2> QED BY <2>4 DEF cap, p, a
  <1> QED BY <1>2, <1>3

\* The first check of a life opens a bucket that is full.
LEMMA AccountEntry ==
  ASSUME NEW ceiling \in Ceilings, NEW b \in Buckets \cup {None}, NEW n \in Nat,
         NEW lives \in Nat, NEW instant \in U64, NEW run \in Nat,
         NEW r \in RateLimitRule, Dominated(r, ceiling),
         Accounted(b, n, ceiling, lives, instant, run)
  PROVE  /\ Entry(b, r, instant) \in Buckets
         /\ Accounted(Entry(b, r, instant), n, ceiling, lives, instant, run)
  <1>1. CASE b # None
    BY <1>1 DEF Entry
  <1>2. CASE b = None
    <2> DEFINE f == Full(r, instant)
    <2> DEFINE p == ceiling.per_secs
    <2> DEFINE cap == p * ceiling.max_capacity
    <2> DEFINE a == ceiling.amount
    <2>1. /\ f \in Buckets /\ f.balance = r.max_capacity /\ f.since = instant
          /\ Entry(b, r, instant) = f
      BY <1>2, RuleNumbers DEF Entry, Full, Buckets
    <2>2. r.max_capacity \in Nat /\ r.max_capacity <= ceiling.max_capacity
      BY RuleNumbers DEF Dominated
    <2>3. p * n <= cap * lives + a * run
      BY <1>2 DEF Accounted
    <2>4. p * r.max_capacity <= cap
      BY <2>2, CeilingNumbers, MulMono
    <2>5. /\ p * (n + r.max_capacity) = p * n + p * r.max_capacity
          /\ cap * (lives + 1) = cap * lives + cap
          /\ p * n \in Nat /\ cap * lives \in Nat /\ cap \in Nat
          /\ p * r.max_capacity \in Nat /\ a * run \in Nat
      BY <2>2, CeilingNumbers
    <2>6. SatSub(instant, f.since) = 0 /\ a * SatSub(instant, f.since) = 0
      <3>1. instant \in Nat
        BY U64Assumption DEF U64
      <3> HIDE DEF f
      <3> QED BY <2>1, <3>1, CeilingNumbers DEF SatSub
    <2>7. p * (n + r.max_capacity) <= cap * (lives + 1) + a * run
      <3> HIDE DEF cap, p, a
      <3> QED BY <2>3, <2>4, <2>5
    <2>8. f # None
      BY <2>1, BucketNumbers
    <2> HIDE DEF f
    <2>9. p * (n + f.balance) + a * SatSub(instant, f.since) <= cap * (lives + 1) + a * run
      <3> HIDE DEF cap, p, a
      <3> QED BY <2>1, <2>5, <2>6, <2>7
    <2> QED BY <2>1, <2>8, <2>9 DEF Accounted
  <1> QED BY <1>1, <1>2

\* A withdrawal that the bucket covers was accounted for.
LEMMA AccountWithdraw ==
  ASSUME NEW ceiling \in Ceilings, NEW b \in Buckets, NEW n \in Nat,
         NEW lives \in Nat, NEW instant \in U64, NEW run \in Nat, NEW cost \in U64,
         NEW r \in RateLimitRule, IsValid(r), Dominated(r, ceiling),
         CanWithdraw(b, cost, instant, r),
         Accounted(b, n, ceiling, lives, instant, run)
  PROVE  /\ Withdraw(b, cost, instant, r) \in Buckets
         /\ Accounted(Withdraw(b, cost, instant, r), n + cost, ceiling, lives,
                      instant, run)
  <1> DEFINE bal == BalanceAt(b, instant, r)
  <1> DEFINE w == Withdraw(b, cost, instant, r)
  <1> DEFINE p == ceiling.per_secs
  <1> DEFINE cap == p * ceiling.max_capacity
  <1> DEFINE a == ceiling.amount
  <1> DEFINE due == SatSub(instant, b.since)
  <1>1. /\ bal \in U64 /\ bal \in Nat /\ cost \in Nat /\ cost <= bal
        /\ instant \in Nat
    BY BalanceType, U64Assumption DEF CanWithdraw, U64
  <1>2. w = [balance |-> bal - cost, since |-> instant]
    BY DEF Withdraw
  <1>3. bal - cost \in U64
    <2> HIDE DEF bal
    <2> QED BY <1>1, U64Assumption DEF U64
  <1>4. w \in Buckets /\ w.balance = bal - cost /\ w.since = instant
    BY <1>2, <1>3 DEF Buckets
  <1>5. p * (n + b.balance) + a * due <= cap * (lives + 1) + a * run
    BY BucketNumbers DEF Accounted
  <1>6. p * bal <= p * b.balance + a * due
    BY CeilingRefill, CeilingNumbers, RuleNumbers DEF Dominated
  <1>7. /\ p \in Nat /\ a \in Nat /\ cap \in Nat
        /\ b.balance \in Nat /\ b.since \in Nat /\ due \in Nat
    BY <1>1, CeilingNumbers, BucketNumbers DEF SatSub
  <1> HIDE DEF bal, w, p, cap, a, due
  <1>8. n + cost + (bal - cost) = n + bal
    BY <1>1
  <1>9. /\ p * (n + bal) = p * n + p * bal
        /\ p * (n + b.balance) = p * n + p * b.balance
        /\ p * n \in Nat /\ p * bal \in Nat /\ p * b.balance \in Nat
        /\ a * due \in Nat /\ a * run \in Nat /\ cap * (lives + 1) \in Nat
    BY <1>1, <1>7
  <1>10. SatSub(instant, w.since) = 0 /\ a * SatSub(instant, w.since) = 0
    BY <1>1, <1>4, <1>7 DEF SatSub
  <1>11. p * (n + cost + w.balance) <= cap * (lives + 1) + a * run
    BY <1>4, <1>5, <1>6, <1>8, <1>9
  <1>12. p * (n + cost + w.balance) + a * SatSub(instant, w.since)
           <= cap * (lives + 1) + a * run
    BY <1>4, <1>8, <1>9, <1>10, <1>11
  <1> QED
    BY <1>4, <1>12, BucketNumbers DEF Accounted, p, cap, a, w

\* A restart closes the account of a life.
LEMMA AccountRestart ==
  ASSUME NEW ceiling \in Ceilings, NEW b \in Buckets \cup {None}, NEW n \in Nat,
         NEW lives \in Nat, NEW instant \in Nat, NEW run \in Nat,
         Accounted(b, n, ceiling, lives, instant, run)
  PROVE  Accounted(None, n, ceiling, lives + 1, instant, run)
  BY AccountBounds DEF Accounted

\* An execution that moved no more than the bucket covered, and charged
\* nothing, is paid by a full bucket on top.
LEMMA AccountLapse ==
  ASSUME NEW ceiling \in Ceilings, NEW b \in Buckets, NEW n \in Nat,
         NEW lives \in Nat, NEW instant \in U64, NEW run \in Nat, NEW cost \in U64,
         NEW r \in RateLimitRule, IsValid(r), Dominated(r, ceiling),
         CanWithdraw(b, cost, instant, r),
         Accounted(b, n, ceiling, lives, instant, run)
  PROVE  Accounted(b, n + cost, ceiling, lives + 1, instant, run)
  <1> DEFINE added == (r.amount * SatSub(instant, b.since)) \div r.per_secs
  <1> DEFINE p == ceiling.per_secs
  <1> DEFINE cap == p * ceiling.max_capacity
  <1> DEFINE a == ceiling.amount
  <1> DEFINE due == SatSub(instant, b.since)
  <1>1. cost \in Nat /\ instant \in Nat /\ b.balance \in Nat /\ b.since \in Nat
    BY U64Assumption, BucketNumbers DEF U64
  <1>2. cost <= r.max_capacity
    <2>1. /\ added \in Nat
          /\ BalanceAt(b, instant, r) = Lesser(b.balance + added, r.max_capacity)
      BY Exact
    <2>2. cost <= BalanceAt(b, instant, r)
      BY <1>1, BalanceType, U64Assumption DEF CanWithdraw, U64
    <2> HIDE DEF added
    <2> QED BY <1>1, <2>1, <2>2, RuleNumbers DEF Lesser
  <1>3. cost <= ceiling.max_capacity
    BY <1>1, <1>2, RuleNumbers, CeilingNumbers DEF Dominated
  <1>4. p * cost <= cap /\ p \in Nat /\ cap \in Nat /\ a \in Nat /\ due \in Nat
    BY <1>1, <1>3, CeilingNumbers, MulMono DEF SatSub
  <1>5. p * (n + b.balance) + a * due <= cap * (lives + 1) + a * run
    BY BucketNumbers DEF Accounted
  <1> HIDE DEF added, p, cap, a, due
  <1>6. /\ p * (n + cost + b.balance) = p * (n + b.balance) + p * cost
        /\ cap * (lives + 1 + 1) = cap * (lives + 1) + cap
        /\ p * (n + b.balance) \in Nat /\ p * cost \in Nat /\ cap * (lives + 1) \in Nat
        /\ a * due \in Nat /\ a * run \in Nat
    BY <1>1, <1>4
  <1>7. p * (n + cost + b.balance) + a * due <= cap * (lives + 1 + 1) + a * run
    BY <1>4, <1>5, <1>6
  <1> QED BY <1>7, BucketNumbers DEF Accounted, p, cap, a, due

-----------------------------------------------------------------------------
(* What the grants in force say about rules.                               *)

\* A rule that a limit may be kept by.
Keeps(rule, ceiling) ==
  rule # None => rule \in RateLimitRule /\ IsValid(rule) /\ Dominated(rule, ceiling)

\* The rules of a profile that passes is_valid are usable and below the
\* ceilings.
LEMMA ProfileRules ==
  ASSUME NEW e \in GrantEvents, ProfileValid(VerifiedGrant(e).profile)
  PROVE  LET p == VerifiedGrant(e).profile
         IN  /\ Keeps(p.quota, QuotaCeiling)
             /\ \A map \in {p.methods, p.control} :
                  \A m \in DOMAIN map : Keeps(map[m], RateCeiling)
  <1> DEFINE p == VerifiedGrant(e).profile
  <1>1. WellTyped(p)
    BY GrantEventsAssumption
  <1>2. CASE e.content = Unparseable
    <2>1. p = EmptyProfile
      BY <1>2 DEF VerifiedGrant
    <2>2. /\ p.quota = None /\ DOMAIN p.methods = {} /\ DOMAIN p.control = {}
      BY <2>1 DEF EmptyProfile, EmptyMap
    <2> HIDE DEF p
    <2>3. /\ Keeps(p.quota, QuotaCeiling)
          /\ \A map \in {p.methods, p.control} :
               \A m \in DOMAIN map : Keeps(map[m], RateCeiling)
      BY <2>2 DEF Keeps
    <2> QED BY <2>3 DEF p
  <1>3. CASE e.content # Unparseable
    <2>1. p = e.content
      BY <1>3 DEF VerifiedGrant
    <2>2. /\ Dominated(p.quota, QuotaCeiling)
          /\ \A map \in {p.methods, p.control} :
               \A m \in DOMAIN map : Dominated(map[m], RateCeiling)
      BY <1>3, <2>1, CeilingsAssumption
    <2>3. ProfileValid(p)
      OBVIOUS
    <2> HIDE DEF p
    <2>4. Keeps(p.quota, QuotaCeiling)
      BY <1>1, <2>2, <2>3 DEF WellTyped, ProfileValid, RuleOK, Keeps
    <2>5. \A map \in {p.methods, p.control} :
            \A m \in DOMAIN map : Keeps(map[m], RateCeiling)
      BY <1>1, <2>2, <2>3 DEF WellTyped, ProfileValid, MapOK, RuleOK, Keeps
    <2> QED BY <2>4, <2>5 DEF p
  <1> QED BY <1>2, <1>3

\* resolve returns a grant that some event carried, or None.
LEMMA ResolveStored ==
  ASSUME TypeOK, NEW c, Resolve(grants, c) # None
  PROVE  \E e \in GrantEvents : Resolve(grants, c) = VerifiedGrant(e)
  <1>1. PICK t \in Targets : Resolve(grants, c) = grants[t]
    BY DEF Resolve, Targets
  <1> QED BY <1>1 DEF TypeOK

\* A caller that is let in has a valid profile, and the rate it is held to is
\* below the ceiling.
LEMMA AccessRules ==
  ASSUME TypeOK, NEW c, NEW protocol, NEW m,
         Access(c, protocol, m).denied = None
  PROVE  /\ Resolve(grants, c) # None
         /\ Resolve(grants, c).profile
              \in {VerifiedGrant(e).profile : e \in GrantEvents}
         /\ ProfileValid(Resolve(grants, c).profile)
         /\ Keeps(Resolve(grants, c).profile.quota, QuotaCeiling)
         /\ Keeps(Access(c, protocol, m).rate, RateCeiling)
  <1> DEFINE g == Resolve(grants, c)
  <1> DEFINE map == IF protocol = "wallet" THEN g.profile.methods ELSE g.profile.control
  <1>1. \A why \in {"UNAUTHORIZED", "RESTRICTED"} : Denied(why).denied # None
    BY NoneAssumption DEF Denied
  <1>2. g # None
    BY <1>1 DEF Access
  <1>3. Access(c, protocol, m) = Guarded(g.profile, map, m)
    BY <1>2 DEF Access, AllowsWallet, AllowsControl
  <1>4. ProfileValid(g.profile) /\ Access(c, protocol, m) = Lookup(map, m)
    BY <1>1, <1>3 DEF Guarded
  <1>5. PICK key \in DOMAIN map : Access(c, protocol, m) = Allowed(map[key])
    BY <1>1, <1>4 DEF Lookup
  <1>6. Access(c, protocol, m).rate = map[key]
    BY <1>5 DEF Allowed
  <1>7. PICK e \in GrantEvents : g = VerifiedGrant(e)
    BY <1>2, ResolveStored
  <1>8. /\ Keeps(g.profile.quota, QuotaCeiling)
        /\ \A f \in {g.profile.methods, g.profile.control} :
             \A n \in DOMAIN f : Keeps(f[n], RateCeiling)
    BY <1>4, <1>7, ProfileRules
  <1>9. Keeps(map[key], RateCeiling)
    BY <1>8
  <1> HIDE DEF g, map
  <1>10. g.profile \in {VerifiedGrant(f).profile : f \in GrantEvents}
    BY <1>7
  <1> QED
    BY <1>2, <1>4, <1>6, <1>8, <1>9, <1>10 DEF g

\* A request that passes steps 2 to 4 has been let in.
LEMMA PassedMeansLetIn ==
  ASSUME NEW c, NEW protocol, NEW m, Refusal(c, protocol, m, TRUE) = None
  PROVE  Access(c, protocol, m).denied = None
  BY BoundsAssumption DEF Refusal

-----------------------------------------------------------------------------
(* Types.                                                                  *)

\* The call in flight has its fields.
LEMMA CallFields ==
  ASSUME TypeOK, call # Idle
  PROVE  /\ call \in Calls
         /\ call.pc \in {"preparing", "executing"} /\ call.caller \in Callers
         /\ call.protocol \in Protocols /\ call.method \in Names
         /\ call.now \in 0 .. MaxTime /\ call.cost \in Costs \cup {0}
         /\ call.profile \in {VerifiedGrant(e).profile : e \in GrantEvents}
  <1>1. call \in Calls
    BY DEF TypeOK
  <1> QED BY <1>1 DEF Calls

\* A call that is preparing or executing is not Idle.
LEMMA Busy ==
  ASSUME call.pc \in {"preparing", "executing"}
  PROVE  call # Idle
  BY DEF Idle

\* What Usage stores is a bucket.
LEMMA EntryType ==
  ASSUME NEW b \in Buckets \cup {None}, NEW r \in RateLimitRule, NEW now \in U64
  PROVE  Entry(b, r, now) \in Buckets
  BY RuleNumbers DEF Entry, Full, Buckets

\* A withdrawal leaves a bucket whose balance does not underflow.
LEMMA WithdrawType ==
  ASSUME NEW b \in Buckets, NEW r \in RateLimitRule, NEW now \in U64,
         NEW cost \in U64
  PROVE  Withdraw(b, cost, now, r) \in Buckets
  <1>1. CASE ~ CanWithdraw(b, cost, now, r)
    BY <1>1 DEF Withdraw
  <1>2. CASE CanWithdraw(b, cost, now, r)
    <2> DEFINE bal == BalanceAt(b, now, r)
    <2>1. bal \in U64 /\ bal >= cost
      BY <1>2, BalanceType DEF CanWithdraw
    <2> HIDE DEF bal
    <2>2. bal - cost \in U64
      BY <2>1, U64Assumption DEF U64
    <2> QED BY <1>2, <2>2 DEF Withdraw, Buckets, bal
  <1> QED BY <1>1, <1>2

\* Instants of the clock are u64.
LEMMA ClockU64 ==
  ASSUME NEW t \in 0 .. MaxTime
  PROVE  t \in U64 /\ t \in Nat
  BY BoundsAssumption, U64Assumption DEF U64

\* So are costs.
LEMMA CostU64 ==
  ASSUME NEW cost \in Costs \cup {0}
  PROVE  cost \in U64 /\ cost \in Nat
  <1>1. cost \in U64
    BY BoundsAssumption, U64Assumption DEF U64
  <1> QED BY <1>1, U64Assumption DEF U64

\* A call that is handed to prepare, as a member of its type.
LEMMA InFlightType ==
  ASSUME TypeOK, NEW c \in Callers, NEW protocol \in Protocols, NEW m \in Names,
         Refusal(c, protocol, m, TRUE) = None
  PROVE  InFlight(c, protocol, m) \in Calls
  <1>1. Resolve(grants, c).profile \in {VerifiedGrant(e).profile : e \in GrantEvents}
    BY PassedMeansLetIn, AccessRules
  <1>2. clock \in 0 .. MaxTime
    BY DEF TypeOK
  <1> QED BY <1>1, <1>2 DEF InFlight, Calls

\* The quota of the call in flight, if any, is a usable rule.
QuotaUsable == call # Idle => Keeps(call.profile.quota, QuotaCeiling)

\* What an execution moves is a number of satoshis.
LEMMA MovedType ==
  ASSUME TypeOK, call # Idle, \E sats \in Movable : Moves(sats)
  PROVE  moved' \in [Callers -> Nat]
  <1>1. PICK sats \in Movable : Moves(sats)
    OBVIOUS
  <1>2. sats \in Nat
    <2>1. call.cost \in Costs \cup {0}
      BY CallFields
    <2> QED BY <2>1, CostU64 DEF Movable
  <1>3. call.caller \in Callers
    BY CallFields
  <1> QED BY <1>1, <1>2, <1>3 DEF Moves, TypeOK

\* Every action keeps the types, given that quotas in flight are usable.
LEMMA TypeStep == TypeOK /\ QuotaUsable /\ [Next]_vars => TypeOK'
  <1> SUFFICES ASSUME TypeOK, QuotaUsable, [Next]_vars PROVE TypeOK'
    OBVIOUS
  <1>1. ASSUME NEW c \in Callers, NEW protocol \in Protocols, NEW m \in Names,
               NEW valid \in BOOLEAN, Refuse(c, protocol, m, valid)
        PROVE  TypeOK'
    BY <1>1 DEF Refuse, TypeOK
  <1>2. ASSUME NEW c \in Callers, NEW protocol \in Protocols, NEW m \in Names,
               RateRefuses(c, protocol, m)
        PROVE  TypeOK'
    <2> DEFINE rule == Access(c, protocol, m).rate
    <2>1. rule \in RateLimitRule
      BY <1>2, PassedMeansLetIn, AccessRules DEF RateRefuses, Keeps
    <2>2. usage.rate[<<c, m>>] \in Buckets \cup {None} /\ clock \in U64
      BY ClockU64 DEF TypeOK
    <2>3. RateEntry(c, m, rule, clock) \in Buckets
      BY <2>1, <2>2, EntryType DEF RateEntry
    <2> HIDE DEF rule
    <2>4. usage' = [usage EXCEPT !.rate[<<c, m>>] = RateEntry(c, m, rule, clock)]
      BY <1>2 DEF RateRefuses, rule
    <2>5. usage' \in [rate  : [Callers \X Names -> Buckets \cup {None}],
                     quota : [Callers -> Buckets \cup {None}]]
      BY <2>3, <2>4 DEF TypeOK
    <2> QED BY <1>2, <2>5 DEF RateRefuses, TypeOK
  <1>3. ASSUME NEW c \in Callers, NEW protocol \in Protocols, NEW m \in Names,
               Rated(c, protocol, m)
        PROVE  TypeOK'
    <2> DEFINE rule == Access(c, protocol, m).rate
    <2> DEFINE w == Withdraw(RateEntry(c, m, rule, clock), 1, clock, rule)
    <2>1. rule \in RateLimitRule
      BY <1>3, PassedMeansLetIn, AccessRules DEF Rated, Keeps
    <2>2. usage.rate[<<c, m>>] \in Buckets \cup {None} /\ clock \in U64
      BY ClockU64 DEF TypeOK
    <2>3. RateEntry(c, m, rule, clock) \in Buckets
      BY <2>1, <2>2, EntryType DEF RateEntry
    <2>4. w \in Buckets
      <3>1. 1 \in U64
        BY U64Assumption DEF U64
      <3> HIDE DEF rule
      <3> QED BY <2>1, <2>2, <2>3, <3>1, WithdrawType
    <2>5. call' \in Calls
      BY <1>3, InFlightType DEF Rated
    <2>6. usage' = [usage EXCEPT !.rate[<<c, m>>] = w]
      BY <1>3 DEF Rated
    <2>7. prepares' \in [Callers \X Names -> Nat]
      BY <1>3 DEF Rated, TypeOK
    <2> HIDE DEF w, rule
    <2>8. usage' \in [rate  : [Callers \X Names -> Buckets \cup {None}],
                     quota : [Callers -> Buckets \cup {None}]]
      BY <2>4, <2>6 DEF TypeOK
    <2> QED BY <1>3, <2>5, <2>7, <2>8 DEF Rated, TypeOK
  <1>4. ASSUME NEW c \in Callers, NEW protocol \in Protocols, NEW m \in Names,
               Unrated(c, protocol, m)
        PROVE  TypeOK'
    <2>1. call' \in Calls
      BY <1>4, InFlightType DEF Unrated
    <2> QED BY <1>4, <2>1 DEF Unrated, TypeOK
  <1>5. CASE PrepareFails
    BY <1>5 DEF PrepareFails, TypeOK
  <1>6. ASSUME NEW cost \in Costs, QuotaRefuses(cost) \/ Quoted(cost)
        PROVE  TypeOK'
    <2> DEFINE c == call.caller
    <2> DEFINE quota == call.profile.quota
    <2>1. call # Idle
      BY <1>6, Busy DEF QuotaRefuses, Quoted
    <2>2. /\ c \in Callers /\ usage.quota[c] \in Buckets \cup {None}
          /\ call.now \in U64
      BY <2>1, CallFields, ClockU64 DEF TypeOK
    <2>3. UnderQuota(cost) => QuotaEntry(c, quota, call.now) \in Buckets
      BY <2>1, <2>2, EntryType DEF UnderQuota, QuotaUsable, Keeps, QuotaEntry
    <2>4. usage' \in [rate  : [Callers \X Names -> Buckets \cup {None}],
                     quota : [Callers -> Buckets \cup {None}]]
      <3>1. \/ usage' = usage
            \/ /\ UnderQuota(cost)
               /\ usage' = [usage EXCEPT !.quota[c] = QuotaEntry(c, quota, call.now)]
        BY <1>6 DEF QuotaRefuses, Quoted
      <3> HIDE DEF c, quota
      <3> QED BY <2>2, <2>3, <3>1 DEF TypeOK
    <2>5. call' \in Calls \cup {Idle}
      BY <1>6, <2>1, CallFields DEF QuotaRefuses, Quoted, Calls
    <2> QED BY <1>6, <2>4, <2>5 DEF QuotaRefuses, Quoted, TypeOK
  <1>7. CASE ExecuteFails
    <2>1. call # Idle /\ call.caller \in Callers
      BY <1>7, Busy, CallFields DEF ExecuteFails
    <2>2. moved' \in [Callers -> Nat]
      BY <1>7, <2>1, MovedType DEF ExecuteFails, FailedMoves, TypeOK
    <2>3. lapses' \in [Callers -> 0 .. MaxLapses]
      <3>1. CASE UNCHANGED lapses
        BY <3>1 DEF TypeOK
      <3>2. CASE /\ lapses[call.caller] < MaxLapses
                 /\ lapses' = [lapses EXCEPT ![call.caller] = @ + 1]
        <4>1. lapses[call.caller] + 1 \in 0 .. MaxLapses
          BY <2>1, <3>2, BoundsAssumption DEF TypeOK
        <4> QED BY <2>1, <3>2, <4>1 DEF TypeOK
      <3> QED BY <1>7, <3>1, <3>2 DEF ExecuteFails, FailedMoves
    <2> QED BY <1>7, <2>2, <2>3 DEF ExecuteFails, TypeOK
  <1>8. ASSUME NEW sats \in Costs, ExecuteOk(sats)
        PROVE  TypeOK'
    <2> DEFINE c == call.caller
    <2> DEFINE quota == call.profile.quota
    <2> DEFINE w == Withdraw(QuotaEntry(c, quota, call.now), call.cost, call.now, quota)
    <2>1. call # Idle
      BY <1>8, Busy DEF ExecuteOk
    <2>2. /\ c \in Callers /\ usage.quota[c] \in Buckets \cup {None}
          /\ call.now \in U64 /\ call.cost \in U64 /\ sats \in Nat
      BY <2>1, CallFields, ClockU64, CostU64 DEF TypeOK
    <2>3. UnderQuota(call.cost) => w \in Buckets
      BY <2>1, <2>2, EntryType, WithdrawType
         DEF UnderQuota, QuotaUsable, Keeps, QuotaEntry
    <2>4. usage' \in [rate  : [Callers \X Names -> Buckets \cup {None}],
                     quota : [Callers -> Buckets \cup {None}]]
      <3>1. \/ usage' = usage
            \/ UnderQuota(call.cost) /\ usage' = [usage EXCEPT !.quota[c] = w]
        BY <1>8 DEF ExecuteOk
      <3> HIDE DEF c, quota, w
      <3> QED BY <2>2, <2>3, <3>1 DEF TypeOK
    <2>5. moved' \in [Callers -> Nat]
      BY <1>8, <2>2 DEF ExecuteOk, Moves, TypeOK
    <2> QED BY <1>8, <2>4, <2>5 DEF ExecuteOk, TypeOK
  <1>9. ASSUME NEW e \in GrantEvents, GrantArrives(e)
        PROVE  TypeOK'
    <2>1. Trusted(e) => Target(e) \in Targets
      BY GrantEventsAssumption DEF Trusted
    <2>2. grants' \in [Targets -> {VerifiedGrant(f) : f \in GrantEvents} \cup {None}]
      BY <1>9, <2>1 DEF GrantArrives, ApplyGrant, TypeOK
    <2> QED BY <1>9, <2>2 DEF GrantArrives, TypeOK
  <1>10. CASE Tick
    BY <1>10, BoundsAssumption DEF Tick, TypeOK, U64
  <1>11. CASE Restart
    <2>1. moved' \in [Callers -> Nat]
      <3>1. CASE UNCHANGED moved
        BY <3>1 DEF TypeOK
      <3>2. CASE call.pc = "executing" /\ \E sats \in Movable : Moves(sats)
        BY <3>2, Busy, MovedType
      <3> QED BY <1>11, <3>1, <3>2 DEF Restart
    <2>2. usage' = NoUsage /\ grants' = NoGrants
      BY <1>11 DEF Restart
    <2>3. restarts' \in 0 .. MaxRestarts
      BY <1>11, BoundsAssumption DEF Restart, TypeOK
    <2> QED BY <1>11, <2>1, <2>2, <2>3 DEF Restart, NoUsage, NoGrants, TypeOK
  <1>12. CASE SetBack
    <2>1. clock' \in 0 .. (clock - 1) /\ clock \in 0 .. MaxTime /\ MaxTime \in Nat
      BY <1>12, BoundsAssumption, U64Assumption DEF SetBack, TypeOK, U64
    <2>2. clock' \in 0 .. MaxTime
      BY <2>1
    <2> QED BY <1>12, <2>2 DEF SetBack, TypeOK
  <1>13. CASE UNCHANGED vars
    BY <1>13 DEF vars, TypeOK
  <1> QED
    BY <1>1, <1>2, <1>3, <1>4, <1>5, <1>6, <1>7, <1>8, <1>9, <1>10, <1>11, <1>12,
       <1>13
       DEF Next, Arrive

-----------------------------------------------------------------------------
(* Authority, and the commit.                                              *)

\* The quota of a call that was let in is usable.
LEMMA AuthorityUsable ==
  ASSUME TypeOK, AuthorityInForce
  PROVE  QuotaUsable
  BY AccessRules DEF AuthorityInForce, QuotaUsable

\* What a step does to the call and the grants: it ends the call, leaves it
\* (but for its pc and cost) and the grants alone, or starts one that was
\* let in; without a call, the rest may change.
LEMMA CallStep ==
  ASSUME TypeOK, [Next]_vars
  PROVE  \/ call' = Idle
         \/ /\ call # Idle /\ grants' = grants
            /\ \A f \in {"caller", "protocol", "method", "profile", "now"} :
                 call'[f] = call[f]
         \/ /\ call = Idle /\ grants' = grants /\ UNCHANGED <<clock, advanced>>
            /\ \E c \in Callers, protocol \in Protocols, m \in Names :
                 /\ Access(c, protocol, m).denied = None
                 /\ call' = InFlight(c, protocol, m)
  <1>1. ASSUME NEW c \in Callers, NEW protocol \in Protocols, NEW m \in Names,
               Rated(c, protocol, m) \/ Unrated(c, protocol, m)
        PROVE  /\ call = Idle /\ grants' = grants /\ UNCHANGED <<clock, advanced>>
               /\ Access(c, protocol, m).denied = None
               /\ call' = InFlight(c, protocol, m)
    BY <1>1, PassedMeansLetIn DEF Rated, Unrated
  <1>2. ASSUME NEW cost \in Costs, Quoted(cost)
        PROVE  /\ call # Idle /\ grants' = grants
               /\ \A f \in {"caller", "protocol", "method", "profile", "now"} :
                    call'[f] = call[f]
    <2>1. call # Idle
      BY <1>2, Busy DEF Quoted
    <2>2. call \in Calls
      BY <2>1, CallFields
    <2>3. call' = [call EXCEPT !.pc = "executing", !.cost = cost]
      BY <1>2 DEF Quoted
    <2> QED BY <1>2, <2>1, <2>2, <2>3 DEF Quoted, Calls
  <1>3. ASSUME \/ PrepareFails \/ ExecuteFails \/ Restart
               \/ \E cost \in Costs : QuotaRefuses(cost) \/ ExecuteOk(cost)
        PROVE  call' = Idle
    BY <1>3 DEF PrepareFails, ExecuteFails, Restart, QuotaRefuses, ExecuteOk
  <1>4. ASSUME \/ \E c \in Callers, protocol \in Protocols, m \in Names :
                    \/ \E valid \in BOOLEAN : Refuse(c, protocol, m, valid)
                    \/ RateRefuses(c, protocol, m)
               \/ \E e \in GrantEvents : GrantArrives(e)
        PROVE  call' = Idle
    BY <1>4 DEF Refuse, RateRefuses, GrantArrives
  <1>5. ASSUME Tick \/ SetBack \/ UNCHANGED vars
        PROVE  call' = call /\ grants' = grants
    BY <1>5 DEF Tick, SetBack, vars
  <1> QED
    BY <1>1, <1>2, <1>3, <1>4, <1>5 DEF Next, Arrive

\* While a call is in flight, nothing that arrives changes the grants it was
\* let in by.
LEMMA AuthorityStep == TypeOK /\ AuthorityInForce /\ [Next]_vars => AuthorityInForce'
  <1> SUFFICES ASSUME TypeOK, AuthorityInForce, [Next]_vars, call' # Idle
               PROVE  /\ Access(call.caller, call.protocol, call.method)'.denied = None
                      /\ Resolve(grants, call.caller)'.profile = call'.profile
    BY DEF AuthorityInForce
  <1>1. CASE /\ call # Idle /\ grants' = grants
             /\ \A f \in {"caller", "protocol", "method", "profile", "now"} :
                  call'[f] = call[f]
    <2>1. /\ call'.caller = call.caller /\ call'.protocol = call.protocol
          /\ call'.method = call.method /\ call'.profile = call.profile
      BY <1>1
    <2> QED BY <1>1, <2>1 DEF AuthorityInForce, Access
  <1>2. CASE /\ call = Idle /\ grants' = grants
             /\ \E c \in Callers, protocol \in Protocols, m \in Names :
                  /\ Access(c, protocol, m).denied = None
                  /\ call' = InFlight(c, protocol, m)
    <2>1. PICK c \in Callers, protocol \in Protocols, m \in Names :
            /\ Access(c, protocol, m).denied = None
            /\ call' = InFlight(c, protocol, m)
      BY <1>2
    <2>2. /\ call'.caller = c /\ call'.protocol = protocol /\ call'.method = m
          /\ call'.profile = Resolve(grants, c).profile
      BY <2>1 DEF InFlight
    <2> QED BY <1>2, <2>1, <2>2 DEF Access
  <1> QED BY <1>1, <1>2, CallStep

\* The clock gains no more than the seconds run.
LEMMA ClockMoves ==
  ASSUME TypeOK, [Next]_vars
  PROVE  /\ clock \in Nat /\ clock' \in Nat /\ advanced \in Nat /\ advanced' \in Nat
         /\ advanced <= advanced' /\ clock' - clock <= advanced' - advanced
  <1>1. ASSUME NEW c \in Callers, NEW protocol \in Protocols, NEW m \in Names,
               Arrive(c, protocol, m)
        PROVE  UNCHANGED <<clock, advanced>>
    BY <1>1 DEF Arrive, Refuse, RateRefuses, Rated, Unrated
  <1>2. ASSUME NEW cost \in Costs,
               QuotaRefuses(cost) \/ Quoted(cost) \/ ExecuteOk(cost)
        PROVE  UNCHANGED <<clock, advanced>>
    BY <1>2 DEF QuotaRefuses, Quoted, ExecuteOk
  <1>3. ASSUME PrepareFails \/ ExecuteFails \/ Restart \/ UNCHANGED vars
        PROVE  UNCHANGED <<clock, advanced>>
    BY <1>3 DEF PrepareFails, ExecuteFails, Restart, vars
  <1>4. ASSUME NEW e \in GrantEvents, GrantArrives(e)
        PROVE  UNCHANGED <<clock, advanced>>
    BY <1>4 DEF GrantArrives
  <1>5. \/ UNCHANGED <<clock, advanced>>
        \/ clock' = clock + 1 /\ advanced' = advanced + 1
        \/ clock' \in 0 .. (clock - 1) /\ advanced' = advanced
    BY <1>1, <1>2, <1>3, <1>4 DEF Next, Tick, SetBack
  <1>6. clock \in Nat /\ advanced \in Nat
    BY ClockU64 DEF TypeOK
  <1> QED BY <1>5, <1>6

\* The instant that accounts are closed at: that of the call in flight, and
\* the clock's without one.
Instant == IF call = Idle THEN clock ELSE call.now

\* The seconds that were run by then, at most.
Run == advanced - SatSub(clock, Instant)

\* The clock is ahead of the instant of a call by no more than was run.
InstantOK == SatSub(clock, Instant) <= advanced

\* Instants and the seconds run by them are numbers.
LEMMA InstantNumbers ==
  ASSUME TypeOK, InstantOK
  PROVE  /\ Instant \in U64 /\ Instant \in Nat /\ Run \in Nat
         /\ Run <= advanced /\ clock - Instant <= advanced - Run
  <1>1. /\ clock \in U64 /\ clock \in Nat /\ advanced \in Nat
        /\ Instant \in U64 /\ Instant \in Nat
    BY CallFields, ClockU64 DEF TypeOK, Instant
  <1>2. SatSub(clock, Instant) \in Nat /\ clock - Instant <= SatSub(clock, Instant)
    BY <1>1 DEF SatSub
  <1> QED BY <1>1, <1>2 DEF Run, InstantOK

\* How the two move: accounts are closed at an instant that is later by no
\* more than the seconds run in between.
LEMMA InstantMoves ==
  ASSUME TypeOK, TypeOK', InstantOK, [Next]_vars
  PROVE  /\ InstantOK'
         /\ Instant' \in Nat /\ Run' \in Nat
         /\ Run <= Run' /\ Instant' - Instant <= Run' - Run
  <1>1. /\ clock \in Nat /\ clock' \in Nat /\ advanced \in Nat /\ advanced' \in Nat
        /\ advanced <= advanced' /\ clock' - clock <= advanced' - advanced
    BY ClockMoves
  <1>2. /\ Instant \in Nat /\ SatSub(clock, Instant) <= advanced
        /\ Run = advanced - SatSub(clock, Instant)
    BY InstantNumbers DEF InstantOK, Run
  <1>3. /\ SatSub(clock', Instant) \in Nat /\ SatSub(clock', Instant) <= advanced'
        /\ advanced - SatSub(clock, Instant) <= advanced' - SatSub(clock', Instant)
        /\ advanced - SatSub(clock, Instant) \in Nat
        /\ advanced' - SatSub(clock', Instant) \in Nat
        /\ SatSub(clock', clock') = 0 /\ advanced' - SatSub(clock', clock') = advanced'
        /\ advanced - SatSub(clock, Instant) <= advanced'
        /\ clock' - Instant <= advanced' - (advanced - SatSub(clock, Instant))
    <2> DEFINE i == Instant
    <2> DEFINE t == clock
    <2> DEFINE u == clock'
    <2> DEFINE x == advanced
    <2> DEFINE y == advanced'
    <2>1. /\ t \in Nat /\ u \in Nat /\ x \in Nat /\ y \in Nat /\ i \in Nat
          /\ x <= y /\ u - t <= y - x /\ SatSub(t, i) <= x
      BY <1>1, <1>2
    <2> HIDE DEF i, t, u, x, y
    <2>2. /\ SatSub(u, i) \in Nat /\ SatSub(u, i) <= y
          /\ x - SatSub(t, i) <= y - SatSub(u, i)
          /\ x - SatSub(t, i) \in Nat /\ y - SatSub(u, i) \in Nat
          /\ SatSub(u, u) = 0 /\ y - SatSub(u, u) = y
          /\ x - SatSub(t, i) <= y /\ u - i <= y - (x - SatSub(t, i))
      BY <2>1 DEF SatSub
    <2> QED BY <2>2 DEF i, t, u, x, y
  <1>4. CASE call' = Idle
    <2>1. Instant' = clock'
      BY <1>4 DEF Instant
    <2>2. /\ SatSub(clock', clock') = 0 /\ advanced' - SatSub(clock', clock') = advanced'
          /\ Run \in Nat /\ Run <= advanced'
          /\ clock' - Instant <= advanced' - Run
      BY <1>2, <1>3
    <2>3. Run' = advanced'
      <3>1. Run' = advanced' - SatSub(clock', Instant')
        BY DEF Run
      <3> QED BY <2>1, <2>2, <3>1
    <2>4. InstantOK'
      <3>1. InstantOK' <=> SatSub(clock', Instant') <= advanced'
        BY DEF InstantOK
      <3> QED BY <1>1, <2>1, <2>2, <3>1
    <2> QED BY <1>1, <2>1, <2>2, <2>3, <2>4
  <1>5. CASE call # Idle /\ call' # Idle /\ call'["now"] = call["now"]
    <2>1. Instant' = Instant
      BY <1>5 DEF Instant
    <2>2. /\ SatSub(clock', Instant) <= advanced'
          /\ Run \in Nat /\ advanced' - SatSub(clock', Instant) \in Nat
          /\ Run <= advanced' - SatSub(clock', Instant)
      BY <1>2, <1>3
    <2>3. Run' = advanced' - SatSub(clock', Instant)
      BY <2>1 DEF Run
    <2>4. InstantOK'
      BY <2>1, <2>2 DEF InstantOK
    <2>5. Instant' - Instant = 0 /\ 0 <= Run' - Run
      BY <1>2, <2>1, <2>2, <2>3
    <2> QED BY <1>2, <2>1, <2>2, <2>3, <2>4, <2>5
  <1>6. CASE /\ call = Idle /\ call' # Idle /\ UNCHANGED <<clock, advanced>>
             /\ \E c \in Callers, protocol \in Protocols, m \in Names :
                  call' = InFlight(c, protocol, m)
    <2>1. call'.now = clock
      BY <1>6 DEF InFlight
    <2>2. Instant' = clock /\ Instant = clock /\ SatSub(clock, clock) = 0
      BY <1>1, <1>6, <2>1 DEF Instant, SatSub
    <2>3. Run' = advanced /\ Run = advanced
      BY <1>1, <1>6, <2>2 DEF Run
    <2> QED BY <1>1, <1>6, <2>2, <2>3 DEF InstantOK
  <1> QED BY <1>4, <1>5, <1>6, CallStep

\* Between the quota check and the commit nothing takes from the bucket, so
\* that what was checked is still there.
LEMMA CommitStep ==
  TypeOK /\ QuotaUsable /\ CommitHonoured /\ [Next]_vars => CommitHonoured'
  <1> SUFFICES ASSUME TypeOK, QuotaUsable, CommitHonoured, [Next]_vars,
                      call'.pc = "executing"
               PROVE  CommitHonoured'
    BY DEF CommitHonoured
  <1>1. ASSUME NEW cost \in Costs, Quoted(cost)
        PROVE  CommitHonoured'
    <2> DEFINE c == call.caller
    <2> DEFINE quota == call.profile.quota
    <2> DEFINE b == QuotaEntry(c, quota, call.now)
    <2>1. call # Idle /\ call \in Calls
      BY <1>1, Busy, CallFields DEF Quoted
    <2>2. call' = [call EXCEPT !.pc = "executing", !.cost = cost]
      BY <1>1 DEF Quoted
    <2>3. /\ call'.caller = c /\ call'.profile = call.profile /\ call'.now = call.now
          /\ call'.cost = cost
      BY <2>1, <2>2 DEF Calls
    <2>4. CASE ~ UnderQuota(cost)
      BY <2>3, <2>4 DEF CommitHonoured, UnderQuota
    <2>5. CASE UnderQuota(cost)
      <3>1. /\ CanWithdraw(b, cost, call.now, quota)
            /\ usage' = [usage EXCEPT !.quota[c] = b]
        BY <1>1, <2>5 DEF Quoted, QuotaAllows
      <3>2. c \in Callers /\ call.now \in U64 /\ usage.quota[c] \in Buckets \cup {None}
        BY <2>1, CallFields, ClockU64 DEF TypeOK
      <3>3. b \in Buckets
        BY <2>1, <2>5, <3>2, EntryType DEF UnderQuota, QuotaUsable, Keeps, QuotaEntry
      <3>4. b # None
        <4> HIDE DEF b
        <4> QED BY <3>3, BucketNumbers
      <3> HIDE DEF b, c, quota
      <3>5. usage'.quota[c] = b
        BY <3>1, <3>2 DEF TypeOK
      <3>6. QuotaAllows(call.caller, call.cost, call.profile.quota, call.now)'
        BY <2>3, <3>1, <3>4, <3>5 DEF QuotaAllows, QuotaEntry, Entry, quota
      <3> QED BY <2>3, <3>4, <3>5, <3>6 DEF CommitHonoured
    <2> QED BY <2>4, <2>5
  <1>2. CASE call' = call /\ usage' = usage
    BY <1>2 DEF CommitHonoured, UnderQuota, QuotaAllows, QuotaEntry
  <1>3. CASE call' = Idle
    BY <1>3 DEF Idle
  <1>4. ASSUME NEW c \in Callers, NEW protocol \in Protocols, NEW m \in Names,
               call' = InFlight(c, protocol, m)
        PROVE  FALSE
    BY <1>4 DEF InFlight
  <1>5. ASSUME ~ \E cost \in Costs : Quoted(cost)
        PROVE  \/ call' = call /\ usage' = usage
               \/ call' = Idle
               \/ \E c \in Callers, protocol \in Protocols, m \in Names :
                    call' = InFlight(c, protocol, m)
    <2> DEFINE Goal == \/ call' = call /\ usage' = usage
                       \/ call' = Idle
                       \/ \E c \in Callers, protocol \in Protocols, m \in Names :
                            call' = InFlight(c, protocol, m)
    <2>1. ASSUME NEW c \in Callers, NEW protocol \in Protocols, NEW m \in Names,
                 Arrive(c, protocol, m)
          PROVE  Goal
      BY <2>1 DEF Arrive, Refuse, RateRefuses, Rated, Unrated
    <2>2. ASSUME NEW cost \in Costs, QuotaRefuses(cost) \/ ExecuteOk(cost)
          PROVE  Goal
      BY <2>2 DEF QuotaRefuses, ExecuteOk
    <2>3. ASSUME \/ PrepareFails \/ ExecuteFails \/ Restart
                 \/ Tick \/ SetBack \/ UNCHANGED vars
          PROVE  Goal
      BY <2>3 DEF PrepareFails, ExecuteFails, Restart, Tick, SetBack, vars
    <2>4. ASSUME NEW e \in GrantEvents, GrantArrives(e)
          PROVE  Goal
      BY <2>4 DEF GrantArrives
    <2> QED BY <1>5, <2>1, <2>2, <2>3, <2>4 DEF Next
  <1> QED BY <1>1, <1>2, <1>3, <1>4, <1>5

-----------------------------------------------------------------------------
(* The rate accounts.                                                      *)

RateAccounted ==
  \A k \in Callers \X Names :
    Accounted(usage.rate[k], prepares[k], RateCeiling, restarts, clock, advanced)

\* The numbers the accounts are about.
LEMMA StateNumbers ==
  ASSUME TypeOK
  PROVE  /\ clock \in U64 /\ clock \in Nat /\ advanced \in Nat /\ restarts \in Nat
         /\ QuotaCeiling \in Ceilings /\ RateCeiling \in Ceilings
         /\ \A k \in Callers \X Names :
              usage.rate[k] \in Buckets \cup {None} /\ prepares[k] \in Nat
         /\ \A c \in Callers :
              /\ usage.quota[c] \in Buckets \cup {None} /\ moved[c] \in Nat
              /\ lapses[c] \in Nat
  <1>1. clock \in U64 /\ clock \in Nat
    BY ClockU64 DEF TypeOK
  <1>2. QuotaCeiling \in Ceilings /\ RateCeiling \in Ceilings
    BY BoundsAssumption DEF Ceilings
  <1> QED BY <1>1, <1>2 DEF TypeOK

\* Every step keeps the account of each rate bucket.
LEMMA RateStep == TypeOK /\ RateAccounted /\ [Next]_vars => RateAccounted'
  <1> SUFFICES ASSUME TypeOK, RateAccounted, [Next]_vars PROVE RateAccounted'
    OBVIOUS
  <1>1. CASE UNCHANGED <<usage.rate, prepares, restarts, clock, advanced>>
    BY <1>1 DEF RateAccounted
  <1>2. ASSUME NEW c \in Callers, NEW protocol \in Protocols, NEW m \in Names,
               RateRefuses(c, protocol, m) \/ Rated(c, protocol, m)
        PROVE  RateAccounted'
    <2> DEFINE k == <<c, m>>
    <2> DEFINE rule == Access(c, protocol, m).rate
    <2> DEFINE b == RateEntry(c, m, rule, clock)
    <2> DEFINE w == Withdraw(b, 1, clock, rule)
    <2>1. /\ rule \in RateLimitRule /\ IsValid(rule) /\ Dominated(rule, RateCeiling)
      BY <1>2, PassedMeansLetIn, AccessRules DEF RateRefuses, Rated, Keeps
    <2>2. k \in Callers \X Names
      OBVIOUS
    <2>3. Accounted(usage.rate[k], prepares[k], RateCeiling, restarts, clock, advanced)
      BY <2>2 DEF RateAccounted
    <2>4. b \in Buckets /\ Accounted(b, prepares[k], RateCeiling, restarts, clock, advanced)
      <3> HIDE DEF k, rule
      <3>1. b = Entry(usage.rate[k], rule, clock)
        BY DEF RateEntry, k
      <3>2. /\ usage.rate[k] \in Buckets \cup {None} /\ prepares[k] \in Nat
            /\ RateCeiling \in Ceilings /\ restarts \in Nat
            /\ clock \in U64 /\ advanced \in Nat
        BY <2>2, StateNumbers
      <3>3. /\ Entry(usage.rate[k], rule, clock) \in Buckets
            /\ Accounted(Entry(usage.rate[k], rule, clock), prepares[k], RateCeiling,
                         restarts, clock, advanced)
        BY <2>1, <2>3, <3>2, AccountEntry
      <3> QED BY <3>1, <3>3
    <2>5. UNCHANGED <<restarts, clock, advanced>>
      BY <1>2 DEF RateRefuses, Rated
    <2>6. CASE RateRefuses(c, protocol, m)
      <3>1. usage' = [usage EXCEPT !.rate[k] = b] /\ prepares' = prepares
        BY <2>6 DEF RateRefuses
      <3> HIDE DEF k, b, rule
      <3>2. /\ usage'.rate[k] = b
            /\ \A j \in Callers \X Names : j # k => usage'.rate[j] = usage.rate[j]
        BY <2>2, <3>1 DEF TypeOK
      <3> QED BY <2>2, <2>4, <2>5, <3>1, <3>2 DEF RateAccounted
    <2>7. CASE Rated(c, protocol, m)
      <3>1. /\ CanWithdraw(b, 1, clock, rule)
            /\ usage' = [usage EXCEPT !.rate[k] = w]
            /\ prepares' = [prepares EXCEPT ![k] = @ + 1]
        BY <2>7 DEF Rated, RateAllows
      <3>2. 1 \in U64
        BY U64Assumption DEF U64
      <3> HIDE DEF k, b, rule
      <3>3. Accounted(w, prepares[k] + 1, RateCeiling, restarts, clock, advanced)
        BY <2>1, <2>2, <2>4, <3>1, <3>2, StateNumbers, AccountWithdraw
      <3> HIDE DEF w
      <3>4. /\ usage'.rate[k] = w /\ prepares'[k] = prepares[k] + 1
            /\ \A j \in Callers \X Names :
                 j # k => usage'.rate[j] = usage.rate[j] /\ prepares'[j] = prepares[j]
        BY <2>2, <3>1 DEF TypeOK
      <3> QED BY <2>2, <2>5, <3>3, <3>4 DEF RateAccounted
    <2> QED BY <1>2, <2>6, <2>7
  <1>3. CASE Tick \/ SetBack
    <2>1. UNCHANGED <<usage, prepares, restarts>>
      BY <1>3 DEF Tick, SetBack
    <2>2. /\ clock \in Nat /\ clock' \in Nat /\ advanced \in Nat /\ advanced' \in Nat
          /\ advanced <= advanced' /\ clock' - clock <= advanced' - advanced
      BY ClockMoves
    <2> SUFFICES ASSUME NEW k \in Callers \X Names
                 PROVE  Accounted(usage.rate[k], prepares[k], RateCeiling, restarts,
                                  clock', advanced')
      BY <2>1 DEF RateAccounted
    <2>3. Accounted(usage.rate[k], prepares[k], RateCeiling, restarts, clock, advanced)
      BY DEF RateAccounted
    <2> QED BY <2>2, <2>3, StateNumbers, AccountLater
  <1>4. CASE Restart
    <2>1. /\ usage' = NoUsage /\ restarts' = restarts + 1
          /\ UNCHANGED <<prepares, clock, advanced>>
      BY <1>4 DEF Restart
    <2> SUFFICES ASSUME NEW k \in Callers \X Names
                 PROVE  Accounted(None, prepares[k], RateCeiling, restarts + 1, clock, advanced)
      BY <2>1 DEF RateAccounted, NoUsage
    <2>2. Accounted(usage.rate[k], prepares[k], RateCeiling, restarts, clock, advanced)
      BY DEF RateAccounted
    <2> QED BY <2>2, StateNumbers, AccountRestart
  <1>5. ASSUME \/ \E c \in Callers, protocol \in Protocols, m \in Names :
                    \/ \E valid \in BOOLEAN : Refuse(c, protocol, m, valid)
                    \/ Unrated(c, protocol, m)
               \/ PrepareFails \/ ExecuteFails \/ UNCHANGED vars
               \/ \E e \in GrantEvents : GrantArrives(e)
        PROVE  UNCHANGED <<usage.rate, prepares, restarts, clock, advanced>>
    BY <1>5 DEF Refuse, Unrated, PrepareFails, ExecuteFails, GrantArrives, vars
  <1>6. ASSUME NEW cost \in Costs,
               QuotaRefuses(cost) \/ Quoted(cost) \/ ExecuteOk(cost)
        PROVE  UNCHANGED <<usage.rate, prepares, restarts, clock, advanced>>
    <2>1. UNCHANGED <<prepares, restarts, clock, advanced>>
      BY <1>6 DEF QuotaRefuses, Quoted, ExecuteOk
    <2>2. \/ usage' = usage
          \/ \E c, b : usage' = [usage EXCEPT !.quota[c] = b]
      BY <1>6 DEF QuotaRefuses, Quoted, ExecuteOk
    <2>3. usage'.rate = usage.rate
      BY <2>2 DEF TypeOK
    <2> QED BY <2>1, <2>3
  <1> QED
    BY <1>1, <1>2, <1>3, <1>4, <1>5, <1>6 DEF Next, Arrive

-----------------------------------------------------------------------------
(* The quota accounts.  A call charges at the instant it read when it was  *)
(* decoded, so while one is in flight the accounts are closed at that      *)
(* instant, and not at the clock, which may meanwhile be set back to       *)
(* before it.                                                              *)

QuotaAccounted ==
  \A c \in Callers :
    Accounted(usage.quota[c], moved[c], QuotaCeiling, restarts + lapses[c], Instant, Run)

\* Every step keeps the account of each quota bucket, if the node executes what
\* it has selected.
LEMMA QuotaStep ==
  ASSUME NodeKeepsSelection
  PROVE  /\ TypeOK /\ TypeOK' /\ QuotaUsable /\ InstantOK
         /\ CommitHonoured /\ QuotaAccounted /\ [Next]_vars
         => QuotaAccounted'
  <1> SUFFICES ASSUME TypeOK, TypeOK', QuotaUsable, InstantOK, CommitHonoured,
                      QuotaAccounted, [Next]_vars
               PROVE  QuotaAccounted'
    OBVIOUS
  <1>1. /\ Instant \in U64 /\ Instant \in Nat /\ Instant' \in Nat
        /\ Run \in Nat /\ Run' \in Nat
        /\ Run <= Run' /\ Instant' - Instant <= Run' - Run
    BY InstantNumbers, InstantMoves
  <1>2. /\ QuotaCeiling \in Ceilings /\ restarts \in Nat
        /\ \A c \in Callers :
             /\ lapses[c] \in Nat /\ lapses'[c] \in Nat /\ restarts + lapses[c] \in Nat
             /\ restarts + lapses'[c] \in Nat
             /\ usage.quota[c] \in Buckets \cup {None} /\ moved[c] \in Nat
             /\ usage'.quota[c] \in Buckets \cup {None} /\ moved'[c] \in Nat
             /\ Accounted(usage.quota[c], moved[c], QuotaCeiling, restarts + lapses[c],
                          Instant, Run)
    BY StateNumbers DEF QuotaAccounted, TypeOK
  \* It suffices to keep the accounts as of the instant before the step.
  <1>3. ASSUME restarts' = restarts,
               \A c \in Callers :
                 Accounted(usage'.quota[c], moved'[c], QuotaCeiling, restarts + lapses'[c],
                           Instant, Run)
        PROVE  QuotaAccounted'
    <2> SUFFICES ASSUME NEW c \in Callers
                 PROVE  Accounted(usage'.quota[c], moved'[c], QuotaCeiling,
                                  restarts + lapses'[c], Instant', Run')
      BY <1>3 DEF QuotaAccounted
    <2> QED BY <1>1, <1>2, <1>3, AccountLater
  <1>4. CASE UNCHANGED <<usage.quota, moved, lapses, restarts>>
    BY <1>2, <1>3, <1>4
  \* While a call is under a quota, its instant and its rule.
  <1> DEFINE d == call.caller
  <1> DEFINE quota == call.profile.quota
  <1>5. ASSUME call # Idle
        PROVE  /\ Instant = call.now /\ d \in Callers
               /\ quota # None => /\ quota \in RateLimitRule /\ IsValid(quota)
                                  /\ Dominated(quota, QuotaCeiling)
    BY <1>5, CallFields DEF Instant, QuotaUsable, Keeps
  \* A covered cost is accounted for when it moves.
  <1>6. ASSUME call.pc = "executing", UnderQuota(call.cost)
        PROVE  LET w == Withdraw(QuotaEntry(d, quota, call.now), call.cost, call.now, quota)
                   fills == restarts + lapses[d]
               IN  /\ w \in Buckets
                   /\ Accounted(w, moved[d] + call.cost, QuotaCeiling, fills, Instant, Run)
                   /\ Accounted(usage.quota[d], moved[d] + call.cost, QuotaCeiling,
                                fills + 1, Instant, Run)
    <2>1. call # Idle
      BY <1>6, Busy
    <2> DEFINE b == usage.quota[d]
    <2> DEFINE fills == restarts + lapses[d]
    <2>2. /\ b # None /\ b \in Buckets
          /\ QuotaEntry(d, quota, call.now) = b
          /\ CanWithdraw(b, call.cost, call.now, quota)
      BY <1>2, <1>5, <1>6, <2>1 DEF CommitHonoured, QuotaAllows, QuotaEntry, Entry
    <2>3. call.cost \in U64 /\ quota # None
      BY <1>6, <2>1, CallFields, CostU64 DEF UnderQuota
    <2>4. /\ Accounted(b, moved[d], QuotaCeiling, fills, Instant, Run)
          /\ moved[d] \in Nat /\ fills \in Nat
      BY <1>2, <1>5, <2>1
    <2>5. /\ Instant = call.now
          /\ quota \in RateLimitRule /\ IsValid(quota) /\ Dominated(quota, QuotaCeiling)
      BY <1>5, <2>1, <2>3
    <2> HIDE DEF b, d, quota, fills
    <2>6. LET w == Withdraw(b, call.cost, Instant, quota)
          IN  /\ w \in Buckets
              /\ Accounted(w, moved[d] + call.cost, QuotaCeiling, fills, Instant, Run)
      BY <1>1, <1>2, <2>2, <2>3, <2>4, <2>5, AccountWithdraw
    <2>7. Accounted(b, moved[d] + call.cost, QuotaCeiling, fills + 1, Instant, Run)
      BY <1>1, <1>2, <2>2, <2>3, <2>4, <2>5, AccountLapse
    <2> QED BY <2>2, <2>5, <2>6, <2>7 DEF fills, b
  <1>7. ASSUME NEW cost \in Costs, QuotaRefuses(cost) \/ Quoted(cost)
        PROVE  QuotaAccounted'
    <2>1. call # Idle /\ UNCHANGED <<moved, lapses, restarts>>
      BY <1>7, Busy DEF QuotaRefuses, Quoted
    <2>2. CASE usage' = usage
      BY <1>4, <2>1, <2>2
    <2>3. CASE /\ UnderQuota(cost)
               /\ usage' = [usage EXCEPT !.quota[d] = QuotaEntry(d, quota, call.now)]
      <3> DEFINE b == Entry(usage.quota[d], quota, Instant)
      <3>1. usage' = [usage EXCEPT !.quota[d] = b] /\ d \in Callers
        BY <1>5, <2>1, <2>3 DEF QuotaEntry
      <3>2. quota \in RateLimitRule /\ Dominated(quota, QuotaCeiling)
        BY <1>5, <2>1, <2>3 DEF UnderQuota
      <3>3. Accounted(b, moved[d], QuotaCeiling, restarts + lapses[d], Instant, Run)
        <4> HIDE DEF d, quota
        <4> QED BY <1>1, <1>2, <3>1, <3>2, AccountEntry
      <3> HIDE DEF b, d, quota
      <3>4. /\ usage'.quota[d] = b
            /\ \A c \in Callers : c # d => usage'.quota[c] = usage.quota[c]
        BY <3>1 DEF TypeOK
      <3> QED BY <1>2, <1>3, <2>1, <3>3, <3>4
    <2> QED BY <1>7, <2>2, <2>3 DEF QuotaRefuses, Quoted
  <1>8. ASSUME NEW sats \in Costs, ExecuteOk(sats)
        PROVE  QuotaAccounted'
    <2>1. call # Idle /\ UNCHANGED <<restarts, lapses>> /\ sats = call.cost
      BY <1>8, Busy DEF ExecuteOk, Movable
    <2>2. CASE ~ UnderQuota(call.cost)
      BY <1>4, <1>8, <2>1, <2>2 DEF ExecuteOk, Moves
    <2>3. CASE UnderQuota(call.cost)
      <3> DEFINE w == Withdraw(QuotaEntry(d, quota, call.now), call.cost, call.now, quota)
      <3>1. /\ usage' = [usage EXCEPT !.quota[d] = w]
            /\ moved' = [moved EXCEPT ![d] = @ + call.cost]
            /\ call.pc = "executing"
        BY <1>8, <2>1, <2>3 DEF ExecuteOk, Moves
      <3>2. Accounted(w, moved[d] + call.cost, QuotaCeiling, restarts + lapses[d],
                                Instant, Run)
        BY <1>6, <2>3, <3>1
      <3>3. d \in Callers
        BY <1>5, <2>1
      <3> HIDE DEF w, d, quota
      <3>4. /\ usage'.quota[d] = w /\ moved'[d] = moved[d] + call.cost
            /\ \A c \in Callers : c # d =>
                 usage'.quota[c] = usage.quota[c] /\ moved'[c] = moved[c]
        BY <3>1, <3>3 DEF TypeOK
      <3> QED BY <1>2, <1>3, <2>1, <3>2, <3>4
    <2> QED BY <2>2, <2>3
  <1>9. CASE Restart
    <2>1. /\ usage' = NoUsage /\ restarts' = restarts + 1 /\ lapses' = lapses
          /\ \A c \in Callers : usage'.quota[c] = None
      BY <1>9 DEF Restart, NoUsage
    <2> SUFFICES ASSUME NEW c \in Callers
                 PROVE  Accounted(None, moved'[c], QuotaCeiling, restarts + 1 + lapses[c],
                                  Instant', Run')
      BY <2>1 DEF QuotaAccounted
    <2> DEFINE fills == restarts + lapses[c]
    <2>2. fills \in Nat /\ restarts + 1 + lapses[c] = fills + 1 /\ moved'[c] \in Nat
      BY <1>2
    <2>3. Accounted(usage.quota[c], moved[c], QuotaCeiling, fills, Instant, Run)
      BY <1>2
    <2> HIDE DEF fills
    <2>4. Accounted(None, moved'[c], QuotaCeiling, fills + 1, Instant, Run)
      <3>1. CASE moved'[c] = moved[c]
        BY <1>1, <1>2, <2>2, <2>3, <3>1, AccountRestart
      <3>2. CASE moved'[c] # moved[c]
        <4>1. /\ call.pc = "executing" /\ UnderQuota(call.cost)
              /\ moved' = [moved EXCEPT ![d] = @ + call.cost]
          BY <1>9, <3>2 DEF Restart, Moves, Movable
        <4>2. c = d /\ moved'[c] = moved[d] + call.cost
          BY <3>2, <4>1 DEF TypeOK
        <4>3. \E w \in Buckets :
                Accounted(w, moved[d] + call.cost, QuotaCeiling, fills, Instant, Run)
          BY <1>6, <4>1, <4>2 DEF fills
        <4> HIDE DEF d
        <4> QED BY <1>1, <1>2, <2>2, <4>2, <4>3, AccountRestart
      <3> QED BY <3>1, <3>2
    <2>5. None \in Buckets \cup {None} /\ fills + 1 \in Nat
      BY <2>2
    <2> QED
      BY <1>1, <1>2, <2>2, <2>4, <2>5, AccountLater
  <1>10. ASSUME NEW c \in Callers, NEW protocol \in Protocols, NEW m \in Names,
                Arrive(c, protocol, m)
         PROVE  QuotaAccounted'
    <2>1. UNCHANGED <<moved, lapses, restarts>>
      BY <1>10 DEF Arrive, Refuse, RateRefuses, Rated, Unrated
    <2>2. \/ usage' = usage
          \/ \E k, b : usage' = [usage EXCEPT !.rate[k] = b]
      BY <1>10 DEF Arrive, Refuse, RateRefuses, Rated, Unrated
    <2>3. usage'.quota = usage.quota
      BY <2>2 DEF TypeOK
    <2> QED BY <1>4, <2>1, <2>3
  <1>11. CASE ExecuteFails
    <2>1. UNCHANGED <<usage, restarts>> /\ call.pc = "executing" /\ call # Idle
      BY <1>11, Busy DEF ExecuteFails
    <2>2. CASE UNCHANGED <<moved, lapses>>
      BY <1>4, <2>1, <2>2
    <2>3. CASE /\ UnderQuota(call.cost)
               /\ lapses' = [lapses EXCEPT ![d] = @ + 1]
               /\ \E sats \in Movable : Moves(sats)
      <3>1. moved' = [moved EXCEPT ![d] = @ + call.cost] /\ d \in Callers
        BY <1>5, <2>1, <2>3 DEF Moves, Movable
      <3>2. Accounted(usage.quota[d], moved[d] + call.cost, QuotaCeiling,
                      restarts + lapses[d] + 1, Instant, Run)
        BY <1>6, <2>1, <2>3
      <3> HIDE DEF d, quota
      <3>3. /\ moved'[d] = moved[d] + call.cost /\ lapses'[d] = lapses[d] + 1
            /\ \A c \in Callers : c # d => moved'[c] = moved[c] /\ lapses'[c] = lapses[c]
        BY <2>3, <3>1 DEF TypeOK
      <3>4. restarts + lapses'[d] = restarts + lapses[d] + 1
        BY <1>2, <3>1, <3>3
      <3> QED BY <1>2, <1>3, <2>1, <3>2, <3>3, <3>4
    <2> QED BY <1>11, <2>2, <2>3 DEF ExecuteFails, FailedMoves
  <1>12. ASSUME \/ PrepareFails \/ Tick \/ SetBack \/ UNCHANGED vars
                \/ \E e \in GrantEvents : GrantArrives(e)
         PROVE  UNCHANGED <<usage.quota, moved, lapses, restarts>>
    BY <1>12 DEF PrepareFails, Tick, SetBack, GrantArrives, vars
  <1> QED
    BY <1>4, <1>7, <1>8, <1>9, <1>10, <1>11, <1>12 DEF Next

-----------------------------------------------------------------------------
(* The theorems.                                                           *)

\* The parts that hold whatever the node does.
IInv == TypeOK /\ InstantOK /\ AuthorityInForce /\ CommitHonoured /\ RateAccounted

\* Nothing is taken before the first request.
LEMMA InitIInv == Init => IInv /\ QuotaAccounted
  <1> SUFFICES ASSUME Init PROVE IInv /\ QuotaAccounted
    OBVIOUS
  <1>1. TypeOK
    BY BoundsAssumption, U64Assumption DEF Init, TypeOK, NoGrants, NoUsage, U64
  <1>2. /\ InstantOK /\ Instant = 0 /\ Run = 0
        /\ AuthorityInForce /\ CommitHonoured
    BY DEF Init, InstantOK, Instant, Run, SatSub, AuthorityInForce, CommitHonoured, Idle
  <1>3. \A ceiling \in Ceilings : Accounted(None, 0, ceiling, 0, 0, 0)
    <2> SUFFICES ASSUME NEW ceiling \in Ceilings
                 PROVE  Accounted(None, 0, ceiling, 0, 0, 0)
      OBVIOUS
    <2> DEFINE cap == ceiling.per_secs * ceiling.max_capacity
    <2>1. ceiling.per_secs * 0 = 0 /\ ceiling.amount * 0 = 0
      BY CeilingNumbers
    <2>2. cap * 0 = 0
      BY CeilingNumbers
    <2> QED BY <2>1, <2>2 DEF Accounted
  <1>4. RateAccounted
    BY <1>1, <1>3, StateNumbers DEF Init, NoUsage, RateAccounted
  <1>5. QuotaAccounted
    BY <1>1, <1>2, <1>3, StateNumbers DEF Init, NoUsage, QuotaAccounted
  <1> QED BY <1>1, <1>2, <1>4, <1>5 DEF IInv

\* Every step keeps the invariant.
LEMMA NextIInv == IInv /\ [Next]_vars => IInv'
  BY AuthorityUsable, TypeStep, InstantMoves, AuthorityStep, CommitStep, RateStep
     DEF IInv

\* The inductive invariant holds throughout.
LEMMA AlwaysIInv == Spec => []IInv
  <1>1. Init => IInv
    BY InitIInv
  <1> QED BY <1>1, NextIInv, PTL DEF Spec

\* The pipeline's state is always of its type; in particular no charge ever
\* underflows a bucket, whichever rules come and go.
THEOREM TypeCorrect == Spec => []TypeOK
  <1>1. IInv => TypeOK
    BY DEF IInv
  <1> QED BY <1>1, AlwaysIInv, PTL

\* While a handler works, the grant that let the request in is in force.
THEOREM AuthorityAlwaysInForce == Spec => []AuthorityInForce
  <1>1. IInv => AuthorityInForce
    BY DEF IInv
  <1> QED BY <1>1, AlwaysIInv, PTL

\* The charge at commit, whose result the code ignores, always succeeds.
THEOREM CommitAlwaysHonoured == Spec => []CommitHonoured
  <1>1. IInv => CommitHonoured
    BY DEF IInv
  <1> QED BY <1>1, AlwaysIInv, PTL

\* No history of requests makes the node prepare more often than the most
\* generous rate the owners ever wrote allows.
THEOREM RateBounded == Spec => []RateBound
  <1>1. IInv => RateBound
    <2> SUFFICES ASSUME IInv, NEW k \in Callers \X Names
                 PROVE  WithinCeiling(prepares[k], RateCeiling, restarts + 1)
      BY DEF RateBound
    <2>1. Accounted(usage.rate[k], prepares[k], RateCeiling, restarts, clock, advanced)
      BY DEF IInv, RateAccounted
    <2> QED BY <2>1, StateNumbers, AccountBounds DEF IInv, WithinCeiling
  <1> QED BY <1>1, AlwaysIInv, PTL

\* If the node executes what it prepared, no history moves more money under a
\* quota than the most generous quota the owners ever wrote allows, but for
\* one full bucket per further life of the process and one per execution
\* that moved money and was answered with an error.
THEOREM QuotaBounded ==
  ASSUME NodeKeepsSelection
  PROVE  Spec => []QuotaBound
  <1>1. Init => IInv /\ QuotaAccounted
    BY InitIInv
  <1>2. (IInv /\ QuotaAccounted) /\ [Next]_vars => (IInv /\ QuotaAccounted)'
    BY NextIInv, QuotaStep, AuthorityUsable DEF IInv
  <1>3. IInv /\ QuotaAccounted => QuotaBound
    <2> SUFFICES ASSUME IInv, QuotaAccounted, NEW c \in Callers
                 PROVE  WithinCeiling(moved[c], QuotaCeiling, restarts + 1 + lapses[c])
      BY DEF QuotaBound
    <2>1. TypeOK /\ InstantOK
      BY DEF IInv
    <2>2. /\ Instant \in Nat /\ Run \in Nat
          /\ Run <= advanced /\ clock - Instant <= advanced - Run
      BY <2>1, InstantNumbers
    <2> DEFINE fills == restarts + lapses[c]
    <2>3. fills \in Nat /\ restarts + 1 + lapses[c] = fills + 1
      BY <2>1, StateNumbers
    <2>4. Accounted(usage.quota[c], moved[c], QuotaCeiling, fills, Instant, Run)
      BY DEF QuotaAccounted
    <2> HIDE DEF fills
    <2>5. Accounted(usage.quota[c], moved[c], QuotaCeiling, fills, clock, advanced)
      BY <2>1, <2>2, <2>3, <2>4, StateNumbers, AccountLater
    <2> QED BY <2>1, <2>3, <2>5, StateNumbers, AccountBounds DEF WithinCeiling
  <1> QED BY <1>1, <1>2, <1>3, PTL DEF Spec

\* Only a caller that may call the method is told that its parameters are
\* wrong: authorize precedes validate.
THEOREM ParamsNeverJudgedFirst == Spec => ParamsNotJudgedFirst
  <1>1. [Next]_vars =>
          [reply'.code = "BAD_PARAMS" /\ reply' # reply =>
             Access(reply'.caller, reply'.protocol, reply'.method).denied = None]_vars
    <2> SUFFICES ASSUME Next, reply'.code = "BAD_PARAMS", reply' # reply
                 PROVE  Access(reply'.caller, reply'.protocol, reply'.method).denied = None
      BY DEF vars
    <2>1. PICK c \in Callers, protocol \in Protocols, m \in Names, valid \in BOOLEAN :
            Refuse(c, protocol, m, valid)
      <3>1. ASSUME NEW c \in Callers, NEW protocol \in Protocols, NEW m \in Names,
                   RateRefuses(c, protocol, m) \/ Rated(c, protocol, m)
                     \/ Unrated(c, protocol, m)
            PROVE  FALSE
        <4>1. reply' = reply \/ Answer(c, protocol, m, "RATE_LIMITED")
          BY <3>1 DEF RateRefuses, Rated, Unrated
        <4> QED BY <4>1 DEF Answer
      <3>2. ASSUME NEW cost \in Costs,
                   QuotaRefuses(cost) \/ Quoted(cost) \/ ExecuteOk(cost)
            PROVE  FALSE
        <4>1. \/ reply' = reply
              \/ AnswerCall("QUOTA_EXCEEDED") \/ AnswerCall("OK")
          BY <3>2 DEF QuotaRefuses, Quoted, ExecuteOk
        <4> QED BY <4>1 DEF AnswerCall, Answer
      <3>3. ASSUME \/ PrepareFails \/ ExecuteFails \/ Tick \/ SetBack \/ Restart
                   \/ \E e \in GrantEvents : GrantArrives(e)
            PROVE  FALSE
        BY <3>3 DEF PrepareFails, ExecuteFails, Tick, SetBack, Restart, GrantArrives,
                    AnswerCall, Answer
      <3> QED BY <3>1, <3>2, <3>3 DEF Next, Arrive
    <2>2. /\ reply'.caller = c /\ reply'.protocol = protocol /\ reply'.method = m
          /\ Refusal(c, protocol, m, valid) = "BAD_PARAMS"
      BY <2>1 DEF Refuse, Answer
    <2>3. Access(c, protocol, m).denied \in {None, "UNAUTHORIZED", "RESTRICTED"}
      BY DEF Access, AllowsWallet, AllowsControl, Guarded, Lookup, Allowed, Denied
    <2>4. Access(c, protocol, m).denied = None
      BY <2>2, <2>3 DEF Refusal
    <2> QED BY <2>2, <2>4
  <1> QED BY <1>1, PTL DEF Spec, ParamsNotJudgedFirst

\* What is left of a quota is a number.
LEMMA QuotaLeftType ==
  ASSUME TypeOK, NEW c \in Callers
  PROVE  QuotaLeft(c) \in Nat
  <1> DEFINE g == Resolve(grants, c)
  <1>1. CASE g = None \/ g.profile.quota = None
    BY <1>1 DEF QuotaLeft
  <1>2. CASE g # None /\ g.profile.quota # None
    <2> DEFINE b == QuotaEntry(c, g.profile.quota, clock)
    <2>1. g.profile.quota \in RateLimitRule
      BY <1>2, ResolveStored, GrantEventsAssumption DEF WellTyped
    <2>2. b \in Buckets
      BY <2>1, StateNumbers, EntryType DEF QuotaEntry
    <2>3. QuotaLeft(c) = BalanceAt(b, clock, g.profile.quota)
      BY <1>2 DEF QuotaLeft
    <2> HIDE DEF b, g
    <2>4. BalanceAt(b, clock, g.profile.quota) \in U64
      BY <2>1, <2>2, StateNumbers, BalanceType
    <2> QED BY <2>3, <2>4, U64Assumption DEF U64
  <1> QED BY <1>1, <1>2

\* It depends on the grants, the clock and the caller's bucket only.
LEMMA QuotaLeftFrame ==
  ASSUME TypeOK, NEW c \in Callers,
         grants' = grants, clock' = clock, usage'.quota[c] = usage.quota[c]
  PROVE  QuotaLeft(c)' >= QuotaLeft(c)
  <1>1. QuotaLeft(c)' = QuotaLeft(c)
    BY DEF QuotaLeft, QuotaEntry
  <1> QED BY <1>1, QuotaLeftType

\* A bucket that has just been opened is full at any later instant.
LEMMA FullStaysFull ==
  ASSUME NEW r \in RateLimitRule, IsValid(r), NEW now \in U64, NEW later \in U64
  PROVE  BalanceAt(Full(r, now), later, r) = r.max_capacity
  <1> DEFINE f == Full(r, now)
  <1> DEFINE added == (r.amount * SatSub(later, f.since)) \div r.per_secs
  <1>1. f \in Buckets /\ f.balance = r.max_capacity
    BY RuleNumbers DEF Full, Buckets
  <1> HIDE DEF f
  <1>2. /\ added \in Nat
        /\ BalanceAt(f, later, r) = Lesser(f.balance + added, r.max_capacity)
    BY <1>1, Exact
  <1> HIDE DEF added
  <1> QED BY <1>1, <1>2, RuleNumbers DEF Lesser, f

\* As long as the process lives, what is left of a caller's quota drops only
\* in the step that answers it OK: checks, refusals and failures are free.
THEOREM BilledOnlyForSuccess == Spec => BilledOnlyOnSuccess
  <1>1. IInv /\ [Next]_vars =>
          [restarts' = restarts =>
             \A c \in Callers : QuotaLeft(c)' >= QuotaLeft(c) \/ Succeeds(c)]_usage
    <2> SUFFICES ASSUME IInv, Next, restarts' = restarts, usage' # usage,
                        NEW c \in Callers
                 PROVE  QuotaLeft(c)' >= QuotaLeft(c) \/ Succeeds(c)
      BY DEF vars
    <2> USE DEF IInv
    <2>1. ASSUME NEW e \in Callers, NEW protocol \in Protocols, NEW m \in Names,
                 Arrive(e, protocol, m)
          PROVE  QuotaLeft(c)' >= QuotaLeft(c)
      <3>1. /\ UNCHANGED <<grants, clock>>
            /\ \E k, b : usage' = [usage EXCEPT !.rate[k] = b]
        BY <2>1 DEF Arrive, Refuse, RateRefuses, Rated, Unrated
      <3>2. usage'.quota = usage.quota
        BY <3>1 DEF TypeOK
      <3> QED BY <3>1, <3>2, QuotaLeftFrame
    <2> DEFINE d == call.caller
    <2> DEFINE quota == call.profile.quota
    <2>2. ASSUME NEW cost \in Costs, QuotaRefuses(cost) \/ Quoted(cost)
          PROVE  QuotaLeft(c)' >= QuotaLeft(c)
      <3> DEFINE b == QuotaEntry(d, quota, call.now)
      <3>1. /\ call # Idle /\ UNCHANGED <<grants, clock>> /\ UnderQuota(cost)
            /\ usage' = [usage EXCEPT !.quota[d] = b]
        BY <2>2, Busy DEF QuotaRefuses, Quoted
      <3>2. /\ d \in Callers /\ call.now \in U64 /\ clock \in U64
            /\ usage.quota[d] \in Buckets \cup {None}
        BY <3>1, CallFields, ClockU64, StateNumbers
      <3>3. /\ Resolve(grants, d) # None /\ Resolve(grants, d).profile = call.profile
            /\ quota # None /\ quota \in RateLimitRule /\ IsValid(quota)
        BY <3>1, AccessRules DEF AuthorityInForce, UnderQuota, Keeps
      <3>4. CASE c # d
        <4>1. usage'.quota[c] = usage.quota[c]
          BY <3>1, <3>4 DEF TypeOK
        <4> QED BY <3>1, <4>1, QuotaLeftFrame
      <3>5. CASE c = d /\ usage.quota[d] # None
        <4>1. b = usage.quota[d]
          BY <3>5 DEF QuotaEntry, Entry
        <4>2. usage'.quota[c] = usage.quota[c]
          <5> HIDE DEF b, d
          <5> QED BY <3>1, <3>5, <4>1 DEF TypeOK
        <4> QED BY <3>1, <4>2, QuotaLeftFrame
      <3>6. CASE c = d /\ usage.quota[d] = None
        <4>1. b = Full(quota, call.now) /\ b \in Buckets /\ b # None
          BY <3>2, <3>3, <3>6, EntryType, BucketNumbers DEF QuotaEntry, Entry
        <4>2. usage'.quota[d] = b
          <5> HIDE DEF b, d
          <5> QED BY <3>1, <3>2 DEF TypeOK
        <4>3. QuotaLeft(c)' = BalanceAt(b, clock, quota)
          <5> HIDE DEF b
          <5> QED BY <3>1, <3>3, <3>6, <4>1, <4>2 DEF QuotaLeft, QuotaEntry, Entry
        <4>4. QuotaLeft(c) = BalanceAt(Full(quota, clock), clock, quota)
          BY <3>3, <3>6 DEF QuotaLeft, QuotaEntry, Entry
        <4> HIDE DEF d, quota
        <4>5. QuotaLeft(c)' = quota.max_capacity /\ QuotaLeft(c) = quota.max_capacity
          BY <3>2, <3>3, <4>1, <4>3, <4>4, FullStaysFull
        <4> QED BY <3>3, <4>5, RuleNumbers
      <3> QED BY <3>4, <3>5, <3>6
    <2>3. ASSUME NEW sats \in Costs, ExecuteOk(sats)
          PROVE  QuotaLeft(c)' >= QuotaLeft(c) \/ Succeeds(c)
      <3>1. /\ call # Idle /\ call' = Idle /\ UNCHANGED <<grants, clock>>
            /\ reply'.code = "OK" /\ reply'.caller = d
            /\ \E b : usage' = [usage EXCEPT !.quota[d] = b]
        BY <2>3, Busy DEF ExecuteOk, AnswerCall, Answer
      <3>2. CASE c = d
        BY <3>1, <3>2 DEF Succeeds
      <3>3. CASE c # d
        <4>1. usage'.quota[c] = usage.quota[c]
          BY <3>1, <3>3 DEF TypeOK
        <4> QED BY <3>1, <4>1, QuotaLeftFrame
      <3> QED BY <3>2, <3>3
    <2>4. ~ (\/ PrepareFails \/ ExecuteFails \/ Tick \/ SetBack
             \/ \E e \in GrantEvents : GrantArrives(e))
      BY DEF PrepareFails, ExecuteFails, Tick, SetBack, GrantArrives
    <2>5. ~ Restart
      BY StateNumbers DEF Restart
    <2> QED BY <2>1, <2>2, <2>3, <2>4, <2>5 DEF Next
  <1> QED BY <1>1, AlwaysIInv, PTL DEF Spec, BilledOnlyOnSuccess
=============================================================================
