------------------------------ MODULE Pipeline ------------------------------
(***************************************************************************)
(* The seven steps a request goes through (service/pipeline.rs) with the   *)
(* live buckets they consult and charge (service/state.rs) and the call to *)
(* the node's handler (service/dispatch.rs).                               *)
(*                                                                         *)
(* handle() borrows the grants and, mutably, the usage for its whole run,  *)
(* so requests and grant events take turns.  Between the awaits (prepare,  *)
(* execute) only the clock moves, and every step uses the instant "now"    *)
(* read when the request was decoded.  The clock is the wall clock: it     *)
(* runs forward and may be set back, also while a handler works.  The node *)
(* behind the handler is external: it quotes any cost, may fail, and takes *)
(* any time.                                                               *)
(***************************************************************************)
EXTENDS Grants

CONSTANTS Callers,          \* keys that send requests
          Names,            \* method names requests carry
          Served,           \* Served[protocol]: what methods() lists
          Costs,            \* costs a node may quote, in satoshis
          GrantEvents,      \* the grant events owners publish
          QuotaCeiling,     \* a rule at least as generous as every quota
          RateCeiling,      \* ... and as every method rate they write
          NodeKeepsSelection, \* the node executes what it prepared
          MaxTime, MaxAdvance, MaxRestarts, MaxLapses

Protocols == {"wallet", "control"}

\* Everything a rule allows, the ceiling allows.
Dominated(rule, ceiling) ==
  rule # None => /\ rule.max_capacity <= ceiling.max_capacity
                 /\ rule.amount * ceiling.per_secs <= ceiling.amount * rule.per_secs

ASSUME CeilingsAssumption ==
  \A e \in GrantEvents :
    (e.content # Unparseable /\ ProfileValid(e.content)) =>
      /\ Dominated(e.content.quota, QuotaCeiling)
      /\ \A map \in {e.content.methods, e.content.control} :
           \A m \in DOMAIN map : Dominated(map[m], RateCeiling)

\* What parsing guarantees of a profile.
WellTyped(p) ==
  /\ p.quota \in RateLimitRule \cup {None}
  /\ \A map \in {p.methods, p.control, p.notifications} :
       \A m \in DOMAIN map : map[m] \in RateLimitRule \cup {None}

ASSUME GrantEventsAssumption ==
  \A e \in GrantEvents : /\ Target(e) \in Targets \cup {None}
                         /\ VerifiedGrant(e) # None
                         /\ WellTyped(VerifiedGrant(e).profile)

ASSUME BoundsAssumption ==
  /\ MaxTime \in U64 /\ MaxAdvance \in Nat
  /\ MaxRestarts \in Nat /\ MaxLapses \in Nat
  /\ Costs \subseteq U64
  /\ None \notin Buckets \cup RateLimitRule
  /\ None \notin {"NOT_IMPLEMENTED", "BAD_PARAMS"}
  /\ {QuotaCeiling, RateCeiling}
       \subseteq [amount : Nat, per_secs : Nat, max_capacity : Nat]

VARIABLES grants,
          usage,      \* Usage: the live buckets, None where not yet seen
          call,       \* the request in flight, or Idle
          reply,      \* the last answer sent
          clock,
          advanced,   \* history: seconds the clock ran forward in all
          restarts,   \* how often the process was restarted
          moved,      \* history: sats moved under a quota, per caller
          lapses,     \* history: how often that went unbilled, per caller
          prepares    \* history: rate-limited prepares, per caller and name

vars == <<grants, usage, call, reply, clock, advanced, restarts, moved, lapses, prepares>>

Idle == [pc |-> "idle"]
NoReply == [code |-> "none"]
NoUsage == [rate  |-> [k \in Callers \X Names |-> None],
            quota |-> [c \in Callers |-> None]]

Init ==
  /\ grants = NoGrants
  /\ usage = NoUsage
  /\ call = Idle
  /\ reply = NoReply
  /\ clock = 0
  /\ advanced = 0
  /\ restarts = 0
  /\ moved = [c \in Callers |-> 0]
  /\ lapses = [c \in Callers |-> 0]
  /\ prepares = [k \in Callers \X Names |-> 0]

-----------------------------------------------------------------------------
(* Usage: an entry is made, full, by the first check that looks for it.    *)

Entry(bucket, rule, now) == IF bucket = None THEN Full(rule, now) ELSE bucket

RateEntry(c, m, rule, now)  == Entry(usage.rate[<<c, m>>], rule, now)
QuotaEntry(c, rule, now)    == Entry(usage.quota[c], rule, now)

RateAllows(c, m, rule, now) ==
  CanWithdraw(RateEntry(c, m, rule, now), 1, now, rule)

\* Mutant of QuotaAllows: any balance lets any cost through.
QuotaAllowsIfAny(c, cost, rule, now) ==
  CanWithdraw(QuotaEntry(c, rule, now), 1, now, rule)

QuotaAllows(c, cost, rule, now) ==
  CanWithdraw(QuotaEntry(c, rule, now), cost, now, rule)

-----------------------------------------------------------------------------
(* Steps 2 to 4.                                                           *)

\* Step 3: grant, else OTHERS, else UNAUTHORIZED; then the protocol's map.
Access(c, protocol, m) ==
  LET g == Resolve(grants, c)
  IN  IF g = None THEN Denied("UNAUTHORIZED")
      ELSE IF protocol = "wallet" THEN AllowsWallet(g.profile, m)
      ELSE AllowsControl(g.profile, m)

\* Mutant of Refusal: validate precedes authorize.
RefusalValidatingFirst(c, protocol, m, valid) ==
  IF m \notin Served[protocol] THEN "NOT_IMPLEMENTED"
  ELSE IF ~ valid THEN "BAD_PARAMS"
  ELSE Access(c, protocol, m).denied

\* The first refusal of steps 2 (resolve), 3 (authorize) and 4 (validate),
\* None if the request passes all three.
Refusal(c, protocol, m, valid) ==
  IF m \notin Served[protocol] THEN "NOT_IMPLEMENTED"
  ELSE IF Access(c, protocol, m).denied # None THEN Access(c, protocol, m).denied
  ELSE IF ~ valid THEN "BAD_PARAMS"
  ELSE None

Answer(c, protocol, m, code) ==
  reply' = [code |-> code, caller |-> c, protocol |-> protocol, method |-> m]

AnswerCall(code) == Answer(call.caller, call.protocol, call.method, code)

Refuse(c, protocol, m, valid) ==
  /\ call = Idle
  /\ Refusal(c, protocol, m, valid) # None
  /\ Answer(c, protocol, m, Refusal(c, protocol, m, valid))
  /\ UNCHANGED <<grants, usage, call, clock, advanced, restarts, moved, lapses, prepares>>

\* The call as it is handed to prepare.
InFlight(c, protocol, m) ==
  [pc |-> "preparing", caller |-> c, protocol |-> protocol, method |-> m,
   profile |-> Resolve(grants, c).profile, now |-> clock, cost |-> 0]

-----------------------------------------------------------------------------
(* Step 5a: the rate, charged as soon as it is checked.                    *)

RateRefuses(c, protocol, m) ==
  LET rule == Access(c, protocol, m).rate
  IN  /\ call = Idle
      /\ Refusal(c, protocol, m, TRUE) = None
      /\ rule # None
      /\ ~ RateAllows(c, m, rule, clock)
      /\ usage' = [usage EXCEPT !.rate[<<c, m>>] = RateEntry(c, m, rule, clock)]
      /\ Answer(c, protocol, m, "RATE_LIMITED")
      /\ UNCHANGED <<grants, call, clock, advanced, restarts, moved, lapses, prepares>>

\* Mutant of Rated: the rate is checked and left to be charged on success.
RatedUncharged(c, protocol, m) ==
  LET rule == Access(c, protocol, m).rate
  IN  /\ call = Idle
      /\ Refusal(c, protocol, m, TRUE) = None
      /\ rule # None
      /\ RateAllows(c, m, rule, clock)
      /\ usage' = [usage EXCEPT !.rate[<<c, m>>] = RateEntry(c, m, rule, clock)]
      /\ prepares' = [prepares EXCEPT ![<<c, m>>] = @ + 1]
      /\ call' = InFlight(c, protocol, m)
      /\ UNCHANGED <<grants, reply, clock, advanced, restarts, moved, lapses>>

Rated(c, protocol, m) ==
  LET rule == Access(c, protocol, m).rate
  IN  /\ call = Idle
      /\ Refusal(c, protocol, m, TRUE) = None
      /\ rule # None
      /\ RateAllows(c, m, rule, clock)
      /\ usage' = [usage EXCEPT !.rate[<<c, m>>] =
                     Withdraw(RateEntry(c, m, rule, clock), 1, clock, rule)]
      /\ prepares' = [prepares EXCEPT ![<<c, m>>] = @ + 1]
      /\ call' = InFlight(c, protocol, m)
      /\ UNCHANGED <<grants, reply, clock, advanced, restarts, moved, lapses>>

Unrated(c, protocol, m) ==
  /\ call = Idle
  /\ Refusal(c, protocol, m, TRUE) = None
  /\ Access(c, protocol, m).rate = None
  /\ call' = InFlight(c, protocol, m)
  /\ UNCHANGED <<grants, usage, reply, clock, advanced, restarts, moved, lapses, prepares>>

-----------------------------------------------------------------------------
(* Step 5b, prepare returns; step 5c, the quota against the quoted cost.   *)

PrepareFails ==
  /\ call.pc = "preparing"
  /\ AnswerCall("HANDLER_ERROR")
  /\ call' = Idle
  /\ UNCHANGED <<grants, usage, clock, advanced, restarts, moved, lapses, prepares>>

\* The quota is consulted only for a call that costs something.
UnderQuota(cost) == cost > 0 /\ call.profile.quota # None

QuotaRefuses(cost) ==
  LET c == call.caller  quota == call.profile.quota
  IN  /\ call.pc = "preparing"
      /\ UnderQuota(cost)
      /\ ~ QuotaAllows(c, cost, quota, call.now)
      /\ usage' = [usage EXCEPT !.quota[c] = QuotaEntry(c, quota, call.now)]
      /\ AnswerCall("QUOTA_EXCEEDED")
      /\ call' = Idle
      /\ UNCHANGED <<grants, clock, advanced, restarts, moved, lapses, prepares>>

\* Mutant of Quoted: the check reserves the cost that commit then charges.
QuotedReserving(cost) ==
  LET c == call.caller  quota == call.profile.quota
  IN  /\ call.pc = "preparing"
      /\ IF UnderQuota(cost)
         THEN /\ QuotaAllows(c, cost, quota, call.now)
              /\ usage' = [usage EXCEPT !.quota[c] =
                   Withdraw(QuotaEntry(c, quota, call.now), cost, call.now, quota)]
         ELSE UNCHANGED usage
      /\ call' = [call EXCEPT !.pc = "executing", !.cost = cost]
      /\ UNCHANGED <<grants, reply, clock, advanced, restarts, moved, lapses, prepares>>

Quoted(cost) ==
  LET c == call.caller  quota == call.profile.quota
  IN  /\ call.pc = "preparing"
      /\ IF UnderQuota(cost)
         THEN /\ QuotaAllows(c, cost, quota, call.now)
              /\ usage' = [usage EXCEPT !.quota[c] = QuotaEntry(c, quota, call.now)]
         ELSE UNCHANGED usage
      /\ call' = [call EXCEPT !.pc = "executing", !.cost = cost]
      /\ UNCHANGED <<grants, reply, clock, advanced, restarts, moved, lapses, prepares>>

-----------------------------------------------------------------------------
(* Step 6, execute returns; step 7, commit.  Dispatch passes the handler   *)
(* the parameters and the caller, not what prepare returned: what is moved *)
(* is the quoted cost only if the node itself keeps its selection.         *)

Movable == IF NodeKeepsSelection THEN {call.cost} ELSE Costs

\* What an execution that moved money adds to the history.
Moves(sats) ==
  moved' = IF UnderQuota(call.cost)
           THEN [moved EXCEPT ![call.caller] = @ + sats]
           ELSE moved

\* What a failing execution leaves behind: money does not move, or it has
\* moved by the time the error is returned, by a handler that fails after
\* paying or by dispatch, which fails to serialise the result of a handler
\* that succeeded.
FailedMoves ==
  \/ UNCHANGED <<moved, lapses>>
  \/ /\ UnderQuota(call.cost)
     /\ lapses[call.caller] < MaxLapses
     /\ lapses' = [lapses EXCEPT ![call.caller] = @ + 1]
     /\ \E sats \in Movable : Moves(sats)

\* Mutant of ExecuteFails: the quoted cost is committed on failure too.
ExecuteFailsCharged ==
  /\ call.pc = "executing"
  /\ FailedMoves
  /\ AnswerCall("HANDLER_ERROR")
  /\ usage' = IF UnderQuota(call.cost)
              THEN [usage EXCEPT !.quota[call.caller] =
                      Withdraw(@, call.cost, call.now, call.profile.quota)]
              ELSE usage
  /\ call' = Idle
  /\ UNCHANGED <<grants, clock, advanced, restarts, prepares>>

\* An error is answered before commit: nothing is charged, whatever moved.
ExecuteFails ==
  /\ call.pc = "executing"
  /\ FailedMoves
  /\ AnswerCall("HANDLER_ERROR")
  /\ call' = Idle
  /\ UNCHANGED <<grants, usage, clock, advanced, restarts, prepares>>

ExecuteOk(sats) ==
  LET c == call.caller  quota == call.profile.quota
  IN  /\ call.pc = "executing"
      /\ sats \in Movable
      /\ Moves(sats)
      /\ usage' = IF UnderQuota(call.cost)
                  THEN [usage EXCEPT !.quota[c] =
                          Withdraw(QuotaEntry(c, quota, call.now),
                                   call.cost, call.now, quota)]
                  ELSE usage
      /\ AnswerCall("OK")
      /\ call' = Idle
      /\ UNCHANGED <<grants, clock, advanced, restarts, lapses, prepares>>

-----------------------------------------------------------------------------
(* Around the pipeline.                                                    *)

\* Mutant of GrantArrives: grant events are applied while a handler works.
GrantArrivesAnytime(e) ==
  /\ grants' = ApplyGrant(grants, e)
  /\ UNCHANGED <<usage, call, reply, clock, advanced, restarts, moved, lapses, prepares>>

\* A grant event is applied between two requests, never during one.
GrantArrives(e) ==
  /\ call = Idle
  /\ grants' = ApplyGrant(grants, e)
  /\ UNCHANGED <<usage, call, reply, clock, advanced, restarts, moved, lapses, prepares>>

Tick ==
  /\ clock < MaxTime /\ advanced < MaxAdvance
  /\ clock' = clock + 1
  /\ advanced' = advanced + 1
  /\ UNCHANGED <<grants, usage, call, reply, restarts, moved, lapses, prepares>>

SetBack ==
  /\ \E earlier \in 0 .. (clock - 1) : clock' = earlier
  /\ UNCHANGED <<grants, usage, call, reply, advanced, restarts, moved, lapses, prepares>>

\* Nothing is persisted: a restart forgets buckets, grants and the call in
\* flight, whose money may or may not have moved by then.
Restart ==
  /\ restarts < MaxRestarts
  /\ restarts' = restarts + 1
  /\ \/ UNCHANGED moved
     \/ call.pc = "executing" /\ \E sats \in Movable : Moves(sats)
  /\ grants' = NoGrants
  /\ usage' = NoUsage
  /\ call' = Idle
  /\ UNCHANGED <<reply, clock, advanced, lapses, prepares>>

Arrive(c, protocol, m) ==
  \/ \E valid \in BOOLEAN : Refuse(c, protocol, m, valid)
  \/ RateRefuses(c, protocol, m)
  \/ Rated(c, protocol, m)
  \/ Unrated(c, protocol, m)

Next ==
  \/ \E c \in Callers, protocol \in Protocols, m \in Names : Arrive(c, protocol, m)
  \/ PrepareFails
  \/ \E cost \in Costs : QuotaRefuses(cost) \/ Quoted(cost)
  \/ ExecuteFails
  \/ \E sats \in Costs : ExecuteOk(sats)
  \/ \E e \in GrantEvents : GrantArrives(e)
  \/ Tick
  \/ SetBack
  \/ Restart

Spec == Init /\ [][Next]_vars

-----------------------------------------------------------------------------
(* Properties.                                                             *)

Calls ==
  [pc : {"preparing", "executing"}, caller : Callers, protocol : Protocols,
   method : Names, now : 0 .. MaxTime, cost : Costs \cup {0},
   profile : {VerifiedGrant(e).profile : e \in GrantEvents}]

\* The state is of the declared types.
TypeOK ==
  /\ grants \in [Targets -> {VerifiedGrant(e) : e \in GrantEvents} \cup {None}]
  /\ usage \in [rate  : [Callers \X Names -> Buckets \cup {None}],
               quota : [Callers -> Buckets \cup {None}]]
  /\ call \in Calls \cup {Idle}
  /\ clock \in 0 .. MaxTime
  /\ advanced \in 0 .. MaxAdvance
  /\ restarts \in 0 .. MaxRestarts
  /\ moved \in [Callers -> Nat]
  /\ lapses \in [Callers -> 0 .. MaxLapses]
  /\ prepares \in [Callers \X Names -> Nat]

\* What buckets under rules no more generous than ceiling can have paid out
\* by now: one full bucket for each of fills, and the refill of the seconds
\* the clock ran forward.  Those it ran twice, having been set back, are paid
\* twice, and no others.
WithinCeiling(n, ceiling, fills) ==
  ceiling.per_secs * n
    <= ceiling.per_secs * ceiling.max_capacity * fills + ceiling.amount * advanced

\* The money moved for a caller under a quota stays within the most generous
\* quota the owner ever wrote (steps 5c and 7), whatever the order of
\* requests, replaced grants, failures, slow handlers, restarts and changes
\* of the clock.  Two things are paid on top: a full bucket for each further
\* life of the process, and no more than a full bucket for each execution
\* that moved money and returned an error, which is never charged.  It holds
\* of a node that executes what it has prepared (NodeKeepsSelection).
QuotaBound ==
  \A c \in Callers : WithinCeiling(moved[c], QuotaCeiling, restarts + 1 + lapses[c])

\* A caller cannot make the node prepare more often than the rate allows,
\* also when the requests are then refused or fail (step 5a).
RateBound ==
  \A k \in Callers \X Names : WithinCeiling(prepares[k], RateCeiling, restarts + 1)

\* The withdrawal at commit, whose result the code ignores, cannot be
\* refused: the quota that was checked before execute still covers it.
CommitHonoured ==
  (call.pc = "executing" /\ UnderQuota(call.cost)) =>
    /\ usage.quota[call.caller] # None
    /\ QuotaAllows(call.caller, call.cost, call.profile.quota, call.now)

\* While the handler works for a caller, the grant that let the request in is
\* still the one in force: no revocation is applied half way through a call.
AuthorityInForce ==
  call # Idle =>
    /\ Access(call.caller, call.protocol, call.method).denied = None
    /\ Resolve(grants, call.caller).profile = call.profile

\* Authorize precedes validate: only a caller that may call the method is
\* ever told that its parameters are wrong.
ParamsNotJudgedFirst ==
  [][reply'.code = "BAD_PARAMS" /\ reply' # reply =>
       Access(reply'.caller, reply'.protocol, reply'.method).denied = None]_vars

\* What the rules in force now would let a caller take out now.
QuotaLeft(c) ==
  LET g == Resolve(grants, c)
  IN  IF g = None \/ g.profile.quota = None THEN 0
      ELSE BalanceAt(QuotaEntry(c, g.profile.quota, clock), clock, g.profile.quota)

Succeeds(c) == reply'.code = "OK" /\ reply'.caller = c /\ call # Idle /\ call' = Idle

\* A caller is never billed money for something it did not receive: as long
\* as the process lives, what is left of its quota only drops in the step
\* that answers it OK.
BilledOnlyOnSuccess ==
  [][restarts' = restarts =>
       \A c \in Callers : QuotaLeft(c)' >= QuotaLeft(c) \/ Succeeds(c)]_usage
=============================================================================
