# A TLA+ model of nostr-ln

`nostr-ln` is the protocol layer of a Lightning node that is controlled over
Nostr relays: the service side and the clients of NNC (NIP-XX, node control)
and NWC (NIP-47, wallet). This directory holds TLA+ modules that model it, the
TLC runs that check them, and proofs for TLAPS. Paths below are relative to the
repository; `transport.rs:360` means `src/service/transport.rs`, line 360.

## The system

| part | state | operations | what makes it correct |
|---|---|---|---|
| limits (`limit.rs`) | a bucket: balance, since | check, withdraw | never pays out more than capacity plus refill; a yes stays good; exact in 64 bits |
| profiles (`profile.rs`) | three maps and a quota | lookup per map, validity | deny by default; an invalid profile grants nothing |
| grants (`grant.rs`) | newest grant per controller and for `OTHERS` | apply an event, resolve a caller | newest trusted event in force; revocation holds |
| usage (`service/state.rs`) | live rate and quota buckets per controller | check, charge | checks do not take anything |
| pipeline (`service/pipeline.rs`, `dispatch.rs`, `handler.rs`) | the request in flight | resolve, authorize, validate, rate, prepare, quota, execute, commit | limits hold over any history; no bill without success; authority in force while a handler works |
| subscriptions (`subscription.rs`) | what each controller wants | apply an event, recipients of a type | delivery is the intersection with the grant of this moment |
| transport (`service/transport.rs`) | connection state, the registries and a mirror of them | run, refresh, reconnect poll, event loop, notify, deliver | no stale grants; the registries catch up; requests are answered |
| NNC client (`nnc/client/`) | calls in flight, handles of asynchronous commands, a notification listener | send, await_response, begin, `Pending` and its Drop, set_subscription, handle_notifications | a caller is told what the node decided or nothing; nothing fast is missed; handles clean up |
| NWC client (`nwc/client/`) | calls in flight, a notification stream | send, notifications, next, wait_for | as above; waits end |
| URIs (`nnc/uri.rs`, `nwc/client/mod.rs`) | none | parse, display | what is displayed parses back; a wallet URI is read whatever the order of its parameters |
| message types, macro, vendored code | none | serialisation | not modelled |

**Interaction.** `Service::run` is one task. It owns the grants, subscriptions
and usage, hands `&Grants` and `&mut Usage` to `pipeline::handle` for the whole
of a request (so nothing else is applied while a handler works) and copies
grants and subscriptions into a lock-protected mirror that `Notifier`s, held by
the node's own tasks, read. Relays deliver grant, subscription and request
events; the SDK client removes duplicates and forwards to a broadcast stream.
Nothing is persisted: grants and subscriptions are read back from the relays,
usage is forgotten. On the other side, all calls, handles and listeners of one
client read copies of one bounded broadcast, and share the relay filters.

**What is hard.** Events late, repeated, reordered and differing between
relays; the time between subscribing, refreshing and listening; a failed fetch;
a clock read once per request and used after two awaits, and which may be set
back; a check and a charge with an await between them and the result of the
charge ignored; rules replaced under live buckets; restarts; recipients read
under a lock and sent to after it. In the clients: timeouts against late
answers, answers before anyone reads, streams that overflow, futures and handles
dropped at any await, filters that start at the client's second and are compared
with the node's or the wallet's. `PROJECT.json` lists each of these under `hazards`
at its line.

## Modules

`Limit` <- `Profile` <- `Grants` <- `Subscriptions` are operators only, each the
translation of one source file; `Sdk` holds the relay filters and the broadcast
both clients stand on. The modules with state extend them:

| module | models | state and actions |
|---|---|---|
| `Bucket` | one live bucket | `Check`, `Take`; `Tick` and `SetBack`, the wall clock; `OpenWindow` starts the window of time the history variables watch |
| `GrantStore` | `Grants` fed by relays | `Deliver(e)` is `Grants::apply` |
| `NewestWins` | abstract: a register whose entries are never replaced by older ones | `Put` |
| `Pipeline` | `handle`, `Usage`, the dispatch | one action per way a step can end: `Refuse` (steps 2 to 4), `RateRefuses`, `Rated`, `Unrated`, `PrepareFails`, `QuotaRefuses`, `Quoted`, `ExecuteFails`, `ExecuteOk`; `GrantArrives`, `Tick`, `SetBack`, `Restart` around them |
| `Registry` | grants and subscriptions together | `DeliverGrant`, `DeliverSubscription` |
| `Service` | `Service::run` over relays | `Subscribe`, `StartupFetch`, `EnterLoop`, then `OnRegistryEvent`, `OnRequest`, `HandlerReturns`, `Lag`, `TickReturned`, `Reread`, `TickLost`; a fetch is followed by one `ApplyFetched` per event and by `Mirror`, and the network goes on in between; `Crash`; the relays, the connections and the SDK client as external actions |
| `Notifier` | `notify`, `deliver` and `announce` beside the loop; extends `Registry` | `Apply` changes the loop's registries, `Mirror` writes the copy, a call reads it once and then sends to one recipient after the other, each send failing or not |
| `Command` | abstract: issued once, decided at most once, the caller learns the decision or gives up without knowing | `Issue`, `Decide`, `Learn`, `GiveUp` |
| `NncClient` | the NNC client: plain and asynchronous commands, handles, the listener | one action per await and way it can end; the node as external actions |
| `WalletClient` | the NWC client: requests, the notification stream, next and wait_for | as above; the wallet as external actions |
| `Uri` | percent coding, both parsers, the display | `Show` and `ShowParsed` display, `Compose` is the wallet's writing, `Parse` gives the text to both parsers; over inputs given by the instance |
| `MC*` | instances for TLC | |
| `CommonProofs` | lemmas about the arithmetic of `Limit` and about sequences | |
| `BucketProofs`, `GrantStoreProofs`, `PipelineProofs`, `NotifierProofs`, `ServiceProofs`, `NncClientProofs`, `WalletClientProofs` | theorems about the module in the name, `NotifierProofs` also about `Registry` | |

Abstractions. A profile map is a function from names to rate rules; a grant
event is a record of what `apply` looks at; decryption and JSON parsing are the
distinguished contents `Unparseable` and `Unreadable`; per-method validation is
one flag; error wording is left out. In `Service` a request stands for a whole
run of `Pipeline`: either the grants refuse it or the loop waits for the
handler. A wire carries only events the client has not seen when they are sent,
since the others have no effect. What arrives is reported to the stream in the
order of its arrival, what one fetch brings in any order. The stream keeps the
last `Capacity` events that the loop has not read; a loop that a handler held up
for longer skips the others (`Lag`), and the history variable `lost` holds what was
skipped until a re-read brings it. The clock is the wall clock, which runs
(`Tick`) and may be set back at any moment (`SetBack`); the history variable
`advanced` counts the seconds it ran. In the clients the methods are commands
of two sorts, since all of them run the same three functions; an event carries
its kind, author, the request and subscription it names, its second and a body
that reads, does not decrypt (`"garbled"`) or does not parse (`"malformed"`). A
timeout may fire at any moment, so every order of a deadline and an answer
occurs. A URI is a scheme and a sequence of bytes; keys are tokens that parse as
what they are. Definitions whose comment starts with "Mutant
of" are plausible mistakes, kept to show that each property would notice one.

## Runs

Passing:

| run | question | instance | states |
|---|---|---|---|
| `bucket` | does a bucket keep its promises | every rule of two-bit integers, a clock of three seconds that runs forward five | 301 thousand |
| `grant_store` | is the newest trusted grant in force, does a revocation hold | 15 events: two owners, a stranger, two controllers, `OTHERS`, ties, unusable contents | 44 thousand |
| `pipeline` | do limits and bills stay right over any history | one caller, two methods, both protocols, four grants that widen, narrow and revoke, costs 0 to 2, a clock that runs two seconds in all and is set back, one restart, one execution per caller that moves money and fails (`MaxLapses`) | 510 thousand |
| `notifier` | who receives a notification, how often, and by whose last word; what the registry forgets and how large it gets | five grants, nine subscriptions and unsubscriptions, two controllers; calls of a handler and of other tasks, with and without a caller, sends that fail | 385 thousand |
| `service` | stale grants, taking effect, answering | one relay, a grant, a revocation, a grant for `OTHERS`, a request, one lost connection, one crash, re-reads that may fail, a stream of two events, replies that may fail | 172 thousand |
| `service_relays` | catching up from two relays | two relays with different contents, a revocation, a grant for `OTHERS`, a subscription, one lost connection, a stream of two events | 1.9 million |
| `nnc_client` | do answers, outcomes and deliveries reach what waits for them, is the caller told the truth, does every call and handle end | six scenes: two commands at once, a command beside the listener, each alone with a node whose clock is a second behind, unreadable bodies and one foreign event; streams of two events | 79 thousand |
| `wallet_client` | are notifications kept between reads, is the caller told the truth, do waits end | four scenes: two requests, a request beside the stream, each alone with a wallet whose clock is a second behind, unreadable bodies and one foreign event | 129 thousand |
| `uri` | do displayed URIs come back, does the wallet client read what a wallet wrote | relays of up to three characters including every separator and one outside ASCII, two relays, the secret at every place; every query of up to five symbols or with a relay of up to four characters, under either scheme and a third | 125 thousand |

The bounds are small but reach what the properties are about: in `pipeline` a
quota is exhausted, refilled, raised and lowered, and a call straddles a tick of
the clock or is overtaken by its being set back; `MaxAdvance` lets the clock run
over a second again that it has run over before, which is the case that pays
twice; timestamps in `grant_store` collide; in `service` a crash can fall between
any two steps, and the third event that comes while a handler works is one too many
for the stream. Streams of two events overflow as soon as three are unread, and
two commands are enough for one to receive, read past or push out what belongs
to the other. Scenes keep the product small: what goes wrong between two parts
of a client does not need bad clocks as well, and a part that meets unreadable
or foreign events does so alone. `pipeline`, the `service` runs, the clients and
`uri` do not check for deadlock: clock, events and calls are bounded, so these
models stop when they are used up.

The passing `service` runs assume an undisturbed startup (`StartupFaults = {}`):
nothing is published, and no connection changes, between `subscribe` and the
event loop, and the first fetch succeeds. The code does not guarantee that; the
violation runs show what happens otherwise.

Violations, each a sentence of the documentation that the code does not keep
(quoted in `findings`):

| run | what happens |
|---|---|
| `registry_unsubscribe` | an unsubscription forgets its time, and an older subscription comes back |
| `service_startup` | a revocation published between the first refresh and `notifications()` is lost |
| `service_renewed` | after a restart a subscription older than its renewed grant is rejected |

`StartupFaults` also has the values `"connection"` and `"fetch"`. With either,
TLC refutes `InSync` or `NoStaleAllow` too: a relay that connects between the
first refresh (`transport.rs:377`) and the first look at relay status (384) is
never re-read, and a failed first fetch (467) leaves a revocation unread that
the stream will not report again.

Met while modelling, without a run of their own:

- The rate is charged before the request has succeeded (`pipeline.rs:130`, whose
  comment gives the reason), while `state.rs:3`, `limit.rs:8` and the
  repository's README (line 58) say that only successful requests are charged.
  `RateBound` states what the code achieves by it.
- Under a grant for `OTHERS` every key resolves to a grant, so the subscriber
  registry is not "bounded by what the owner wrote" (`subscription.rs:42`).
  `BoundedByGrants` says that it is as long as there is no such grant.
- A wall clock that is set back moves `since` back at the next withdrawal
  (`limit.rs:119`), and the seconds that are then run again are credited again.
  `WindowBound`, `RateBound` and `QuotaBound` count the seconds the clock ran, and
  say that this is all: a clock set back by a minute gives away the refill of a
  minute, and no full bucket.
- `notifications()` is a broadcast that keeps a fixed number of events
  (`transport.rs:386`) and says nothing to a reader that was too slow. A
  revocation that is skipped while a handler works is not applied until a relay
  goes away and comes back; a skipped request gets no answer. The properties of
  `Service` name this exception (`Missed`).
- `quota_allows`, which "does not mutate" (`state.rs:47`), makes the bucket at
  the first check and so fixes its balance: a quota raised later is not
  available at once to a caller that has spent nothing.
- `execute` is not given what `prepare` selected (`pipeline.rs:168`), although
  `handler.rs:136` and the repository's README (line 91) say so. `QuotaBound`
  therefore rests on `NodeKeepsSelection`, an assumption on the node; with
  `FALSE` TLC refutes it.
- An execution that returns an error is not billed (`pipeline.rs:187`), whatever it
  has done: a handler may fail after the money has moved, and the dispatch fails
  after the handler has succeeded when the result does not serialise
  (`dispatch.rs:20`, 37). `FailedMoves` has this case, `lapses` counts it, and
  `QuotaBound` allows one full bucket for each: it bounds what can be moved unbilled
  by the number of such failures, and nothing in the code bounds that number.
- A reply that cannot be encrypted or sent is logged and not tried again
  (`transport.rs:552`). `Reply` may fail at any time and does so without a connected
  relay; `RequestAnswered` then says that the request was handled, and its reply
  failed (`unreplied`).
- With two relays, a revocation on the one that is away and a request through
  the other are the window of stale grants that the repository's README (line
  104) says does not exist. `NoStaleAllow` is checked with one relay.
- The early returns of `begin` (`methods.rs:359` on) leave its outcome
  subscription open, since the handle whose Drop would end it is never made;
  no call ends its response subscription.
- A handle takes an outcome by its `e` tag and does not look at the author
  (`pending.rs:113`), unlike `await_response`.
- The response filter starts at the client's current second
  (`nnc/client/mod.rs:184`): with a node whose clock is behind, the answer is not
  passed on. `PassedOn` names this exception, and that outcomes are free of it.
- The listener returns on the first delivery it cannot decrypt or parse, and
  what was still unread in its stream is lost with it.
- `Notifications::next` returns `None` also for an event it cannot decrypt,
  though its comment (`nwc/client/mod.rs:414`) says at the end of the stream;
  `wait_for` drops notifications of other types for good.
- Half a second (`nwc/client/mod.rs:391`) does not ensure that the wallet has
  applied the subscription: `NotificationNotMissed` is about notifications that
  were sent. The filter it then opens starts at the client's current second
  (`nwc/client/mod.rs:398`), so that a notification of a wallet whose clock is
  behind may not be passed on; the property names this exception, and that a
  wallet whose clock is not behind does not meet it.
- `await_response` decrypts the answer outside its deadline
  (`nnc/client/mod.rs:245`), and so does `send` of the wallet client (330): a signer
  that never returns, a remote one for instance, holds the call for ever.
- `percent_decode` (`uri.rs:103`) turns bytes into characters one by one, so
  relays outside ASCII do not come back, and slices the string by bytes, which
  panics when a character of several bytes follows a percent sign;
  `from_str_radix` also takes `%+4`. `RoundTrip` and `WalletUriRead` are about ASCII
  relays.

**Fairness** (`service`): the task takes a step when it can, which includes
that the process is started again after a crash and that handlers return;
relays come back, and the client reads what they send. The tokio runtime and the
SDK's reconnect loop give the first and the last; handlers have no time limit in
the code, so that they return is an assumption on the node. Nobody is assumed to
publish anything, and re-reads may fail every time: `GrantTakesEffect` then
rests on the SDK's own resubscription.

In the clients, `send_event` returns, deadlines pass (both are timers of the
runtime or of the SDK), a spawned unsubscribe runs, and a task that awaits
`next` reads what is there. Neither node nor wallet has to answer, and no caller
has to await a handle or to drop it, so `EveryCallReturns` and `EveryWaitEnds`
rest on the deadlines, and on a signer that returns, and `HandleReleased` speaks of handles that are gone.
`next` of the wallet client has no deadline; it is only claimed to return once
its `WalletConnect` is gone. A handle dropped outside a runtime spawns nothing;
its subscription then lasts as long as the client.

## Proofs

Every safety property that a passing run checks, but for the two of `Uri`, is
also a theorem, for every value of the constants: sets of events, callers,
commands and relays of any size, any integer width, capacity and bound on time,
restarts, lost connections and noise. `theorems` in `PROJECT.json` lists them.
Each proof has an inductive invariant, one step per action under it, and a
temporal step at the end. What the provers need to know of `\div`,
multiplication, saturation and sequences is stated once, in `CommonProofs`.

**Buckets.** `WindowBound` is not inductive: it bounds what was spent and says
nothing of what is left. `IInv` adds `Accounted`: once something was spent in the
window, tokens spent in it plus tokens still in the bucket plus the refill that is
due, each weighed by `per_secs`, never exceed the capacity plus the refill of the seconds the clock
ran. What is due (`Due`) is the saturating difference of clock and `since`: it
grows by at most a second when the clock runs one, never grows when the clock is
set back, also behind `since`, and a withdrawal converts it and the balance to
spent tokens; the floor of the refill division only loses tokens. `PromiseGood`
compares a yes with the balance at the instant it was given at, which no later
change of the clock can touch; `PromiseKept` follows since a balance only grows
with time.

**Grants.** Only trusted grants are stored, a newest arrived one is in force, a
revocation denies everything until a newer grant arrives (through `resolve`,
`guard` and `lookup`), and the registry implements `NewestWins`.
`NewestInForce` is inductive together with `TypeOK`; the others follow.

**Pipeline.** `RateBound` and `QuotaBound` need the account of `Bucket` again, now
below a ceiling, since the rule of a bucket is replaced under it, and over all
lives of the process, since a restart forgets the bucket: each life adds one
capacity, and so does an execution that moved money and returned an error, which
the account does not see. The account of a quota is closed at `Instant`, the time the call in
flight read when it began, because the commit withdraws at that time and not at
the current one, which may be later or, when the clock was set back, earlier; that the commit is covered (`CommitHonoured`) is a part of the
same invariant. `QuotaBounded` assumes `NodeKeepsSelection`: the code does not
give `execute` what `prepare` selected, and without it the bound is false. The
other theorems have no such hypothesis.

**Registry and notifiers.** `RegistryInv` says that the grants are the newest
arrived ones (`InForce`) and that an entry of the subscriptions comes from a
subscription of its author that arrived (`SubsAccepted`); `DeliveryNeedsBoth`
follows. `OnlyUnsubscriptionForgets` is inductive together with it: what removes an
entry, or puts another in its place, is an event as new that was accepted. `BoundedByGrants` needs `KeyedByGrant`: until a
grant for `OTHERS` arrives, an entry is of a controller the owners wrote a grant
for, and the events of a history are finitely many. `Notifier` implements `Registry`, so both hold
there too. For its calls, `CallsOK` says that what was sent and what is still to
be sent are together one send to each recipient the call read, and `LoopOK` that
the copy is made from all that was applied before the batch under way.

**Service.** `BaseInv` holds for every startup: an event is in the stream at most
once and only when it was seen (`Flow`), an answered request does not come again
(`OnceOnly`), a subscribed client has seen what a connected relay holds or has it
on the wire (`SeenOrSent`), and the mirror is the registries' own except during a
refresh (`Mirrored`). Two theorems have the hypothesis `StartupFaults = {}`, the
undisturbed startup of the runs, without which the code does not have the
property (see the violations above). `SyncInv` says what it gives: what was seen
during the startup is what the fetch reads, and from then on everything seen is
in force or was skipped (`Settled`), or will be, once what was fetched and what is
in the stream is applied; with `SeenOrSent` that is `InSync`. `Settled` is not
stable by itself: a fetch takes an event out of `lost`, and it is then among what
was fetched. `NoStaleAllow` is in addition for one relay,
since two relays are not ordered among each other. `AheadInv` says that the relay
holds something as new as all that was published, and that whatever was published
before a request is applied, or is ahead of it on the wire or in the stream, or
was just fetched, or was skipped. Lost connections, failed re-reads, crashes and
the capacity of the stream are arbitrary in both.

**Clients.** An event in a stream is of its filter, was sent, and about a command
says what the node decided (`Sendable`, `GoodStreams`); that is why a caller
learns its own decision or nothing, which is the refinement of `Command`. How far
a command is fixes which streams and filters it holds (`Progress`, `Equipped`;
`CommandOK` in the wallet), and what was passed on to it is unread, taken, or was
pushed out of a full stream (`Reached`); the listener and the notification stream
have the same (`ListenerOK`, `NoticeOK`, which also keeps the second the filter of
the stream starts at, since dropping the `WalletConnect` closes the filter).

**Assumptions** on the constants, each named beside its declaration and evaluated
by the runs: `U64Max` is a positive natural; timestamps are natural numbers, and
for `Notifier` not zero; rules and costs are in the range of the code's types, as
parsing guarantees; grant events name known targets; the events of `Service` are
finitely many and have the node's p tag, which its filters ask for, and requests
are not among them, and the capacity of its stream is not zero; the ceilings of `Pipeline` are what its valid profiles stay
below; `None` differs from every value it stands beside.

**Only model-checked.** All liveness (`GrantTakesEffect`, `RequestAnswered`,
`EveryCallReturns`, `HandleReleased`, `EveryWaitEnds`): fairness and `ENABLED` are
out of the prover's reach. `RoundTrip` and `WalletUriRead` of `Uri`: its codec is
recursive over its input and its parsers filter sequences, and induction over data
is out of reach too.

## Not modelled

- Message types and their serialisation: data without state. That one does not
  read as its type is a case of the clients and of the registries.
- The macro, which generates `methods()`; `Served` stands for its result.
- Vendored code. Relays and the SDK client are modelled from how they are used.
  In particular `Receive` takes an event for seen in the step it arrives in, so
  that one that comes through two relays is reported once. The vendored SDK looks
  the id up and saves it in two awaited steps of each relay's task
  (`relay/inner.rs:1234`), so that two relays delivering at the same instant could
  both report it: that a request is handled once rests on their not doing so.
- Decoding a request, and a service without a handler for its protocol
  (`transport.rs:573` to 615): answers that depend on nothing and change nothing.
- Cryptography and signatures, which are taken to work.
- The loop of `await_response` would spin if the stream ended before the
  deadline. It cannot: the call holds the client that feeds the stream.

## Plan

1. Done: limits, profiles, grants, usage, pipeline, subscriptions, the service
   loop, notifiers, both clients, URIs; every safety property of theirs proved
   but for those of `Uri`.
2. Left to prove: a sharper `InSync` for startups with a single fault, and the
   lemmas of percent coding that need no induction.
3. Left to model: a client composed with the service, retries included.
