---------------------------- MODULE WalletClient ----------------------------
(***************************************************************************)
(* The NWC client (nwc/client): concurrent requests of one WalletConnect,  *)
(* and one Notifications stream taken from it.                             *)
(*                                                                         *)
(* A command is one call of a method, and stands for the request event it  *)
(* signs.  A notification stands for its type, and happens at most once.   *)
(* As in NncClient, every await may fail or be dropped by the caller,      *)
(* timeouts may fire at any time, the clock counts the seconds stamped on  *)
(* events, and the wallet's is scene.skew away from the client's.          *)
(*                                                                         *)
(* The wallet is external: it decides each request once, takes notice of   *)
(* a published subscription when it likes, and sends a notification of a   *)
(* wanted type only from then on.                                          *)
(***************************************************************************)
EXTENDS Sdk, SequencesExt, FiniteSets

CONSTANTS Commands, Types,
          Wallet, Other,     \* the service addressed, another one
          Scenes             \* who takes part, and what the world does to them

\* cast: the commands called, and Heard if notifications() is; skew: the
\* wallet's clock less the client's; seconds: how far the clock runs; spoilt:
\* what the wallet's events may carry instead of what they should; noise: how
\* many events there are that are not meant for this client.
Heard == "notifications"
Spoilt == {"garbled", "malformed"}

ASSUME ScenesAssumption ==
  \A s \in Scenes :
    /\ s.cast \subseteq Commands \cup {Heard}
    /\ s.skew \in Int /\ 1 + s.skew \in Nat      \* a timestamp is no less than 0
    /\ s.seconds \in Nat \ {0} /\ s.spoilt \subseteq Spoilt /\ s.noise \in Nat

ASSUME CommandsAssumption ==
  /\ Heard \notin Commands
  /\ None \notin Commands \cup {"ok", "refused", "timed_out", "failed"}

\* The events there are, as far as this client tells them apart.
Messages ==
  [kind : {"response", "notification"}, author : {Wallet, Other},
   re : Commands \cup {None}, type : Types \cup {None},
   body : {"ok", "refused"} \cup Spoilt, at : Nat]

ASSUME StreamsAssumption == None \notin Seq(Messages)

VARIABLES
  scene, clock,
  \* the client
  open,         \* relay filters
  streams,      \* unread events of each stream, or None
  pc, result,   \* of each command
  stage,        \* how far notifications() has come
  since,        \* the second its filter starts at
  reader,       \* what the caller of next or wait_for waits for, or None
  dropped,      \* the WalletConnect is gone
  \* the wallet
  requests, verdict, sent,
  wanted,       \* the subscription is in effect
  noise,
  \* history
  happened,     \* notification types that came about
  arrived,      \* events the client received
  overrun,      \* events pushed out of a full stream, with the stream
  due,          \* notifications sent while the stream was there
  read          \* what next took from it, and what became of that

calls == <<pc, result, requests>>
wallet == <<verdict, sent, wanted, noise, happened>>
history == <<arrived, overrun, due>>
time == <<clock, since>>
vars == <<scene, time, open, streams, calls, stage, reader, dropped, wallet, history, read>>

Streams == Commands \cup {Heard}

Init ==
  /\ clock = 1 /\ since = 0
  /\ open = {} /\ streams = [s \in Streams |-> None]
  /\ scene \in Scenes
  /\ pc = [c \in Commands |-> IF c \in scene.cast THEN "idle" ELSE "over"]
  /\ stage = IF Heard \in scene.cast THEN "idle" ELSE "failed"
  /\ result = [c \in Commands |-> None]
  /\ reader = None /\ dropped = FALSE
  /\ requests = {} /\ verdict = [c \in Commands |-> None]
  /\ sent = {} /\ wanted = FALSE /\ noise = 0 /\ happened = {}
  /\ arrived = {} /\ overrun = {} /\ due = {} /\ read = {}

Tick ==
  /\ clock < scene.seconds
  /\ clock' = clock + 1
  /\ UNCHANGED <<scene, since, open, streams, calls, stage, reader, dropped, wallet, history,
                 read>>

Unread(s) == streams[s] # None /\ streams[s] # << >>
Next1(s) == Head(streams[s])
Rest(s) == [streams EXCEPT ![s] = Tail(@)]
Closed(s) == [streams EXCEPT ![s] = None]

-----------------------------------------------------------------------------
(* send and the methods on top of it.                                      *)

Goto(c, place) == pc' = [pc EXCEPT ![c] = place]

\* Mutant of End: the stream outlives the call.
EndHoldingStream(c, r) ==
  /\ pc' = [pc EXCEPT ![c] = "over"]
  /\ result' = [result EXCEPT ![c] = r]
  /\ UNCHANGED streams

End(c, r) ==
  /\ pc' = [pc EXCEPT ![c] = "over"]
  /\ result' = [result EXCEPT ![c] = r]
  /\ streams' = Closed(c)

SendSubscribe(c) ==
  /\ pc[c] = "idle" /\ ~ dropped
  /\ open' = open \cup {Filter(c, "response", None, clock)}
  /\ Goto(c, "prepared")
  /\ UNCHANGED <<scene, time, streams, result, requests, stage, reader, dropped, wallet,
                 history, read>>

\* Take the stream, send the request.
SendPublish(c) ==
  /\ pc[c] = "prepared"
  /\ streams' = [streams EXCEPT ![c] = << >>]
  /\ requests' = requests \cup {c}
  /\ Goto(c, "published")
  /\ UNCHANGED <<scene, time, open, result, stage, reader, dropped, wallet, history, read>>

SendReturns(c) ==
  /\ pc[c] = "published"
  /\ Goto(c, "awaiting")
  /\ UNCHANGED <<scene, time, open, streams, result, requests, stage, reader, dropped, wallet,
                 history, read>>

\* An early return (relay, signer, JSON), or the future is dropped.
Abandon(c) ==
  /\ pc[c] \in {"prepared", "published", "awaiting"}
  /\ End(c, "failed")
  /\ UNCHANGED <<scene, time, open, requests, stage, reader, dropped, wallet, history, read>>

RepliesTo(c, e) == e.kind = "response" /\ e.author = Wallet /\ e.re = c

SkipResponse(c) ==
  /\ pc[c] = "awaiting" /\ Unread(c) /\ ~ RepliesTo(c, Next1(c))
  /\ streams' = Rest(c)
  /\ UNCHANGED <<scene, time, open, calls, stage, reader, dropped, wallet, history, read>>

\* A refusal, a result, or one that does not decrypt, parse or decode.
Answered(c) ==
  /\ pc[c] = "awaiting" /\ Unread(c) /\ RepliesTo(c, Next1(c))
  /\ LET body == Next1(c).body
     IN  End(c, IF body \in {"ok", "refused"} THEN body ELSE "failed")
  /\ UNCHANGED <<scene, time, open, requests, stage, reader, dropped, wallet, history, read>>

\* Mutant of TimeOut: no answer counts as a refusal.
TimeOutRefused(c) ==
  /\ pc[c] = "awaiting"
  /\ End(c, "refused")
  /\ UNCHANGED <<scene, time, open, requests, stage, reader, dropped, wallet, history, read>>

TimeOut(c) ==
  /\ pc[c] = "awaiting"
  /\ End(c, "timed_out")
  /\ UNCHANGED <<scene, time, open, requests, stage, reader, dropped, wallet, history, read>>

-----------------------------------------------------------------------------
(* notifications().                                                        *)

\* Publish the subscription.
Ask ==
  /\ stage = "idle" /\ ~ dropped
  /\ stage' = "asked"
  /\ UNCHANGED <<scene, time, open, streams, calls, reader, dropped, wallet, history, read>>

\* Half a second later, whether or not the wallet has it, open the filter.
OpenFilter ==
  /\ stage = "asked"
  /\ open' = open \cup {Filter(Heard, "notification", None, clock)}
  /\ since' = clock
  /\ stage' = "filtering"
  /\ UNCHANGED <<scene, clock, streams, calls, reader, dropped, wallet, history, read>>

TakeStream ==
  /\ stage = "filtering"
  /\ streams' = [streams EXCEPT ![Heard] = << >>]
  /\ stage' = "taken"
  /\ UNCHANGED <<scene, time, open, calls, reader, dropped, wallet, history, read>>

\* The relay layer fails, or the caller drops the future.
AskFails ==
  /\ stage \in {"asked", "filtering"}
  /\ stage' = "failed"
  /\ UNCHANGED <<scene, time, open, streams, calls, reader, dropped, wallet, history, read>>

-----------------------------------------------------------------------------
(* Notifications: next and wait_for.  AnyType is what next waits for.      *)

AnyType == "any"

\* Mutant of Read: the stream is taken now.
ReadTaking(want) ==
  /\ stage = "taken" /\ reader = None
  /\ reader' = want
  /\ streams' = [streams EXCEPT ![Heard] = << >>]
  /\ UNCHANGED <<scene, time, open, calls, stage, dropped, wallet, history, read>>

Read(want) ==
  /\ stage = "taken" /\ reader = None
  /\ reader' = want
  /\ UNCHANGED <<scene, time, open, streams, calls, stage, dropped, wallet, history, read>>

Took(e, fate) == read' = read \cup {[event |-> e, fate |-> fate, for |-> reader]}

IsNotification(e) == e.kind = "notification" /\ e.author = Wallet

\* Not for this stream, or not a WalletNotification: look at the next one.
ReadSkips ==
  /\ reader # None /\ Unread(Heard)
  /\ ~ IsNotification(Next1(Heard)) \/ Next1(Heard).body = "malformed"
  /\ streams' = Rest(Heard)
  /\ Took(Next1(Heard), "skipped")
  /\ UNCHANGED <<scene, time, open, calls, stage, reader, dropped, wallet, history>>

Readable(e) == IsNotification(e) /\ e.body = "ok"

ReadReturns ==
  /\ reader # None /\ Unread(Heard)
  /\ Readable(Next1(Heard)) /\ reader \in {AnyType, Next1(Heard).type}
  /\ streams' = Rest(Heard)
  /\ Took(Next1(Heard), "returned")
  /\ reader' = None
  /\ UNCHANGED <<scene, time, open, calls, stage, dropped, wallet, history>>

\* wait_for drops what is of another type.
WaitDiscards ==
  /\ reader # None /\ Unread(Heard)
  /\ Readable(Next1(Heard)) /\ reader \notin {AnyType, Next1(Heard).type}
  /\ streams' = Rest(Heard)
  /\ Took(Next1(Heard), "discarded")
  /\ UNCHANGED <<scene, time, open, calls, stage, reader, dropped, wallet, history>>

\* One that does not decrypt makes next return None, and wait_for with it.
ReadGivesUp ==
  /\ reader # None /\ Unread(Heard)
  /\ IsNotification(Next1(Heard)) /\ Next1(Heard).body = "garbled"
  /\ streams' = Rest(Heard)
  /\ Took(Next1(Heard), "gave up")
  /\ reader' = None
  /\ UNCHANGED <<scene, time, open, calls, stage, dropped, wallet, history>>

\* The deadline of wait_for passes, or a caller of next loses patience.
ReadStops ==
  /\ reader # None
  /\ reader' = None
  /\ UNCHANGED <<scene, time, open, streams, calls, stage, dropped, wallet, history, read>>

\* Mutant of StreamEnded: the loop goes on when the stream has ended.
StreamEndedUnnoticed ==
  /\ reader \notin {None, AnyType} /\ dropped /\ streams[Heard] = << >>
  /\ reader' = None
  /\ UNCHANGED <<scene, time, open, streams, calls, stage, dropped, wallet, history, read>>

\* What was broadcast before the client went is read first; then None.
StreamEnded ==
  /\ reader # None /\ dropped /\ streams[Heard] = << >>
  /\ reader' = None
  /\ UNCHANGED <<scene, time, open, streams, calls, stage, dropped, wallet, history, read>>

\* The WalletConnect goes while nothing borrows it, and its client with it;
\* a Notifications taken from it stays.
DropWalletConnect ==
  /\ ~ dropped /\ stage \in {"idle", "taken", "failed"}
  /\ \A c \in Commands : pc[c] \in {"idle", "over"}
  /\ dropped' = TRUE
  /\ open' = {}
  /\ UNCHANGED <<scene, time, streams, calls, stage, reader, wallet, history, read>>

-----------------------------------------------------------------------------
(* The wallet and the relay.                                               *)

Event(kind, author, re, type, body) ==
  [kind |-> kind, author |-> author, re |-> re, type |-> type, body |-> body,
   at |-> clock + scene.skew]

Transmit(e) ==
  /\ sent' = sent \cup {e}
  /\ IF Passes(open, e)
     THEN /\ arrived' = arrived \cup {e}
          /\ streams' = Broadcast(streams, e)
          /\ overrun' = overrun \cup PushedOut(streams)
     ELSE UNCHANGED <<arrived, streams, overrun>>
  /\ due' = IF stage = "taken" /\ ~ dropped /\ IsNotification(e) THEN due \cup {e} ELSE due

Decide(c, v) ==
  /\ c \in requests /\ verdict[c] = None
  /\ verdict' = [verdict EXCEPT ![c] = v]
  /\ UNCHANGED <<scene, time, open, streams, calls, stage, reader, dropped, sent, wanted, noise,
                 happened, history, read>>

Reply(c, body) ==
  /\ verdict[c] # None /\ ~ \E e \in sent : e.re = c
  /\ body \in {verdict[c]} \cup scene.spoilt
  /\ Transmit(Event("response", Wallet, c, None, body))
  /\ UNCHANGED <<scene, time, open, calls, stage, reader, dropped, verdict, wanted, noise, happened,
                 read>>

\* The wallet reads the subscription off the relay.
TakeNotice ==
  /\ stage \in {"asked", "filtering", "taken"} /\ ~ wanted
  /\ wanted' = TRUE
  /\ UNCHANGED <<scene, time, open, streams, calls, stage, reader, dropped, verdict, sent, noise,
                 happened, history, read>>

\* Something to notify of: sent to whoever is subscribed by now.
Happen(type, body) ==
  /\ Heard \in scene.cast /\ type \notin happened
  /\ body \in {"ok"} \cup scene.spoilt
  /\ happened' = happened \cup {type}
  /\ IF wanted THEN Transmit(Event("notification", Wallet, None, type, body))
     ELSE body = "ok" /\ UNCHANGED <<sent, streams, history>>
  /\ UNCHANGED <<scene, time, open, calls, stage, reader, dropped, verdict, wanted, noise, read>>

\* Events of another service for the same key.
Noise(kind) ==
  /\ noise < scene.noise
  /\ noise' = noise + 1
  /\ Transmit(Event(kind, Other, None, None, "ok"))
  /\ UNCHANGED <<scene, time, open, calls, stage, reader, dropped, verdict, wanted, happened, read>>

-----------------------------------------------------------------------------

Call(c) ==
  \/ SendSubscribe(c) \/ SendPublish(c) \/ SendReturns(c) \/ Abandon(c)
  \/ SkipResponse(c) \/ Answered(c) \/ TimeOut(c)

Notifications ==
  \/ Ask \/ OpenFilter \/ TakeStream \/ AskFails
  \/ \E want \in Types \cup {AnyType} : Read(want)
  \/ ReadSkips \/ ReadReturns \/ WaitDiscards \/ ReadGivesUp \/ ReadStops \/ StreamEnded

WalletActs ==
  \/ \E c \in Commands :
       \/ \E v \in {"ok", "refused"} : Decide(c, v)
       \/ \E body \in {"ok", "refused"} \cup Spoilt : Reply(c, body)
  \/ TakeNotice
  \/ \E type \in Types, body \in {"ok"} \cup Spoilt : Happen(type, body)
  \/ \E kind \in {"response", "notification"} : Noise(kind)

Next ==
  \/ \E c \in Commands : Call(c)
  \/ Notifications \/ DropWalletConnect \/ WalletActs \/ Tick

Spec == Init /\ [][Next]_vars

\* send_event returns and deadlines pass, wait_for's too.  A call of next has
\* no deadline: it goes on reading, and notices the end of the stream.
Fairness ==
  /\ \A c \in Commands : WF_vars(SendReturns(c)) /\ WF_vars(TimeOut(c))
  /\ WF_vars(reader \in Types /\ ReadStops)
  /\ WF_vars(ReadSkips) /\ WF_vars(ReadReturns) /\ WF_vars(ReadGivesUp)
  /\ WF_vars(StreamEnded)

FairSpec == Spec /\ Fairness

-----------------------------------------------------------------------------
(* Properties.                                                             *)

InFlight(c) == pc[c] \in {"published", "awaiting"}

\* The state is of the declared types; a call holds its stream exactly while
\* its request is out, and nobody reads a stream that is not there.
TypeOK ==
  /\ scene \in Scenes /\ noise \in 0..scene.noise
  /\ clock \in 1..scene.seconds /\ since \in 0..clock
  /\ streams \in [Streams -> Seq(Messages) \cup {None}]
  /\ pc \in [Commands -> {"idle", "prepared", "published", "awaiting", "over"}]
  /\ result \in [Commands -> {None, "ok", "refused", "timed_out", "failed"}]
  /\ verdict \in [Commands -> {None, "ok", "refused"}]
  /\ stage \in {"idle", "asked", "filtering", "taken", "failed"}
  /\ reader \in {None, AnyType} \cup Types
  /\ dropped \in BOOLEAN /\ wanted \in BOOLEAN
  /\ requests \subseteq Commands /\ happened \subseteq Types
  /\ sent \subseteq Messages /\ arrived \subseteq sent /\ due \subseteq sent
  /\ \A s \in Streams : streams[s] # None => Len(streams[s]) <= Capacity
  /\ \A c \in Commands : (streams[c] # None) <=> InFlight(c)
  /\ (streams[Heard] # None) <=> (stage = "taken")
  /\ reader # None => stage = "taken"

\* What a caller is told about a payment is what the wallet decided about that
\* payment; giving up leaves open whether it was made.
Learned(r) == IF r \in {"timed_out", "failed"} THEN "unknown" ELSE r

Promise ==
  INSTANCE Command WITH
    Verdicts <- {"ok", "refused"}, Unknown <- "unknown",
    issued <- requests,
    learned <- [c \in Commands |-> Learned(result[c])]

ImplementsCommand == Promise!Spec

\* A notification sent after notifications() has returned is not lost before
\* or between reads: it is still to be read, or it was given to the caller, or
\* dropped by a wait for another type, or unreadable, or pushed out of a full
\* stream, or stamped before the second its filter starts at, by a
\* wallet whose clock is behind the client's.  (Sent, that is, by a wallet that
\* has taken notice by then, which the half second does not ensure.)
NotificationNotMissed ==
  \A e \in due :
    \/ scene.skew < 0 /\ e.at < since
    \/ e \in ToSet(streams[Heard]) \/ <<Heard, e>> \in overrun
    \/ \E r \in read :
         /\ r.event = e
         /\ \/ r.fate = "returned"
            \/ r.fate = "discarded" /\ r.for \in Types \ {e.type}
            \/ r.fate \in {"skipped", "gave up"} /\ e.body # "ok"

\* "Give up rather than wait for ever": wait_for returns, and a request whose
\* event is out does; next returns when the WalletConnect is gone.
EveryWaitEnds ==
  /\ reader \in Types ~> reader = None
  /\ (reader = AnyType /\ dropped) ~> reader = None
  /\ \A c \in Commands : InFlight(c) ~> ~ InFlight(c)
=============================================================================
