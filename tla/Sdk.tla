-------------------------------- MODULE Sdk --------------------------------
(***************************************************************************)
(* The parts of the nostr SDK that both clients stand on, external to this *)
(* repository and modelled from how the clients use them.                  *)
(*                                                                         *)
(*  - A relay passes an event on while a filter that matches it is open,   *)
(*    and keeps none of the kinds used here: what nobody asked for at that *)
(*    moment is gone.  A filter names a kind, may name a request, and may  *)
(*    exclude what was stamped before it was opened.                       *)
(*  - The client broadcasts every event it receives to the streams taken   *)
(*    so far.  A stream holds Capacity events; a reader that falls further *)
(*    behind silently loses the oldest.                                    *)
(***************************************************************************)
EXTENDS Integers, Sequences

CONSTANTS None, Capacity

ASSUME CapacityAssumption == Capacity \in Nat \ {0}

\* since = 0 and re = None restrict nothing.
Filter(owner, kind, re, since) ==
  [owner |-> owner, kind |-> kind, re |-> re, since |-> since]

Matches(f, e) ==
  /\ f.kind = e.kind
  /\ f.re \in {None, e.re}
  /\ e.at >= f.since

Passes(open, e) == \E f \in open : Matches(f, e)

FullStreams(streams) ==
  {s \in DOMAIN streams : streams[s] # None /\ Len(streams[s]) = Capacity}

Broadcast(streams, e) ==
  [s \in DOMAIN streams |->
     CASE streams[s] = None   -> None
       [] s \in FullStreams(streams) -> Append(Tail(streams[s]), e)
       [] OTHER               -> Append(streams[s], e)]

\* What the broadcast of an event pushes out of streams that are full.
PushedOut(streams) == {<<s, Head(streams[s])>> : s \in FullStreams(streams)}
=============================================================================
