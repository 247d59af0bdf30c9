---------------------------- MODULE MCNncClient ----------------------------
(***************************************************************************)
(* Scenes of NncClient: two commands side by side, a command beside        *)
(* the listener, and each alone among events that are not for it or cannot *)
(* be read, of a node whose clock is a second behind.                      *)
(***************************************************************************)
EXTENDS NncClient

CONSTANTS get, opn, cls

Undisturbed(cast) ==
  [cast |-> cast, skew |-> 0, seconds |-> 1, spoilt |-> {}, noise |-> 0]

Disturbed(cast) ==
  [cast |-> cast, skew |-> -1, seconds |-> 2, spoilt |-> Spoilt, noise |-> 1]

MCScenes ==
  {Undisturbed({get, opn}), Undisturbed({opn, cls}), Undisturbed({opn, "listener"})}
    \cup {Disturbed({x}) : x \in {get, opn, "listener"}}
=============================================================================
