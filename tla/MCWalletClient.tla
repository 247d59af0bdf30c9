--------------------------- MODULE MCWalletClient ---------------------------
(* Scenes of WalletClient: a request beside another one or beside the      *)
(* stream, and each alone among events that are not for it or cannot be    *)
(* read, of a wallet whose clock is a second behind.                       *)
EXTENDS WalletClient

CONSTANTS pay, get

Undisturbed(cast) ==
  [cast |-> cast, skew |-> 0, seconds |-> 1, spoilt |-> {}, noise |-> 0]

Disturbed(cast) ==
  [cast |-> cast, skew |-> -1, seconds |-> 2, spoilt |-> Spoilt, noise |-> 1]

MCScenes ==
  {Undisturbed({pay, get}), Undisturbed({pay, Heard})}
    \cup {Disturbed({pay}), Disturbed({Heard})}
=============================================================================
