------------------------------- MODULE MCUri -------------------------------
(* Instance of Uri for TLC: relays of up to three chars, two of them up to *)
(* one and two, with every separator and one char outside ASCII, and every *)
(* query of up to five symbols.                                            *)
EXTENDS Uri

Upto(n, S) == UNION {[1..k -> S] : k \in 0..n}

HexKey == <<107>>
OtherKey == <<110>>
SecretKey == <<120>>

Chars == {<<Byte(c)>> : c \in {"%", "&", "+", "=", "?"}} \cup {<<97>>, <<52>>, <<195, 169>>}

Relays(n) == {FlattenSeq(s) : s \in Upto(n, Chars)}

RelayLists ==
  {<<r>> : r \in Relays(3)} \cup {<<r, t>> : r \in Relays(1), t \in Relays(2)}

MCUris ==
  {NodeUri(HexKey, relays) : relays \in RelayLists}
    \cup {WalletUri(OtherKey, relays, SecretKey) : relays \in RelayLists}

Symbols == {<<Byte("=")>>, <<Byte("&")>>, RELAY, SECRET, SecretKey}

Queries ==
  {FlattenSeq(q) : q \in Upto(5, Symbols)}
    \cup {RELAY \o <<Byte("=")>> \o FlattenSeq(q) : q \in Upto(4, Chars)}

MCTexts ==
  {[scheme |-> scheme, rest |-> key \o <<Byte("?")>> \o query] :
     scheme \in {SCHEME, WALLET_SCHEME, "https"}, key \in {HexKey, OtherKey}, query \in Queries}

MCHexKeys == {HexKey}
MCOtherKeys == {OtherKey}
MCSecretKeys == {SecretKey}
=============================================================================
