-------------------------------- MODULE Uri --------------------------------
(***************************************************************************)
(* Connection URIs: NodeControlUri (nnc/uri.rs), which is displayed and    *)
(* parsed, and WalletUri (nwc/client), which is only parsed: it is the     *)
(* wallet, external here, that puts it together, its parameters in any     *)
(* order.                                                                  *)
(*                                                                         *)
(* A text is a scheme and the UTF-8 bytes behind its "://".  The names of  *)
(* the parameters are one byte each, and so are the keys a parser takes    *)
(* for well-formed; everything else is byte for byte, since that is what   *)
(* percent coding works on.                                                *)
(***************************************************************************)
EXTENDS Integers, SequencesExt

CONSTANTS None,
          Uris,          \* connection URIs, of nodes and of wallets
          Texts,         \* what else there is to parse
          HexKeys,       \* public keys in hex, which both parsers take
          OtherKeys,     \* public keys in forms only PublicKey::parse takes
          SecretKeys     \* well-formed secret keys

Byte(c) ==
  CASE c = "%" -> 37 [] c = "&" -> 38 [] c = "+" -> 43 [] c = "=" -> 61 [] c = "?" -> 63

SCHEME == "nostr+nodecontrol"
WALLET_SCHEME == "nostr+walletconnect"

RELAY == <<114>>
SECRET == <<115>>
UNKNOWN == <<108>>       \* a parameter neither client knows

VARIABLES uri,           \* what is written down, or None
          text,          \* what is parsed, None before it is written
          node, wallet   \* what each parser makes of it, None before

vars == <<uri, text, node, wallet>>

-----------------------------------------------------------------------------
(* Percent coding.                                                         *)

Digit(v) == IF v < 10 THEN 48 + v ELSE 55 + v

\* What is neither a letter, a digit nor one of - _ . ~ becomes %XX.
Unreserved == (65..90) \cup (97..122) \cup (48..57) \cup {45, 46, 95, 126}

PercentEncode(s) ==
  FlattenSeq([i \in 1..Len(s) |->
    IF s[i] \in Unreserved THEN <<s[i]>>
    ELSE <<Byte("%"), Digit(s[i] \div 16), Digit(s[i] % 16)>>])

HexDigits == (48..57) \cup (65..70) \cup (97..102)

HexValue(b) == IF b < 65 THEN b - 48 ELSE IF b < 97 THEN b - 55 ELSE b - 87

\* u8::from_str_radix(.., 16) of two bytes, which takes a leading plus.
FromHex(hi, lo) ==
  CASE hi \in HexDigits /\ lo \in HexDigits -> 16 * HexValue(hi) + HexValue(lo)
    [] hi = Byte("+") /\ lo \in HexDigits   -> HexValue(lo)
    [] OTHER                                -> None

\* String::push(v as char): a byte of 128 and more becomes a two-byte char.
Push(v) == IF v < 128 THEN <<v>> ELSE <<192 + (v \div 64), 128 + (v % 64)>>

\* A slice that ends inside a char panics.
InsideChar(s, i) == i <= Len(s) /\ s[i] \in 128..191
Slices(s) == {i \in 1..Len(s) : s[i] = Byte("%") /\ i + 2 <= Len(s)}

\* Mutant of PercentDecode: an escape at the very end is not decoded.
PercentDecodeShort(s) ==
  LET from[i \in 1..(Len(s) + 3)] ==
        IF i > Len(s) THEN << >>
        ELSE LET v == IF s[i] = Byte("%") /\ i + 2 < Len(s)
                      THEN FromHex(s[i + 1], s[i + 2]) ELSE None
             IN  IF v = None THEN Push(s[i]) \o from[i + 1] ELSE Push(v) \o from[i + 3]
  IN  from[1]

\* Every percent sign with two bytes behind it is looked at where decoding
\* comes past it; what does not decode stands for itself, byte by byte.
PercentDecode(s) ==
  LET escape(i) == IF i \in Slices(s) THEN FromHex(s[i + 1], s[i + 2]) ELSE None
      from[i \in 1..(Len(s) + 3)] ==
        IF i > Len(s) THEN << >>
        ELSE IF escape(i) = None THEN Push(s[i]) \o from[i + 1]
             ELSE Push(escape(i)) \o from[i + 3]
  IN  from[1]

\* No percent sign is part of another's escape, so decoding comes past each.
Panics(s) == \E i \in Slices(s) : InsideChar(s, i + 3)

-----------------------------------------------------------------------------
(* Queries.                                                                *)

\* The text before and behind the first b; found says whether there is one.
SplitOnce(s, b) ==
  LET at == SelectInSeq(s, LAMBDA x : x = b)
  IN  [found  |-> at # 0,
       before |-> IF at = 0 THEN s ELSE SubSeq(s, 1, at - 1),
       behind |-> IF at = 0 THEN << >> ELSE SubSeq(s, at + 1, Len(s))]

\* split('&'), without the empty pieces, each split at its first '='.
Pairs(query) ==
  LET ands == {i \in 1..Len(query) : query[i] = Byte("&")}
      cuts == <<0>> \o SetToSortSeq(ands, LAMBDA i, j : i < j) \o <<Len(query) + 1>>
      piece(n) == SubSeq(query, cuts[n] + 1, cuts[n + 1] - 1)
      pieces == SelectSeq([n \in 1..(Len(cuts) - 1) |-> piece(n)], LAMBDA p : p # << >>)
  IN  [n \in 1..Len(pieces) |-> SplitOnce(pieces[n], Byte("="))]

Named(pairs, name) == SelectSeq(pairs, LAMBDA p : p.before = name)
Decoded(pairs) == [n \in 1..Len(pairs) |-> PercentDecode(pairs[n].behind)]

-----------------------------------------------------------------------------
(* NodeControlUri.                                                         *)

NodeUri(key, relays) ==
  [scheme |-> SCHEME, key |-> key, relays |-> relays, secret |-> None]

Param(name, value) == name \o <<Byte("=")>> \o PercentEncode(value)
RelayParams(relays) == [i \in 1..Len(relays) |-> Param(RELAY, relays[i])]

Query(params) ==
  FlattenSeq([i \in 1..Len(params) |->
    <<IF i = 1 THEN Byte("?") ELSE Byte("&")>> \o params[i]])

Display(u) == [scheme |-> SCHEME, rest |-> u.key \o Query(RelayParams(u.relays))]

Ok(u) == [error |-> None, uri |-> u]
Err(why) == [error |-> why]

\* The pairs from_str comes to before it returns at a secret.
UpToSecret(pairs) ==
  LET at == SelectInSeq(pairs, LAMBDA p : p.before = SECRET)
  IN  IF at = 0 THEN pairs ELSE SubSeq(pairs, 1, at - 1)

NodeFromStr(s) ==
  LET rest == SplitOnce(s.rest, Byte("?"))
      pairs == Pairs(rest.behind)
      relays == Named(UpToSecret(pairs), RELAY)
  IN  CASE s.scheme # SCHEME                             -> Err("WrongScheme")
        [] rest.before \notin HexKeys                    -> Err("BadServiceKey")
        [] \E p \in ToSet(relays) : Panics(p.behind)     -> Err("panic")
        [] Named(pairs, SECRET) # << >>                  -> Err("CarriesSecret")
        [] relays = << >>                                -> Err("NoRelay")
        [] OTHER -> Ok(NodeUri(rest.before, Decoded(relays)))

-----------------------------------------------------------------------------
(* WalletUri.                                                              *)

WalletUri(key, relays, secret) ==
  [scheme |-> WALLET_SCHEME, key |-> key, relays |-> relays, secret |-> secret]

\* What a wallet may write: the relays in their order, the secret anywhere
\* among them, and first, perhaps, a parameter of its own without a value.
Compositions(u) ==
  {[scheme |-> WALLET_SCHEME,
    rest |-> u.key \o Query(own \o InsertAt(RelayParams(u.relays), n, Param(SECRET, u.secret)))] :
     n \in 1..(Len(u.relays) + 1), own \in {<< >>, <<UNKNOWN>>}}

\* Mutant of WalletFromStr: the secret ends the parameters, as for a node.
WalletFromStrUpToSecret(s) ==
  LET rest == SplitOnce(s.rest, Byte("?"))
      pairs == SelectSeq(Pairs(rest.behind), LAMBDA p : p.found)
      relays == Named(UpToSecret(pairs), RELAY)
      secrets == Decoded(Named(pairs, SECRET))
  IN  CASE rest.before \notin HexKeys \cup OtherKeys      -> Err("Wallet")
        [] relays = << >>                                 -> Err("NoRelay")
        [] secrets = << >> \/ Last(secrets) \notin SecretKeys -> Err("Secret")
        [] OTHER -> Ok(WalletUri(rest.before, Decoded(relays), Last(secrets)))

\* Pairs without a value are passed over; of several secrets the last counts,
\* well-formed or not.
WalletFromStr(s) ==
  LET rest == SplitOnce(s.rest, Byte("?"))
      pairs == SelectSeq(Pairs(rest.behind), LAMBDA p : p.found)
      relays == Named(pairs, RELAY)
      secrets == Decoded(Named(pairs, SECRET))
  IN  CASE s.scheme # WALLET_SCHEME                       -> Err("Scheme")
        [] rest.before \notin HexKeys \cup OtherKeys      -> Err("Wallet")
        [] \E p \in ToSet(pairs) : Panics(p.behind)       -> Err("panic")
        [] relays = << >>                                 -> Err("NoRelay")
        [] secrets = << >> \/ Last(secrets) \notin SecretKeys -> Err("Secret")
        [] OTHER -> Ok(WalletUri(rest.before, Decoded(relays), Last(secrets)))

-----------------------------------------------------------------------------

Init ==
  /\ \/ uri \in Uris /\ text = None
     \/ uri = None /\ text \in Texts
  /\ node = None /\ wallet = None

Show ==
  /\ text = None /\ uri.scheme = SCHEME
  /\ text' = Display(uri)
  /\ UNCHANGED <<uri, node, wallet>>

Compose ==
  /\ text = None /\ uri.scheme = WALLET_SCHEME
  /\ text' \in Compositions(uri)
  /\ UNCHANGED <<uri, node, wallet>>

Parse ==
  /\ text # None /\ node = None
  /\ node' = NodeFromStr(text)
  /\ wallet' = WalletFromStr(text)
  /\ UNCHANGED <<uri, text>>

\* A node control URI that came from outside is displayed in its turn.
ShowParsed ==
  /\ uri = None /\ node # None /\ node.error = None
  /\ uri' = node.uri
  /\ text' = Display(node.uri)
  /\ node' = None /\ wallet' = None

Next == Show \/ Compose \/ Parse \/ ShowParsed

Spec == Init /\ [][Next]_vars

-----------------------------------------------------------------------------
(* Properties.                                                             *)

Ascii(s) == \A i \in DOMAIN s : s[i] < 128
AsciiRelays(u) == \A i \in DOMAIN u.relays : Ascii(u.relays[i])

\* A displayed URI parses back to itself, whatever separators, percent signs
\* and plus signs its relays contain, as long as they are ASCII; also when it
\* was itself parsed from a text that escaped more or less than Display does.
RoundTrip ==
  (uri # None /\ uri.scheme = SCHEME /\ node # None /\ AsciiRelays(uri)) => node = Ok(uri)

\* The wallet client reads the relays, in their order, and the identity a
\* wallet wrote down, wherever the secret stands among the parameters,
\* whatever the relays contain, as long as it is ASCII.
WalletUriRead ==
  (uri # None /\ uri.scheme = WALLET_SCHEME /\ wallet # None /\ AsciiRelays(uri))
    => wallet = Ok(uri)
=============================================================================
