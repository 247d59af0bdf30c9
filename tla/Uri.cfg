SPECIFICATION Spec
CONSTANTS
  None = None
  Uris <- MCUris
  Texts <- MCTexts
  HexKeys <- MCHexKeys
  OtherKeys <- MCOtherKeys
  SecretKeys <- MCSecretKeys
INVARIANTS RoundTrip WalletUriRead
CHECK_DEADLOCK FALSE
