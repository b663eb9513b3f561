CONSTANTS
  W <- MCW
  Magic <- MCMagic
  Message <- MCMessage
  Token <- MCToken
  Bytes <- MCBytes
  Foreign <- MCForeign
  Room <- MCRoom
  MaxSteps <- MCMaxSteps
SPECIFICATION Spec
INVARIANTS
  SentTokenIsAToken
  AttachedTokenStays
  SentIsDecoded
  ReceivedIsSpelledOut
CHECK_DEADLOCK FALSE
