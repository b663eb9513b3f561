CONSTANTS
  W <- MCW
  Magic <- MCMagic
  Message <- MCMessage
  Token <- MCToken
  Bytes <- MCBytes
  Foreign <- MCForeign
  Room <- MCRoom
  MaxSteps <- MCMaxSteps
SPECIFICATION Spec
INVARIANT
  AttachedTokenIsOwned
CHECK_DEADLOCK FALSE
