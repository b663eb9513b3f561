CONSTANTS
  W <- MCW
  ConfigMagic <- MCConfigMagic
  Document <- MCDocument
  Foreign <- MCForeign
  RefOf <- MCRefOf
  MaxDecodes <- MCMaxDecodes
SPECIFICATION Spec
INVARIANTS
  DecodedIsSpelledOut
  EncodedIsDecoded
PROPERTY
  ReturnedDocumentsStay
CHECK_DEADLOCK FALSE
