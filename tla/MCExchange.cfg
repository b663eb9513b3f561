CONSTANTS
  W <- MCW
  Magic <- MCMagic
  ResponseMagic <- MCResponseMagic
  TokenMagic <- MCTokenMagic
  Internal <- MCInternal
  Colon <- MCColon
  Lexeme <- MCLexeme
  Document <- MCDocument
  Unguarded <- MCUnguarded
  Ring <- MCRing
  Options <- MCOptions
  Now <- MCNow
  Skew <- MCSkew
  Target <- MCTarget
  Payloads <- MCPayloads
  Foreign <- MCForeign
  Outcome <- MCOutcome
  InlineLimit <- MCInlineLimit
  Paths <- MCPaths
  CutAt <- MCCutAt
  MaxTokens <- MCMaxTokens
SPECIFICATION Spec
INVARIANTS
  BuiltTokenIsIssued
  ReportedPairIsOnDisk
  GrantedIsIssued
  ClientChecksWhatServerChecks
  ArgumentsArrive
  BuiltConformsToTool
  AnswerIsRead
  FailureIsRead
  CodeSurvives
CHECK_DEADLOCK FALSE
