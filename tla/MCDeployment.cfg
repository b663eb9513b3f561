CONSTANTS
  Caller <- MCCaller
  Doc <- MCDoc
  Version <- MCVersion
  First <- MCFirst
  Host <- MCHost
  AddressOf <- MCAddressOf
  DeniedName <- MCDeniedName
  Indirect <- MCIndirect
  Addr <- MCAddr
  Blocked <- MCBlocked
  Answers <- MCAnswers
  MaxRequests <- MCMaxRequests
  PayloadLimit <- MCPayloadLimit
  Lengths <- MCLengths
  Request <- MCRequest
  BodyLength <- MCBodyLength
  Issued <- MCIssued
  Limit <- MCLimit
  DefaultLimit <- MCDefaultLimit
  Owner <- MCOwner
  MaxChanges <- MCMaxChanges
SPECIFICATION Spec
INVARIANTS
  OnlyCheckedIsDialled
  StaleOnlyIfOvertaken
  ServedIsFingerprinted
  AdmittedForWhatIsServed
  SettingsExplainOutcomes
PROPERTIES
  SumStands
  LoadEnds
CHECK_DEADLOCK FALSE
